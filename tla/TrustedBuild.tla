---------------------------- MODULE TrustedBuild ----------------------------
(***************************************************************************)
(* The build that the service trusts (runtime/generation.ts): the sandbox  *)
(* is filled with the template or a saved tree, a builder or nobody works  *)
(* in it, and then one sequence of commands checks, builds, marks and      *)
(* serves what is there.  The builder's leftovers compete with it: a       *)
(* process it left behind, and a file write that was staged before its     *)
(* right to write was revoked and that root still carries out.  A tree is  *)
(* the number of the write that made it; no write restores an older tree.  *)
(***************************************************************************)
EXTENDS Naturals

CONSTANTS MaxWrites, MaxProbes,  \* writes of the builder; looks at the preview
          None

VARIABLES gate,        \* where the sequence is
          seeded, tree,                    \* a saved tree; the source in the sandbox
          right, leftover, staged,         \* builder: may write, a process of its, a write under way
          listed, checked, compiled,       \* trees: hashed first, type-checked, built
          marker, served, probes, buildHalt, result
build == <<gate, seeded, tree, right, leftover, staged, listed, checked, compiled, marker, served,
           probes, buildHalt, result>>
leftovers == <<right, leftover, staged>>
trees == <<listed, checked, compiled, marker>>

Init ==
    /\ gate = "setup" /\ seeded \in BOOLEAN /\ tree = 0 /\ right = TRUE
    /\ leftover = FALSE /\ staged = FALSE /\ listed = None /\ checked = None /\ compiled = None
    /\ marker = None /\ served = None /\ probes = 0 /\ buildHalt = FALSE /\ result = None

\* trustedBuild travels with the failure: the hash and the outcome of each command.
Fail(code) == gate' = "over" /\ result' = code
Halt ==
    /\ ~buildHalt /\ gate # "over" /\ buildHalt' = TRUE
    /\ UNCHANGED <<gate, seeded, tree, leftovers, trees, served, probes, result>>
\* throwIfAborted
Halted ==
    /\ buildHalt /\ gate \in {"revoke", "compile", "mark", "probe"} /\ Fail("CANCELLED")
    /\ UNCHANGED <<seeded, tree, leftovers, trees, served, probes, buildHalt>>
Breaks ==
    /\ gate \notin {"edit", "probe", "over"} /\ Fail("TRUSTED_BUILD_FAILED")
    /\ UNCHANGED <<seeded, tree, leftovers, trees, served, probes, buildHalt>>

-----------------------------------------------------------------------------
\* initializeReactWorkspace: the tree is written, and only a new project takes its
\* dependencies from the image, in two more writes.
Initialize ==
    /\ gate = "setup" /\ gate' = "edit" /\ tree' = IF seeded THEN 1 ELSE 2
    /\ UNCHANGED <<seeded, leftovers, trees, served, probes, buildHalt, result>>

\* The builder's commands and files; a restore has no builder.
Edit ==
    /\ gate = "edit" /\ right /\ tree < MaxWrites
    /\ \/ tree' = tree + 1 /\ UNCHANGED <<leftover, staged>>
       \/ leftover' = TRUE /\ UNCHANGED <<tree, staged>>
       \/ staged' = TRUE /\ UNCHANGED <<tree, leftover>>
    /\ UNCHANGED <<gate, seeded, right, trees, served, probes, buildHalt, result>>
LateWrite ==
    /\ leftover \/ staged
    /\ tree < MaxWrites /\ tree' = tree + 1 /\ staged' \in {staged, FALSE} /\ (leftover \/ ~staged')
    /\ UNCHANGED <<gate, seeded, right, leftover, trees, served, probes, buildHalt, result>>

Start ==
    /\ gate = "edit" /\ gate' = "revoke"
    /\ UNCHANGED <<seeded, tree, leftovers, trees, served, probes, buildHalt, result>>

\* revokeWriters, then the tree is listed and hashed.
Revoke ==
    /\ gate = "revoke" /\ gate' = "list" /\ right' = FALSE /\ leftover' = FALSE
    /\ UNCHANGED <<seeded, tree, staged, trees, served, probes, buildHalt, result>>
List ==
    /\ gate = "list" /\ gate' = "check" /\ listed' = tree
    /\ UNCHANGED <<seeded, tree, leftovers, checked, compiled, marker, served, probes, buildHalt, result>>

\* executeGate: a command of the service that exits with an error ends the build.
Typecheck ==
    /\ gate = "check"
    /\ \/ gate' = "compile" /\ checked' = tree /\ UNCHANGED result
       \/ Fail("TYPECHECK_FAILED") /\ UNCHANGED checked
    /\ UNCHANGED <<seeded, tree, leftovers, listed, compiled, marker, served, probes, buildHalt>>
Compile ==
    /\ gate = "compile"
    /\ \/ gate' = "relist" /\ compiled' = tree /\ UNCHANGED result
       \/ Fail("BUILD_FAILED") /\ UNCHANGED compiled
    /\ UNCHANGED <<seeded, tree, leftovers, listed, checked, marker, served, probes, buildHalt>>

\* Faulty variant: the tree is hashed after the build, and compared with nothing.
RelistOnly ==
    /\ gate = "relist" /\ right' = FALSE /\ leftover' = FALSE
    /\ gate' = "mark" /\ marker' = tree
    /\ UNCHANGED <<seeded, tree, staged, listed, checked, compiled, served, probes, buildHalt, result>>
\* The writers are revoked again and the tree is compared with the one listed first.
Relist ==
    /\ gate = "relist" /\ right' = FALSE /\ leftover' = FALSE
    /\ IF tree # listed THEN Fail("SOURCE_CHANGED_DURING_BUILD") /\ UNCHANGED marker
       ELSE gate' = "mark" /\ marker' = tree /\ UNCHANGED result
    /\ UNCHANGED <<seeded, tree, staged, listed, checked, compiled, served, probes, buildHalt>>

\* The marker goes beside the built files, which are then closed to writes, and served.
Serve ==
    /\ gate = "mark" /\ gate' = "probe"
    /\ served' \in {None, [revision |-> marker, dist |-> compiled]}
    /\ UNCHANGED <<seeded, tree, leftovers, trees, probes, buildHalt, result>>
\* The preview must answer with the marker of this revision and this hash.
Probe ==
    /\ gate = "probe"
    /\ \/ /\ served # None /\ served.revision = marker /\ gate' = "over" /\ result' = "preview"
          /\ UNCHANGED probes
       \/ /\ probes < MaxProbes /\ probes' = probes + 1 /\ UNCHANGED <<gate, result>>
       \/ /\ probes = MaxProbes /\ Fail("PREVIEW_START_FAILED") /\ UNCHANGED probes
    /\ UNCHANGED <<seeded, tree, leftovers, trees, served, buildHalt>>

Next ==
    \/ Halt \/ Halted \/ Breaks \/ Initialize \/ Edit \/ LateWrite \/ Start \/ Revoke \/ List
    \/ Typecheck \/ Compile \/ Relist \/ Serve \/ Probe

-----------------------------------------------------------------------------
TypeOK ==
    /\ gate \in {"setup", "edit", "revoke", "list", "check", "compile", "relist", "mark", "probe", "over"}
    /\ tree \in 0..MaxWrites /\ probes \in 0..MaxProbes /\ (gate = "over") = (result # None)

\* A preview that is reported serves the build of exactly the tree whose hash is in its
\* marker, the tree that was type-checked and that is stored as the revision, whatever
\* the builder's leftovers wrote in the meantime.
BuildIsBound ==
    result = "preview" => served.dist = marker /\ checked = marker /\ listed = marker
=============================================================================
