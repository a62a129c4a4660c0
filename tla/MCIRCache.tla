----------------------------- MODULE MCIRCache -----------------------------
(* Instances of IRCache for TLC. *)
EXTENDS IRCache, TLC

\* Two of them, in either order, run together into the same bytes.
FewTexts == {<<1>>, <<1, 1>>}

\* The text that includes the header.
OneIncludes == {<<1>>}

\* Nothing is claimed of what an edit in the midst of a compilation or a store leaves behind.
Undisturbed == ~disturbed

RunSymmetry == Permutations(Runs)
=============================================================================
