-------------------------- MODULE MCPreviewScripts --------------------------
(* PreviewScripts for TLC: the previews are interchangeable.               *)
EXTENDS PreviewScripts, TLC

Symmetry == Permutations(Preview)

=============================================================================
