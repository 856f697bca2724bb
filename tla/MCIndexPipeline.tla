--------------------------- MODULE MCIndexPipeline ---------------------------
(* Instances of IndexPipeline for TLC.                                     *)
EXTENDS IndexPipeline

\* The second version of a file has no usable chunk.
SecondBlank == {2}
=============================================================================
