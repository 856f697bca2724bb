-------------------------- MODULE MCModelDownload --------------------------
(* Instances of ModelDownload for TLC. *)
EXTENDS ModelDownload

ThreeFiles == <<"config", "weights", "tokenizer">>

\* The reranker: config.json and weights, of a listing with tokenizer files.
Config == {"config"}
OneWeights == {"weights"}
=============================================================================
