---------------------------- MODULE MCContentSync ----------------------------
(* Two versions, the second shorter: a part of the first may be too long for it. *)
EXTENDS ContentSync

MCSizes == <<3, 2>>
=============================================================================
