--------------------------- MODULE MCConfigHandoff ---------------------------
(***************************************************************************)
(* ConfigHandoff for TLC: three versions of each configuration, so that a  *)
(* version can be overtaken while the one before it is being applied.      *)
(***************************************************************************)
EXTENDS ConfigHandoff
==============================================================================
