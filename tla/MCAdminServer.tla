--------------------------- MODULE MCAdminServer ---------------------------
(***************************************************************************)
(* AdminServer for TLC: a camera whose setting changes, and may be spoilt, *)
(* beside one that may appear later.                                       *)
(***************************************************************************)
EXTENDS AdminServer

MCValues == [c \in Cameras |-> IF c = "A0" THEN {"v1", "v2", "bad"} ELSE {"v1"}]
==============================================================================
