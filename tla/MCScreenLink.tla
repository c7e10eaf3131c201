---------------------------- MODULE MCScreenLink ----------------------------
(***************************************************************************)
(* A small instance of ScreenLink.                                         *)
(***************************************************************************)
EXTENDS ScreenLink, TLC
=============================================================================
