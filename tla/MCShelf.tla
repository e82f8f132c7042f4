------------------------------ MODULE MCShelf ------------------------------
(***************************************************************************)
(* An instance of Shelf for TLC; the others are parts of MCAccount and     *)
(* MCDesk.                                                                 *)
(***************************************************************************)
EXTENDS Shelf
=============================================================================
