------------------------ MODULE MCFileSetPublication ------------------------
(***************************************************************************)
(* Model-checking instances of FileSetPublication.                         *)
(***************************************************************************)
EXTENDS FileSetPublication
=============================================================================
