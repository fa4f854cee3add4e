---------------------------- MODULE MCFileCache ----------------------------
(* Small instances of FileCache. *)
EXTENDS FileCache

CONSTANT a

=============================================================================
