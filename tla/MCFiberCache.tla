---------------------------- MODULE MCFiberCache ----------------------------
(* Small instances of FiberCache: the constants are in the configuration. *)
EXTENDS FiberCache

=============================================================================
