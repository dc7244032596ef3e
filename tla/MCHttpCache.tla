----------------------------- MODULE MCHttpCache -----------------------------
(* Small instances of HttpCache for TLC. *)
EXTENDS HttpCache

CONSTANTS f1, f2, f3
=============================================================================
