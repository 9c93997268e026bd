---------------------------- MODULE MCTokenProvider ----------------------------
(***************************************************************************)
(* TokenProvider for TLC, and what the repository says of it that the code *)
(* does not keep.                                                          *)
(***************************************************************************)
EXTENDS TokenProvider, TLC

Symmetry == Permutations(Requests)

\* auth.go: both results are checked for errors, and the caller is told.  A
\* token request that fails never ends the process.
ErrorsAreReturned == ~crashed

=============================================================================
