----------------------------- MODULE MCProfiler -----------------------------
(***************************************************************************)
(* A small instance of Profiler: two methods, so that the symmetric calls  *)
(* of each other are counted once, and one other block.                    *)
(***************************************************************************)
EXTENDS Profiler, TLC

Interchangeable == Permutations(Methods)
=============================================================================
