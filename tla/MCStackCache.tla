---------------------------- MODULE MCStackCache ----------------------------
(* Small stack caches for TLC.                                             *)
EXTENDS StackCache

MCMarks24 == {<<2, 4>>}
MCMarks23 == {<<2, 3>>}
MCMarksMany == {<<2, 4>>, <<3, 3>>}
=============================================================================
