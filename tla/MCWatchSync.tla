------------------------------ MODULE MCWatchSync ------------------------------
(***************************************************************************)
(* A small instance of WatchSync: two paths, one of them a file at first.  *)
(***************************************************************************)
EXTENDS WatchSync

CONSTANTS a, b, x, y

TwoPaths == {a, b}
TwoTexts == {x, y}
OneFile  == [p \in {a, b} |-> IF p = a THEN x ELSE None]
=============================================================================
