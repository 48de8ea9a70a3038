---------------------------- MODULE MCListingStream ----------------------------
(******************************************************************************)
(* Small instances of the listing parser for TLC.                             *)
(******************************************************************************)
EXTENDS ListingStream

CONSTANTS t1, t2, a, b

OneThread == {t1}
TwoThreads == {t1, t2}
TwoNames == {a, b}
OneName == {a}
================================================================================
