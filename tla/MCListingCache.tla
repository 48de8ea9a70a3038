----------------------------- MODULE MCListingCache -----------------------------
(******************************************************************************)
(* Small instances of the metadata caches for TLC.  A name is a sequence of   *)
(* letters; the name c is a file in scope a and a container in scope b, where *)
(* the container holds the file and a data set of scope a.                    *)
(******************************************************************************)
EXTENDS ListingCache, TLC

CONSTANTS t1, t2, unset

TwoThreads == {t1, t2}
Symmetric == Permutations(TwoThreads)

A == <<"a">>
B == <<"b">>
File == [scope |-> A, name |-> <<"c">>]
Set == [scope |-> A, name |-> <<"d">>]
Container == [scope |-> B, name |-> <<"c">>]

ThreeDids == {File, Set, Container}
ThreeTypes == [d \in ThreeDids |->
  CASE d = File -> "FILE" [] d = Set -> "DATASET" [] d = Container -> "CONTAINER"]

\* The file has just the size that an int holds.
ThreeSizes == [d \in ThreeDids |-> IF d = File THEN 3 ELSE 0]

\* What is listed is the container.
ContainerDir == [level |-> "container", scope |-> B, name |-> <<"c">>]
OneDir == {ContainerDir}
OneContent == [d \in OneDir |-> {File, Set}]
Unset == {unset}
================================================================================
