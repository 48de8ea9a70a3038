------------------------------- MODULE MCTokenAuth -------------------------------
(******************************************************************************)
(* Small instances of the authentication for TLC: alice at a server that      *)
(* takes passwords, bob and carol at one that uses OpenID Connect.            *)
(******************************************************************************)
EXTENDS TokenAuth, TLC

CONSTANTS t1, t2, l1, l2, alice, bob, carol

OneThread == {t1}
TwoThreads == {t1, t2}
NoLogins == {}
TwoLogins == {l1, l2}
OnlyAlice == {alice}
Everyone == {alice, bob, carol}
Modes == [u \in Users |-> IF u = alice THEN "userpass" ELSE "oidc"]
\* A token that is good until the second is over.
ThisSecond == {0}
TwoLifetimes == {1, 2}
Nothing == {}
Either == {"token", "expires"}
\* The login threads are alike.
LoginSymmetry == Permutations(TwoLogins)
================================================================================
