---------------------------- MODULE MCClientSettings ----------------------------
(******************************************************************************)
(* A small instance of the clients' settings for TLC.  Server a and user b_c, *)
(* and server a_b and user c, have one copy.                                  *)
(******************************************************************************)
EXTENDS ClientSettings, TLC

CONSTANTS d1, d2, l1

a == <<"a">>
c == <<"c">>
a_b == <<"a", "_", "b">>
b_c == <<"b", "_", "c">>

ThreeServers == {a, a_b, c}
SomeCalls == {<<a, b_c>>, <<a_b, c>>, <<c, c>>}
Folders == a :> "tmp" @@ a_b :> "tmp" @@ c :> "home"
D == {d1, d2}
L == {l1}
================================================================================
