------------------------------- MODULE MCOidcLogin -------------------------------
(******************************************************************************)
(* A small instance of a login among downloads for TLC: one download thread,  *)
(* one server, two users, and a caller that has a terminal.                   *)
(******************************************************************************)
EXTENDS OidcLogin, TLC

CONSTANTS d1

a == <<"a">>
c == <<"c">>
b_c == <<"b", "_", "c">>

OneServer == {a}
TwoUsers == {<<a, b_c>>, <<a, c>>}
Folders == a :> "tmp"
D == {d1}
Terminals == {"terminal"}
OpenOutput == {"open"}
================================================================================
