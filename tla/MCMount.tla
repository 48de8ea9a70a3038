--------------------------------- MODULE MCMount ---------------------------------
(******************************************************************************)
(* Two settings files and a small catalogue for TLC.  Names are short texts   *)
(* over few letters, so that servers, scopes and DiDs have the same names or  *)
(* begin with each other's.                                                   *)
(******************************************************************************)
EXTENDS Mount

CONSTANTS f1, f2

TwoFiles == {f1, f2}
SomeModes == {"userpass", "none"}

a == <<"a">>
b == <<"b">>
c == <<"c">>
ab == <<"a", "b">>
bb == <<"b", "b">>
dot == <<".", "a">>
HEAD == <<"HEAD">>

TheServers == {a, ab}
TheScopes == [s \in TheServers |-> {a, ab}]
Mac == {HEAD, <<"DCIM">>}

\* b is a file in scope a and a container in scope ab, and on each server that container
\* and the file bb of scope a run together to one text; two files have names that are left
\* out of the tree.
TheFiles ==
  {<<s, n>> : s \in {a, ab}, n \in {a, c}} \cup {<<a, b>>, <<a, bb>>, <<a, dot>>, <<ab, HEAD>>}

\* Containers of one scope within each other, and around; one of them also holds a file of
\* another scope.
TheContents ==
  [d \in {<<a, ab>>} \cup {<<ab, n>> : n \in {b, ab, bb}} |->
     CASE d = <<a, ab>> -> {<<a, n>> : n \in {a, b, c}}
       [] d = <<ab, b>> -> {<<ab, ab>>, <<ab, a>>, <<a, c>>}
       [] d = <<ab, ab>> -> {<<ab, n>> : n \in {a, c, bb}}
       [] d = <<ab, bb>> -> {<<ab, n>> : n \in {b, ab, c}}]
================================================================================
