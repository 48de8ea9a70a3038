----------------------------- MODULE MCTerminalRelay -----------------------------
(******************************************************************************)
(* Small instances of the login's terminal relay for TLC.                     *)
(******************************************************************************)
EXTENDS TerminalRelay

AnyInput == {"terminal", "at end", "missing"}
OpenOutput == {"open"}
================================================================================
