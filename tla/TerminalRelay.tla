------------------------------ MODULE TerminalRelay ------------------------------
(******************************************************************************)
(* One OpenID Connect login, GET_OIDC.  A child of the mount, which becomes   *)
(* the rucio client, runs on a pseudo-terminal; the parent copies what it     *)
(* prints to the standard output of the process that made the file system     *)
(* call, and what that process reads from its standard input to the child.    *)
(* When the copying ends it waits for the child, and then reads the token.    *)
(*                                                                            *)
(* The child's end of the terminal is open in the parent too until the child  *)
(* is made: other processes that the mount starts meanwhile inherit it, and   *)
(* the terminal hangs up only when all of them have ended.                    *)
(*                                                                            *)
(* Output is counted in pieces.                                               *)
(******************************************************************************)
EXTENDS Naturals

CONSTANTS
  Stdins,     \* what the caller's standard input may be
  Stdouts,    \* what its standard output may be
  Others,     \* other threads of the mount that start processes
  PtyBuffer,  \* pieces the pseudo-terminal holds: the client blocks when it is full
  MaxOutput,  \* bound: pieces the client prints
  MaxTyped    \* bound: lines the user types

Assumption ==
  /\ Stdins \subseteq {"terminal", "at end", "missing"}
  /\ Stdouts \subseteq {"open", "missing"}
  /\ PtyBuffer \in Nat \ {0} /\ MaxOutput \in Nat /\ MaxTyped \in Nat

VARIABLES
  calling_stdin, calling_stdout,
  typed,     \* lines typed and not yet read by the parent
  lines,     \* lines typed so far
  client,    \* the child: "none", "running", "asking" for a line, "exited" or "failed"
  answers,   \* lines the client has been given and has not read
  written,   \* pieces the client has printed
  pending,   \* those still in the pseudo-terminal
  relayed,   \* pieces handed to the one write to the caller, whose result the code ignores
  holders,   \* other processes that have the child's end of the terminal open
  parent,    \* "openpty", "fork", "open", "relay", "waitpid", "token" or "done"
  result     \* "none", "token" or "empty": what GET_OIDC returned

caller == <<calling_stdin, calling_stdout>>
output == <<written, pending, relayed>>
input == <<typed, lines, answers>>
vars == <<caller, input, client, output, holders, parent, result>>

Init ==
  /\ calling_stdin \in Stdins /\ calling_stdout \in Stdouts
  /\ typed = 0 /\ lines = 0 /\ answers = 0
  /\ client = "none"
  /\ written = 0 /\ pending = 0 /\ relayed = 0
  /\ holders = {}
  /\ parent = "openpty"
  /\ result = "none"

Over == client \in {"exited", "failed"}

--------------------------------------------------------------------------------
(* The terminal and the child *)

Fail == parent' = "done" /\ result' = "empty"

OpenPty ==
  /\ parent = "openpty"
  /\ \/ parent' = "fork" /\ UNCHANGED result
     \/ Fail
  /\ UNCHANGED <<caller, input, client, output, holders>>

\* The parent closes the child's end of the terminal.
Fork ==
  /\ parent = "fork"
  /\ client' = "running"
  /\ parent' = "open"
  /\ UNCHANGED <<caller, input, output, holders, result>>

ForkFails ==
  /\ parent = "fork"
  /\ Fail
  /\ UNCHANGED <<caller, input, client, output, holders>>

\* Mutant: what is inherited is never closed.
HeldForEver(o) == holders

\* Who holds the terminal when another process has ended.
HeldAfter(o) == holders \ {o}

OtherStarts(o) ==
  /\ holders' = IF parent = "fork" THEN holders \cup {o} ELSE holders
  /\ UNCHANGED <<caller, input, client, output, parent, result>>

OtherEnds(o) ==
  /\ holders' = HeldAfter(o)
  /\ UNCHANGED <<caller, input, client, output, parent, result>>

--------------------------------------------------------------------------------
(* The client, and the user *)

Prints ==
  /\ client = "running"
  /\ written < MaxOutput
  /\ pending < PtyBuffer
  /\ written' = written + 1
  /\ pending' = pending + 1
  /\ UNCHANGED <<caller, input, relayed, client, holders, parent, result>>

\* The client waits for a line only where it can be given one.
Asks ==
  /\ client = "running"
  /\ calling_stdin = "terminal" /\ calling_stdout = "open" /\ lines < MaxTyped
  /\ client' = "asking"
  /\ UNCHANGED <<caller, input, output, holders, parent, result>>

Reads ==
  /\ client = "asking"
  /\ answers > 0
  /\ answers' = answers - 1
  /\ client' = "running"
  /\ UNCHANGED <<caller, typed, lines, output, holders, parent, result>>

Exits ==
  /\ client = "running"
  /\ client' \in {"exited", "failed"}
  /\ UNCHANGED <<caller, input, output, holders, parent, result>>

Types ==
  /\ calling_stdin = "terminal"
  /\ client = "asking" /\ typed = 0 /\ answers = 0
  /\ typed' = 1
  /\ lines' = lines + 1
  /\ UNCHANGED <<caller, answers, client, output, holders, parent, result>>

--------------------------------------------------------------------------------
(* The parent: relay_pty_bidirectional *)

OpenCallersFiles ==
  /\ parent = "open"
  /\ parent' = IF calling_stdout = "missing" THEN "waitpid" ELSE "relay"
  /\ UNCHANGED <<caller, input, client, output, holders, result>>

\* What one read of the pseudo-terminal gives to the one write.
Copied == pending

\* Mutant: the end of the client is noticed before its last output is read.
HungUpEarly == Over

\* Reading fails once the client and the others are gone and the output has been read.
HungUp == Over /\ holders = {} /\ pending = 0

InputAtEnd == calling_stdin = "at end"

\* One round of the loop: output first, then input.
Relay ==
  /\ parent = "relay"
  /\ pending > 0 \/ typed > 0 \/ HungUp \/ InputAtEnd
  /\ IF HungUp
       THEN UNCHANGED <<pending, relayed, typed, answers>>
       ELSE /\ relayed' = relayed + (IF pending = 0 THEN 0 ELSE Copied)
            /\ pending' = 0
            /\ answers' = answers + typed
            /\ typed' = 0
  /\ parent' = IF HungUp \/ InputAtEnd THEN "waitpid" ELSE "relay"
  /\ UNCHANGED <<caller, lines, client, written, holders, result>>

\* The parent still holds the terminal open while it waits, and reads no more of it.
WaitForClient ==
  /\ parent = "waitpid"
  /\ Over
  /\ \/ client = "failed" /\ Fail
     \/ client = "exited" /\ parent' = "token" /\ UNCHANGED result
  /\ UNCHANGED <<caller, input, client, output, holders>>

\* The file may be missing or empty.
ReadToken ==
  /\ parent = "token"
  /\ parent' = "done"
  /\ result' \in {"token", "empty"}
  /\ UNCHANGED <<caller, input, client, output, holders>>

\* The process of the mount ends, and with it the login; the next one may have another
\* caller.
Restart ==
  /\ calling_stdin' \in Stdins /\ calling_stdout' \in Stdouts
  /\ typed' = 0 /\ lines' = 0 /\ answers' = 0
  /\ client' = "none"
  /\ written' = 0 /\ pending' = 0 /\ relayed' = 0
  /\ holders' = {}
  /\ parent' = "openpty"
  /\ result' = "none"

--------------------------------------------------------------------------------
Client == Prints \/ Asks \/ Reads \/ Exits
Parent == OpenPty \/ Fork \/ ForkFails \/ OpenCallersFiles \/ Relay \/ WaitForClient \/ ReadToken
Other == \E o \in holders : OtherEnds(o)

Next ==
  \/ Client
  \/ Types
  \/ Parent
  \/ Other
  \/ \E o \in Others : OtherStarts(o)
  \/ Restart

\* The client, the parent and the others are processes that the system keeps running,
\* the others end, and the user answers when asked.
Fairness == WF_vars(Client) /\ WF_vars(Parent) /\ WF_vars(Other) /\ WF_vars(Types)

Spec == Init /\ [][Next]_vars /\ Fairness

--------------------------------------------------------------------------------
(* Properties *)

\* The pieces printed are in the terminal or have been relayed, at most once each,
\* and each process is in one of its steps.
TypeOK ==
  /\ calling_stdin \in Stdins /\ calling_stdout \in Stdouts
  /\ typed \in 0 .. MaxTyped /\ lines \in 0 .. MaxTyped /\ answers \in 0 .. MaxTyped
  /\ client \in {"none", "running", "asking", "exited", "failed"}
  /\ written \in 0 .. MaxOutput /\ pending \in 0 .. PtyBuffer
  /\ relayed + pending \in 0 .. written
  /\ holders \subseteq Others
  /\ parent \in {"openpty", "fork", "open", "relay", "waitpid", "token", "done"}
  /\ result \in {"none", "token", "empty"}

\* Relay PTY output to calling process: everything the client prints reaches the
\* process that made the call, unless the mount ends.
OutputReachesCaller ==
  \A n \in 1 .. MaxOutput : (written >= n) ~> (relayed >= n \/ parent = "openpty")

\* The parent stops copying only when the client has ended and all that it printed has been
\* relayed, unless the caller's input is at its end or its output cannot be opened.
AllRelayed ==
  calling_stdin # "at end" /\ calling_stdout = "open" /\ parent \in {"waitpid", "token", "done"} =>
    client \notin {"running", "asking"} /\ relayed = written

\* A login that has its child ends, unless the mount does, also when other processes
\* have inherited its terminal.
LoginEnds == (parent = "open") ~> (parent \in {"done", "openpty"})
================================================================================
