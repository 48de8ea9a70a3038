---------------------------- MODULE OidcLoginProofs ----------------------------
(******************************************************************************)
(* Proofs that a login among downloads implements both of its parts, so that  *)
(* what is proved of the clients' settings holds of the whole.                *)
(******************************************************************************)
EXTENDS OidcLogin, TLAPS

Proofs == INSTANCE ClientSettingsProofs WITH Logins <- {login}

\* Each step is one of a client, of the login or of the process, or leaves the files alone.
LEMMA SettingsStep == [Next]_vars => [Settings!Next]_(Settings!vars)
<1> SUFFICES ASSUME [Next]_vars  PROVE Settings!Next \/ UNCHANGED Settings!vars
  OBVIOUS
<1>1. ASSUME NEW d \in Downloads, Download(d)  PROVE Settings!Next \/ UNCHANGED Settings!vars
  BY <1>1 DEF Download, DownloadEnds, Settings!Next, Settings!Clients
<1>2. CASE Child
  <2>1. UNCHANGED settings => UNCHANGED Settings!vars
    BY DEF settings, Settings!vars, Settings!files
  <2>2. QED
    BY <1>2, <2>1 DEF Child, ChildCopies, ChildAborts, ChildTalks, ClientEnds, Settings!Next,
       Settings!Clients, Settings!Copies
<1>3. CASE Types
  BY <1>3 DEF Types, settings, Settings!vars, Settings!files
<1>4. CASE Parent
  <2>1. UNCHANGED settings => UNCHANGED Settings!vars
    BY DEF settings, Settings!vars, Settings!files
  <2>2. QED
    BY <1>4, <2>1 DEF Parent, Fork, Relays, ReadToken, NoJsonWebToken, Settings!Next,
       Settings!Clients, Settings!Copies
<1>5. CASE Restart
  BY <1>5 DEF Restart, Settings!Next
<1>6. CASE UNCHANGED vars
  BY <1>6 DEF vars, settings, Settings!vars, Settings!files
<1>7. QED  BY <1>1, <1>2, <1>3, <1>4, <1>5, <1>6 DEF Next

\* The login and the downloads use files and clients as ClientSettings says.
THEOREM ImplementsSettings == Spec => Settings!Spec
<1>1. Init => Settings!Init
  BY DEF Init
<1>2. QED  BY <1>1, SettingsStep, PTL DEF Spec, Settings!Spec

\* The two instances say the same.
LEMMA SameSpec == Settings!Spec <=> Proofs!Spec
<1>1. Settings!Init <=> Proofs!Init
  BY DEF Settings!Init, Proofs!Init, Settings!Clients, Proofs!Clients, Settings!Someone,
     Proofs!Someone, Settings!Nothing, Proofs!Nothing
<1>2. ASSUME NEW c  PROVE Settings!Begin(c) <=> Proofs!Begin(c)
  BY DEF Settings!Begin, Proofs!Begin, Settings!files, Proofs!files
<1>3. ASSUME NEW c  PROVE Settings!LookForCopy(c) <=> Proofs!LookForCopy(c)
  BY DEF Settings!LookForCopy, Proofs!LookForCopy, Settings!CopyExists, Proofs!CopyExists,
     Settings!Copy, Proofs!Copy, Settings!destination, Proofs!destination, Settings!Goto,
     Proofs!Goto, Settings!files, Proofs!files
<1>4. ASSUME NEW c  PROVE Settings!CreateCopy(c) <=> Proofs!CreateCopy(c)
  BY DEF Settings!CreateCopy, Proofs!CreateCopy, Settings!Written, Proofs!Written,
     Settings!Copy, Proofs!Copy, Settings!destination, Proofs!destination, Settings!Goto,
     Proofs!Goto
<1>5. ASSUME NEW c  PROVE Settings!FillCopy(c) <=> Proofs!FillCopy(c)
  BY DEF Settings!FillCopy, Proofs!FillCopy, Settings!Kept, Proofs!Kept, Settings!Source,
     Proofs!Source, Settings!Copy, Proofs!Copy, Settings!destination, Proofs!destination,
     Settings!Goto, Proofs!Goto
<1>6. ASSUME NEW c  PROVE Settings!AppendTokenPath(c) <=> Proofs!AppendTokenPath(c)
  BY DEF Settings!AppendTokenPath, Proofs!AppendTokenPath, Settings!Copy, Proofs!Copy,
     Settings!destination, Proofs!destination, Settings!token_path, Proofs!token_path,
     Settings!Goto, Proofs!Goto
<1>7. ASSUME NEW c  PROVE Settings!CopyFails(c) <=> Proofs!CopyFails(c)
  BY DEF Settings!CopyFails, Proofs!CopyFails, Settings!Copy, Proofs!Copy, Settings!destination,
     Proofs!destination, Settings!Rest, Proofs!Rest, Settings!Someone, Proofs!Someone,
     Settings!Goto, Proofs!Goto, Settings!files, Proofs!files
<1>8. ASSUME NEW c  PROVE Settings!StartClient(c) <=> Proofs!StartClient(c)
  BY DEF Settings!StartClient, Proofs!StartClient, Settings!Goto, Proofs!Goto, Settings!files,
     Proofs!files
<1>9. ASSUME NEW c  PROVE Settings!ClientSucceeds(c) <=> Proofs!ClientSucceeds(c)
  BY DEF Settings!ClientSucceeds, Proofs!ClientSucceeds, Settings!Copy, Proofs!Copy,
     Settings!destination, Proofs!destination, Settings!Usable, Proofs!Usable,
     Settings!Malformed, Proofs!Malformed, Settings!Written, Proofs!Written, Settings!Goto,
     Proofs!Goto, Settings!Rest, Proofs!Rest, Settings!Someone, Proofs!Someone,
     Settings!Range, Proofs!Range
<1>10. ASSUME NEW c  PROVE Settings!ClientFails(c) <=> Proofs!ClientFails(c)
  BY DEF Settings!ClientFails, Proofs!ClientFails, Settings!Rest, Proofs!Rest, Settings!Someone,
     Proofs!Someone, Settings!files, Proofs!files
<1>11. ASSUME NEW c  PROVE Settings!ReadToken(c) <=> Proofs!ReadToken(c)
  BY DEF Settings!ReadToken, Proofs!ReadToken, Settings!TokenThere, Proofs!TokenThere,
     Settings!token_path, Proofs!token_path, Settings!Malformed, Proofs!Malformed,
     Settings!Goto, Proofs!Goto, Settings!files, Proofs!files
<1>12. ASSUME NEW c  PROVE Settings!Return(c) <=> Proofs!Return(c)
  BY DEF Settings!Return, Proofs!Return, Settings!Rest, Proofs!Rest, Settings!Someone,
     Proofs!Someone, Settings!Nothing, Proofs!Nothing, Settings!files, Proofs!files
<1>13. Settings!Restart <=> Proofs!Restart
  BY DEF Settings!Restart, Proofs!Restart, Settings!Clients, Proofs!Clients, Settings!Someone,
     Proofs!Someone, Settings!Nothing, Proofs!Nothing, Settings!Copying, Proofs!Copying,
     Settings!Copy, Proofs!Copy, Settings!destination, Proofs!destination
<1>14. ASSUME NEW c  PROVE Settings!NoJsonWebToken(c) <=> Proofs!NoJsonWebToken(c)
  BY <1>13 DEF Settings!NoJsonWebToken, Proofs!NoJsonWebToken, Settings!TokenThere,
     Proofs!TokenThere, Settings!token_path, Proofs!token_path, Settings!Malformed,
     Proofs!Malformed
<1>15. Settings!Next <=> Proofs!Next
  BY <1>2, <1>3, <1>4, <1>5, <1>6, <1>7, <1>8, <1>9, <1>10, <1>11, <1>12, <1>13, <1>14 DEF
     Settings!Next, Proofs!Next, Settings!Copies, Proofs!Copies, Settings!Clients,
     Proofs!Clients
<1>16. Settings!vars = Proofs!vars
  BY DEF Settings!vars, Proofs!vars, Settings!files, Proofs!files
<1>17. [Settings!Next]_(Settings!vars) <=> [Proofs!Next]_(Proofs!vars)
  BY <1>15 DEF Settings!vars, Proofs!vars, Settings!files, Proofs!files
<1>18. QED  BY <1>1, <1>17, PTL DEF Settings!Spec, Proofs!Spec

\* No copy that is at rest, and that no thread gave up on, lacks its settings or its token
\* path, also when a child of a login makes it.
THEOREM CompleteCopies == Spec => []CopiesAreComplete
<1>1. Proofs!Spec => []Proofs!CopiesAreComplete
  BY SettingsAssumption, Proofs!CompleteCopies DEF Settings!Assumption, Proofs!Assumption
<1>2. CopiesAreComplete <=> Proofs!CopiesAreComplete
  BY DEF CopiesAreComplete, Settings!CopiesAreComplete, Proofs!CopiesAreComplete, Settings!Copying, Proofs!Copying,
     Settings!Clients, Proofs!Clients, Settings!Copy, Proofs!Copy, Settings!destination,
     Proofs!destination, Settings!OwnCopy, Proofs!OwnCopy, Settings!Range, Proofs!Range
<1>3. QED  BY <1>1, <1>2, SameSpec, ImplementsSettings, PTL

\* The login returns a token of its user, of its server, where no other call shares its
\* paths, also when its child and downloads write the same files.
THEOREM OwnTokens == Spec => []OwnTokenReceived
<1>1. Proofs!Spec => []Proofs!OwnTokenReceived
  BY SettingsAssumption, Proofs!OwnTokens DEF Settings!Assumption, Proofs!Assumption
<1>2. OwnTokenReceived <=> Proofs!OwnTokenReceived
  BY DEF OwnTokenReceived, Settings!OwnTokenReceived, Proofs!OwnTokenReceived, Settings!OwnCopy,
     Proofs!OwnCopy, Settings!OwnTokenPath, Proofs!OwnTokenPath, Settings!Nothing,
     Proofs!Nothing
<1>3. QED  BY <1>1, <1>2, SameSpec, ImplementsSettings, PTL

--------------------------------------------------------------------------------
(* The terminal, and the types of the whole *)

\* Each step is one of the terminal, or leaves it alone; a download that ends without
\* holding the terminal changes nothing of it.
LEMMA TerminalStep == [Next]_vars => [Terminal!Next]_(Terminal!vars)
<1> SUFFICES ASSUME [Next]_vars  PROVE Terminal!Next \/ UNCHANGED Terminal!vars
  OBVIOUS
<1> USE DEF terminal, Terminal!vars, Terminal!caller, Terminal!output, Terminal!input
<1>1. ASSUME NEW d \in Downloads, Download(d)  PROVE Terminal!Next \/ UNCHANGED Terminal!vars
  <2>1. CASE UNCHANGED terminal
    BY <2>1
  <2>2. CASE Terminal!OtherStarts(d)
    BY <2>2 DEF Terminal!Next
  <2>3. CASE Terminal!OtherEnds(d) /\ d \in holders
    BY <2>3 DEF Terminal!Next, Terminal!Other
  <2>4. CASE Terminal!OtherEnds(d) /\ d \notin holders
    <3>1. holders' = holders \ {d}
      BY <2>4 DEF Terminal!OtherEnds, Terminal!HeldAfter
    <3>2. holders \ {d} = holders
      BY <2>4
    <3>3. QED  BY <2>4, <3>1, <3>2 DEF Terminal!OtherEnds
  <2>5. QED  BY <1>1, <2>1, <2>2, <2>3, <2>4 DEF Download, DownloadEnds
<1>2. CASE Child
  BY <1>2 DEF Child, ChildCopies, ChildAborts, ChildTalks, ClientEnds, Terminal!Next,
     Terminal!Client
<1>3. CASE Types
  BY <1>3 DEF Types, Terminal!Next
<1>4. CASE Parent
  BY <1>4 DEF Parent, Fork, Relays, ReadToken, NoJsonWebToken, Terminal!Next, Terminal!Parent
<1>5. CASE Restart
  BY <1>5 DEF Restart, Terminal!Next
<1>6. CASE UNCHANGED vars
  BY <1>6 DEF vars
<1>7. QED  BY <1>1, <1>2, <1>3, <1>4, <1>5, <1>6 DEF Next

\* On the terminal the login does what TerminalRelay allows, whatever the files make of it.
THEOREM ImplementsTerminal == Spec => Terminal!Init /\ [][Terminal!Next]_(Terminal!vars)
<1>1. Init => Terminal!Init
  BY DEF Init
<1>2. QED  BY <1>1, TerminalStep, PTL DEF Spec

\* At most one line is under way, to a client that waits for it.
TerminalInv ==
  /\ Terminal!TypeOK
  /\ relayed \in Nat
  /\ typed + answers <= 1
  /\ client # "asking" => typed = 0 /\ answers = 0
  /\ client = "asking" /\ typed + answers = 0 => lines < MaxTyped
  /\ parent \in {"openpty", "fork"} => client = "none"

\* A step that leaves lines, pieces and files alone and keeps to the steps of the
\* parent and the client.
LEMMA TerminalQuiet ==
  ASSUME TerminalInv,
         UNCHANGED <<calling_stdin, calling_stdout, typed, lines, answers, written, pending, relayed>>,
         client' \in {"none", "running", "exited", "failed"} \/ client' = client,
         client' # "asking" => client # "asking",
         holders' \subseteq Downloads,
         parent' \in {"openpty", "fork", "open", "relay", "waitpid", "token", "done"},
         parent' \in {"openpty", "fork"} => client' = "none",
         result' \in {"none", "token", "empty"}
  PROVE  TerminalInv'
BY DEF TerminalInv, Terminal!TypeOK

\* The terminal keeps its types.
LEMMA TerminalKeeps ==
  ASSUME TerminalInv, [Terminal!Next]_(Terminal!vars)  PROVE TerminalInv'
<1>1. /\ MaxTyped \in Nat /\ MaxOutput \in Nat /\ PtyBuffer \in Nat
      /\ calling_stdin \in Stdins /\ calling_stdout \in Stdouts
      /\ typed \in 0 .. MaxTyped /\ answers \in 0 .. MaxTyped /\ lines \in 0 .. MaxTyped
      /\ written \in 0 .. MaxOutput /\ pending \in 0 .. PtyBuffer
      /\ relayed \in Nat /\ relayed + pending \in 0 .. written
      /\ typed + answers <= 1
      /\ client # "asking" => typed = 0 /\ answers = 0
      /\ client \in {"none", "running", "asking", "exited", "failed"}
      /\ holders \subseteq Downloads
      /\ parent \in {"openpty", "fork", "open", "relay", "waitpid", "token", "done"}
      /\ parent \in {"openpty", "fork"} => client = "none"
      /\ result \in {"none", "token", "empty"}
  <2>1. MaxTyped \in Nat /\ MaxOutput \in Nat /\ PtyBuffer \in Nat
    BY TerminalAssumption DEF Terminal!Assumption
  <2>2. QED  BY <2>1 DEF TerminalInv, Terminal!TypeOK
<1>2. CASE Terminal!OpenPty \/ Terminal!ForkFails \/ Terminal!OpenCallersFiles
  BY <1>1, <1>2, TerminalQuiet DEF Terminal!OpenPty, Terminal!ForkFails,
     Terminal!OpenCallersFiles, Terminal!Fail, Terminal!caller, Terminal!output, Terminal!input
<1>3. CASE Terminal!Fork
  <2>1. parent = "fork" /\ client' = "running" /\ parent' = "open"
        /\ UNCHANGED <<calling_stdin, calling_stdout, typed, lines, answers, written,
                       pending, relayed, holders, result>>
    BY <1>3 DEF Terminal!Fork, Terminal!caller, Terminal!output, Terminal!input
  <2>2. QED  BY <1>1, <2>1 DEF TerminalInv, Terminal!TypeOK
<1>4. CASE Terminal!Relay
  <2>1. UNCHANGED <<calling_stdin, calling_stdout, lines, client, written, holders, result>>
        /\ parent' \in {"waitpid", "relay"}
    BY <1>4 DEF Terminal!Relay, Terminal!caller
  <2>2. CASE UNCHANGED <<pending, relayed, typed, answers>>
    BY <1>1, <2>1, <2>2, TerminalQuiet
  <2>3. CASE /\ relayed' = relayed + (IF pending = 0 THEN 0 ELSE pending) /\ pending' = 0
             /\ answers' = answers + typed /\ typed' = 0
    <3>1. relayed' \in Nat /\ pending' \in 0 .. PtyBuffer /\ relayed' + pending' \in 0 .. written
      BY <1>1, <2>3
    <3>2. /\ answers' \in 0 .. MaxTyped /\ typed' \in 0 .. MaxTyped
          /\ typed' + answers' = typed + answers
      BY <1>1, <2>3
    <3>3. client # "asking" => typed' = 0 /\ answers' = 0
      BY <1>1, <2>3
    <3>4. QED  BY <1>1, <2>1, <3>1, <3>2, <3>3 DEF TerminalInv, Terminal!TypeOK
  <2>4. QED  BY <1>4, <2>2, <2>3 DEF Terminal!Relay, Terminal!Copied
<1>5. CASE Terminal!WaitForClient \/ Terminal!ReadToken
  BY <1>1, <1>5, TerminalQuiet DEF Terminal!WaitForClient, Terminal!ReadToken, Terminal!Fail,
     Terminal!caller, Terminal!output, Terminal!input
<1>6. CASE Terminal!Prints
  <2>1. /\ client = "running" /\ written < MaxOutput /\ pending < PtyBuffer
        /\ written' = written + 1 /\ pending' = pending + 1
        /\ UNCHANGED <<calling_stdin, calling_stdout, typed, lines, answers, relayed, client,
                       holders, parent, result>>
    BY <1>6 DEF Terminal!Prints, Terminal!caller, Terminal!input
  <2>2. QED  BY <1>1, <2>1 DEF TerminalInv, Terminal!TypeOK
<1>7. CASE Terminal!Asks
  <2>1. /\ client = "running" /\ lines < MaxTyped /\ client' = "asking"
        /\ UNCHANGED <<calling_stdin, calling_stdout, typed, lines, answers, written,
                       pending, relayed, holders, parent, result>>
    BY <1>7 DEF Terminal!Asks, Terminal!caller, Terminal!output, Terminal!input
  <2>2. QED  BY <1>1, <2>1 DEF TerminalInv, Terminal!TypeOK
<1>8. CASE Terminal!Reads
  <2>1. /\ client = "asking" /\ answers > 0 /\ answers' = answers - 1 /\ client' = "running"
        /\ UNCHANGED <<calling_stdin, calling_stdout, typed, lines, written, pending,
                       relayed, holders, parent, result>>
    BY <1>8 DEF Terminal!Reads, Terminal!caller, Terminal!output
  <2>2. typed' = 0 /\ answers' = 0
    BY <1>1, <2>1
  <2>3. QED  BY <1>1, <2>1, <2>2 DEF TerminalInv, Terminal!TypeOK
<1>9. CASE Terminal!Exits
  BY <1>1, <1>9, TerminalQuiet DEF Terminal!Exits, Terminal!caller, Terminal!output,
     Terminal!input
<1>10. CASE Terminal!Types
  <2>1. /\ client = "asking" /\ typed = 0 /\ answers = 0 /\ typed' = 1 /\ lines' = lines + 1
        /\ UNCHANGED <<calling_stdin, calling_stdout, answers, client, written, pending,
                       relayed, holders, parent, result>>
    BY <1>10 DEF Terminal!Types, Terminal!caller, Terminal!output
  <2>2. lines < MaxTyped
    BY <2>1 DEF TerminalInv
  <2>3. QED  BY <1>1, <2>1, <2>2 DEF TerminalInv, Terminal!TypeOK
<1>11. CASE Terminal!Other \/ \E o \in Downloads : Terminal!OtherStarts(o)
  BY <1>1, <1>11, TerminalQuiet DEF Terminal!Other, Terminal!OtherEnds, Terminal!OtherStarts,
     Terminal!HeldAfter, Terminal!caller, Terminal!output, Terminal!input
<1>12. CASE Terminal!Restart
  BY <1>1, <1>12 DEF Terminal!Restart, TerminalInv, Terminal!TypeOK
<1>13. CASE UNCHANGED Terminal!vars
  BY <1>1, <1>13, TerminalQuiet DEF Terminal!vars, Terminal!caller, Terminal!output,
     Terminal!input
<1>14. QED
  BY <1>2, <1>3, <1>4, <1>5, <1>6, <1>7, <1>8, <1>9, <1>10, <1>11, <1>12, <1>13 DEF
     Terminal!Next, Terminal!Client, Terminal!Parent

\* What the parent and the child are doing fits what the login does with its files.
LoginInv ==
  /\ pc[login] \in {"look", "create", "fill", "append", "start", "client"} <=>
       client \in {"running", "asking"}
  /\ client = "asking" => pc[login] = "client"
  /\ pc[login] \notin {"start without", "client without"}
  /\ parent = "token" => client = "exited"
  /\ client = "exited" /\ parent # "done" => pc[login] = "token"
  /\ result = "token" => received[login] # Settings!Nothing

\* The steps of downloads are not the login's.
LEMMA DownloadKeeps ==
  ASSUME Settings!TypeOK, LoginInv, NEW d \in Downloads, Download(d)
  PROVE  LoginInv'
<1>1. d # login
  BY SettingsAssumption DEF Settings!Assumption
<1>2. pc'[login] = pc[login] /\ received' = received
  BY <1>1 DEF Download, DownloadEnds, Settings!Copies, Settings!Begin, Settings!LookForCopy,
     Settings!CreateCopy, Settings!FillCopy, Settings!AppendTokenPath, Settings!CopyFails,
     Settings!StartClient, Settings!ClientSucceeds, Settings!ClientFails, Settings!Goto,
     Settings!Rest, Settings!TypeOK, Settings!Clients
<1>3. UNCHANGED <<client, parent, result>>
  BY DEF Download, DownloadEnds, Terminal!OtherStarts, Terminal!OtherEnds, terminal
<1>4. QED  BY <1>2, <1>3 DEF LoginInv

\* The child goes on with its copy or its client, or ends, with the one or the other.
LEMMA ChildKeeps ==
  ASSUME Settings!TypeOK, LoginInv, Child
  PROVE  LoginInv'
<1> USE DEF LoginInv, Settings!TypeOK, Settings!Clients
<1>1. CASE ChildCopies
  BY <1>1 DEF ChildCopies, Settings!LookForCopy, Settings!CreateCopy, Settings!FillCopy,
     Settings!AppendTokenPath, Settings!StartClient, Settings!Goto, terminal
<1>2. CASE ChildAborts
  BY <1>2 DEF ChildAborts, Settings!CopyFails, Settings!Rest, Terminal!Exits
<1>3. CASE ChildTalks
  BY <1>3 DEF ChildTalks, Terminal!Prints, Terminal!Asks, Terminal!Reads, settings
<1>4. CASE ClientEnds
  BY <1>4 DEF ClientEnds, Settings!ClientSucceeds, Settings!ClientFails, Settings!Goto,
     Settings!Rest, Terminal!Exits
<1>5. QED  BY <1>1, <1>2, <1>3, <1>4 DEF Child

\* The parent forks a child that begins with its copy, and reads a token only after it.
LEMMA ParentKeeps ==
  ASSUME Settings!TypeOK, LoginInv, Parent
  PROVE  LoginInv'
<1> USE DEF LoginInv, Settings!TypeOK, Settings!Clients
<1>1. CASE Fork
  BY <1>1 DEF Fork, Settings!Begin, Terminal!Fork
<1>2. CASE Relays
  BY <1>2 DEF Relays, settings, Terminal!OpenPty, Terminal!ForkFails,
     Terminal!OpenCallersFiles, Terminal!Relay, Terminal!WaitForClient, Terminal!Fail
<1>3. CASE ReadToken
  BY <1>3 DEF ReadToken, Settings!ReadToken, Settings!Goto, Terminal!ReadToken
<1>4. CASE NoJsonWebToken
  BY <1>4 DEF NoJsonWebToken, Settings!NoJsonWebToken, Settings!Restart, Terminal!Restart
<1>5. QED  BY <1>1, <1>2, <1>3, <1>4 DEF Parent

\* Every step keeps the invariant of the login.
LEMMA LoginKeeps ==
  ASSUME Settings!TypeOK, LoginInv, [Next]_vars
  PROVE  LoginInv'
<1>1. ASSUME NEW d \in Downloads, Download(d)  PROVE LoginInv'
  BY <1>1, DownloadKeeps
<1>2. CASE Types
  BY <1>2 DEF Types, Terminal!Types, settings, LoginInv
<1>3. CASE Restart
  BY <1>3 DEF Restart, Settings!Restart, Terminal!Restart, LoginInv, Settings!Clients
<1>4. CASE UNCHANGED vars
  BY <1>4 DEF vars, settings, terminal, LoginInv
<1>5. QED  BY <1>1, <1>2, <1>3, <1>4, ChildKeeps, ParentKeeps DEF Next

\* Files, terminal and threads keep their types, and the two parts of the login agree
\* on what its child is doing and on whether it has returned a token.
THEOREM TypeCorrect == Spec => []TypeOK
<1>1. Proofs!Spec => []Proofs!TypeOK
  BY SettingsAssumption, Proofs!TypeCorrect DEF Settings!Assumption, Proofs!Assumption
<1>2. Settings!TypeOK <=> Proofs!TypeOK
  BY DEF Settings!TypeOK, Proofs!TypeOK, Settings!CopyTypes, Proofs!CopyTypes,
     Settings!Editions, Proofs!Editions, Settings!Clients, Proofs!Clients, Settings!Steps,
     Proofs!Steps, Settings!token_path, Proofs!token_path, Settings!Copy, Proofs!Copy,
     Settings!destination, Proofs!destination
<1>3. Init => TerminalInv /\ LoginInv
  <2>1. PtyBuffer \in Nat /\ MaxOutput \in Nat /\ MaxTyped \in Nat
    BY TerminalAssumption DEF Terminal!Assumption
  <2>2. Init => TerminalInv
    BY <2>1 DEF Init, Terminal!Init, TerminalInv, Terminal!TypeOK
  <2>3. Init => LoginInv
    BY DEF Init, Terminal!Init, Settings!Init, LoginInv, Settings!Clients
  <2>4. QED  BY <2>2, <2>3
<1>4. TerminalInv /\ [Next]_vars => TerminalInv'
  BY TerminalStep, TerminalKeeps
<1>5. Settings!TypeOK /\ LoginInv /\ [Next]_vars => LoginInv'
  BY LoginKeeps
<1>6. Settings!TypeOK /\ TerminalInv /\ LoginInv => TypeOK
  BY DEF TypeOK, TerminalInv, LoginInv
<1>7. QED
  BY <1>1, <1>2, <1>3, <1>4, <1>5, <1>6, SameSpec, ImplementsSettings, PTL DEF Spec

--------------------------------------------------------------------------------
(* The output of the client *)

\* What is copied to the end: the terminal of a caller that can be written to, and whose
\* input does not end.
CopiedToTheEnd == calling_stdin # "at end" /\ calling_stdout = "open"

\* No piece is lost: what is not relayed is in the terminal.  While there is no client there
\* is no output; when the copying has ended, the client has, and left none in the terminal.
RelayInv ==
  /\ pending \in Nat /\ relayed \in Nat /\ written \in Nat
  /\ written = relayed + pending
  /\ client = "none" => written = 0
  /\ parent \in {"openpty", "fork"} => client = "none"
  /\ CopiedToTheEnd /\ parent \in {"waitpid", "token", "done"} =>
       client \notin {"running", "asking"} /\ pending = 0

\* A step that prints nothing and copies nothing keeps the output, if a client that has
\* ended stays so and the parent goes on copying or has no more to copy.
LEMMA OutputStays ==
  ASSUME RelayInv, UNCHANGED <<calling_stdin, calling_stdout, written, pending, relayed>>,
         client' = "none" => client = "none",
         parent' \in {"openpty", "fork"} => client' = "none",
         CopiedToTheEnd /\ parent' \in {"waitpid", "token", "done"} =>
           client' \notin {"running", "asking"} /\ pending = 0
  PROVE  RelayInv'
BY DEF RelayInv, CopiedToTheEnd

\* Without a client nothing is pending.
LEMMA NoClient == RelayInv /\ client = "none" => pending = 0
BY DEF RelayInv

\* The steps of the parent: it gives up before there is a client, or copies until the
\* terminal hangs up.
LEMMA ParentRelays ==
  ASSUME RelayInv, Terminal!Parent
  PROVE  RelayInv'
<1> USE DEF Terminal!caller, Terminal!output, Terminal!input
<1>1. CASE Terminal!OpenPty \/ Terminal!Fork \/ Terminal!ForkFails
  <2>1. /\ parent \in {"openpty", "fork"}
        /\ parent' = "open" \/ (parent' \in {"fork", "done"} /\ client' = client)
        /\ UNCHANGED <<calling_stdin, calling_stdout, written, pending, relayed>>
    BY <1>1 DEF Terminal!OpenPty, Terminal!Fork, Terminal!ForkFails, Terminal!Fail
  <2>2. client = "none"
    BY <2>1 DEF RelayInv
  <2>3. QED  BY <2>1, <2>2, NoClient, OutputStays
<1>2. CASE Terminal!OpenCallersFiles
  <2>1. /\ UNCHANGED <<calling_stdin, calling_stdout, written, pending, relayed, client>>
        /\ parent' = IF calling_stdout = "missing" THEN "waitpid" ELSE "relay"
    BY <1>2 DEF Terminal!OpenCallersFiles
  <2>2. QED  BY <2>1, OutputStays DEF CopiedToTheEnd
<1>3. CASE Terminal!Relay /\ Terminal!HungUp
  <2>1. /\ UNCHANGED <<calling_stdin, calling_stdout, written, pending, relayed, client>>
        /\ parent' = "waitpid" /\ pending = 0 /\ client \in {"exited", "failed"}
    BY <1>3 DEF Terminal!Relay, Terminal!HungUp, Terminal!Over
  <2>2. QED  BY <2>1, OutputStays
<1>4. CASE Terminal!Relay /\ ~ Terminal!HungUp
  <2>1. /\ UNCHANGED <<calling_stdin, calling_stdout, client, written>>
        /\ parent' \in {"relay", "waitpid"}
        /\ CopiedToTheEnd => parent' = "relay"
        /\ pending' = 0
        /\ relayed' = relayed + (IF pending = 0 THEN 0 ELSE pending)
    BY <1>4 DEF Terminal!Relay, Terminal!InputAtEnd, Terminal!Copied, CopiedToTheEnd
  <2>2. relayed' \in Nat /\ pending' \in Nat /\ written' = relayed' + pending'
    BY <2>1 DEF RelayInv
  <2>3. QED  BY <2>1, <2>2 DEF RelayInv, CopiedToTheEnd
<1>5. CASE Terminal!WaitForClient \/ Terminal!ReadToken
  <2>1. /\ UNCHANGED <<calling_stdin, calling_stdout, written, pending, relayed, client>>
        /\ parent \in {"waitpid", "token"} /\ parent' \in {"token", "done"}
    BY <1>5 DEF Terminal!WaitForClient, Terminal!ReadToken, Terminal!Fail
  <2>2. CopiedToTheEnd => client \notin {"running", "asking"} /\ pending = 0
    BY <2>1 DEF RelayInv
  <2>3. QED  BY <2>1, <2>2, OutputStays
<1>6. QED  BY <1>1, <1>2, <1>3, <1>4, <1>5 DEF Terminal!Parent

\* Every step of the terminal keeps the output.
LEMMA OutputKept ==
  ASSUME RelayInv, [Terminal!Next]_(Terminal!vars)
  PROVE  RelayInv'
<1> USE DEF Terminal!caller, Terminal!output, Terminal!input
<1>1. CASE Terminal!Prints
  <2>1. /\ client = "running" /\ client' = client
        /\ written' = written + 1 /\ pending' = pending + 1
        /\ UNCHANGED <<calling_stdin, calling_stdout, relayed, parent>>
    BY <1>1 DEF Terminal!Prints
  <2>2. pending' \in Nat /\ relayed' \in Nat /\ written' \in Nat /\ written' = relayed' + pending'
    BY <2>1 DEF RelayInv
  <2>3. parent \notin {"openpty", "fork"}
    BY <2>1 DEF RelayInv
  <2>4. ~ (CopiedToTheEnd /\ parent \in {"waitpid", "token", "done"})
    BY <2>1 DEF RelayInv
  <2>5. CopiedToTheEnd' <=> CopiedToTheEnd
    BY <2>1 DEF CopiedToTheEnd
  <2>6. QED  BY <2>1, <2>2, <2>3, <2>4, <2>5 DEF RelayInv
<1>2. ASSUME UNCHANGED <<calling_stdin, calling_stdout, written, pending, relayed, parent>>,
             client' = "none" => client = "none",
             parent \in {"openpty", "fork"} => client' = client,
             client' \in {"running", "asking"} => client \in {"running", "asking"}
      PROVE  RelayInv'
  BY <1>2 DEF RelayInv, CopiedToTheEnd
<1>3. CASE Terminal!Asks \/ Terminal!Reads \/ Terminal!Exits
  <2>1. /\ UNCHANGED <<calling_stdin, calling_stdout, written, pending, relayed, parent>>
        /\ client \in {"running", "asking"} /\ client' # "none"
    BY <1>3 DEF Terminal!Asks, Terminal!Reads, Terminal!Exits
  <2>2. parent \notin {"openpty", "fork"}
    BY <2>1 DEF RelayInv
  <2>3. QED  BY <1>2, <2>1, <2>2
<1>4. CASE Terminal!Types \/ Terminal!Other \/ \E o \in Downloads : Terminal!OtherStarts(o)
  BY <1>2, <1>4 DEF Terminal!Types, Terminal!Other, Terminal!OtherEnds,
     Terminal!OtherStarts
<1>5. CASE Terminal!Restart
  BY <1>5 DEF Terminal!Restart, RelayInv
<1>6. CASE UNCHANGED Terminal!vars
  BY <1>2, <1>6 DEF Terminal!vars
<1>7. QED
  BY <1>1, <1>3, <1>4, <1>5, <1>6, ParentRelays DEF Terminal!Next, Terminal!Client

\* When the parent stops copying, the client has ended and all that it printed has been
\* relayed, for any output, any buffer and any number of processes that hold the terminal.
THEOREM NothingLeftBehind == Spec => []AllRelayed
<1>1. Init => RelayInv
  BY DEF Init, Terminal!Init, RelayInv, CopiedToTheEnd
<1>2. RelayInv /\ [Next]_vars => RelayInv'
  BY TerminalStep, OutputKept
<1>3. RelayInv => AllRelayed
  <2>1. RelayInv /\ pending = 0 => relayed = written
    BY DEF RelayInv
  <2>2. RelayInv /\ CopiedToTheEnd /\ parent \in {"waitpid", "token", "done"} =>
          client \notin {"running", "asking"} /\ pending = 0
    BY DEF RelayInv
  <2>3. QED  BY <2>1, <2>2 DEF CopiedToTheEnd, AllRelayed, Terminal!AllRelayed
<1>4. QED  BY <1>1, <1>2, <1>3, PTL DEF Spec
================================================================================
