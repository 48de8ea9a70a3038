-------------------------------- MODULE OidcLogin --------------------------------
(******************************************************************************)
(* A login by OpenID Connect among downloads: the child that TerminalRelay    *)
(* starts is one of the clients of ClientSettings.  It makes its copy of the  *)
(* settings on the pseudo-terminal, before it becomes the rucio client;       *)
(* downloads run clients meanwhile, on the same copies, and these inherit     *)
(* what the mount has open.  The token that the login returns is in a file.   *)
(******************************************************************************)
EXTENDS Naturals, Sequences

CONSTANTS
  login,                                                       \* the thread of the login
  Servers, Calls, Downloads, temp_config_folder, MaxEdition,   \* ClientSettings
  Stdins, Stdouts, PtyBuffer, MaxOutput, MaxTyped              \* TerminalRelay

VARIABLES
  settings_file, copies, token_files, pc, call, received, spoilt,
  calling_stdin, calling_stdout, typed, lines, client, answers, written, pending,
  relayed, holders, parent, result

Settings == INSTANCE ClientSettings WITH Logins <- {login}
Terminal == INSTANCE TerminalRelay WITH Others <- Downloads

ASSUME SettingsAssumption == Settings!Assumption
ASSUME TerminalAssumption == Terminal!Assumption

settings == <<settings_file, copies, token_files, pc, call, received, spoilt>>
terminal == <<calling_stdin, calling_stdout, typed, lines, client, answers, written,
              pending, relayed, holders, parent, result>>
vars == <<settings, terminal>>

Init == Settings!Init /\ Terminal!Init

--------------------------------------------------------------------------------
(* Downloads *)

DownloadEnds(d) ==
  /\ Settings!ClientSucceeds(d) \/ Settings!ClientFails(d)
  /\ Terminal!OtherEnds(d)

Download(d) ==
  \/ Settings!Copies(d) /\ UNCHANGED terminal
  \/ Settings!StartClient(d) /\ Terminal!OtherStarts(d)
  \/ DownloadEnds(d)

--------------------------------------------------------------------------------
(* The child of the login *)

Fork == Terminal!Fork /\ Settings!Begin(login)

\* Before it becomes the client.
ChildCopies ==
  /\ client = "running"
  /\ \/ Settings!LookForCopy(login)
     \/ Settings!CreateCopy(login)
     \/ Settings!FillCopy(login)
     \/ Settings!AppendTokenPath(login)
     \/ Settings!StartClient(login)
  /\ UNCHANGED terminal

\* The exception that no one catches ends the child.
ChildAborts == Settings!CopyFails(login) /\ Terminal!Exits /\ client' = "failed"

\* The messages of the child come before those of the client.
ChildTalks ==
  /\ \/ Terminal!Prints
     \/ pc[login] = "client" /\ Terminal!Asks
     \/ Terminal!Reads
  /\ UNCHANGED settings

ClientEnds ==
  /\ Terminal!Exits
  /\ \/ Settings!ClientSucceeds(login) /\ client' = "exited"
     \/ Settings!ClientFails(login) /\ client' = "failed"

Child == ChildCopies \/ ChildAborts \/ ChildTalks \/ ClientEnds

--------------------------------------------------------------------------------
(* The parent *)

Relays ==
  /\ \/ Terminal!OpenPty
     \/ Terminal!ForkFails
     \/ Terminal!OpenCallersFiles
     \/ Terminal!Relay
     \/ Terminal!WaitForClient
  /\ UNCHANGED settings

ReadToken ==
  /\ Settings!ReadToken(login)
  /\ Terminal!ReadToken
  /\ result' = IF received'[login] = Settings!Nothing THEN "empty" ELSE "token"

\* A token that is none ends the process.
NoJsonWebToken == Settings!NoJsonWebToken(login) /\ Terminal!Restart

Parent == Fork \/ Relays \/ ReadToken \/ NoJsonWebToken

Restart == Settings!Restart /\ Terminal!Restart

Types == Terminal!Types /\ UNCHANGED settings

Next ==
  \/ \E d \in Downloads : Download(d)
  \/ Child
  \/ Types
  \/ Parent
  \/ Restart

\* The child, the login's thread and the clients of downloads are kept running by the
\* system; clients end, and the user answers when asked.
Fairness ==
  /\ WF_vars(Child) /\ WF_vars(Parent) /\ WF_vars(Types)
  /\ \A d \in Downloads : WF_vars(DownloadEnds(d))

Spec == Init /\ [][Next]_vars /\ Fairness

--------------------------------------------------------------------------------
(* Properties *)

\* The two parts agree on what the child is doing.
TypeOK ==
  /\ Settings!TypeOK
  /\ Terminal!TypeOK
  /\ pc[login] \in {"look", "create", "fill", "append", "start", "client"} <=>
       client \in {"running", "asking"}
  /\ client = "asking" => pc[login] = "client"
  /\ parent = "token" => pc[login] = "token"
  /\ result = "token" => received[login] # Settings!Nothing

CopiesAreComplete == Settings!CopiesAreComplete
OwnTokenReceived == Settings!OwnTokenReceived
AllRelayed == Terminal!AllRelayed
OutputReachesCaller == Terminal!OutputReachesCaller
LoginEnds == Terminal!LoginEnds
================================================================================
