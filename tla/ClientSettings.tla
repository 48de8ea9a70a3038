----------------------------- MODULE ClientSettings -----------------------------
(******************************************************************************)
(* The settings that the rucio client is run with.  A download, and the child *)
(* process of a login by OpenID Connect, first make a copy of the server's    *)
(* settings file for the user, copyConfig: unless the copy is there, the file *)
(* is copied and a line with the path of the user's token is put at its end.  *)
(* Copies and tokens are files; they outlive the process.                     *)
(*                                                                            *)
(* A name is a sequence of letters, a path a folder and a name.  What a copy  *)
(* holds is the set of the settings written over one another in it, each by   *)
(* its server and edition, and the token paths at its end; a part of some     *)
(* settings counts as none.                                                   *)
(******************************************************************************)
EXTENDS Naturals, Sequences, Functions

CONSTANTS
  Servers,             \* the servers' names, which are those of their settings files
  Calls,               \* who runs clients: <<server, user name>>
  Downloads,           \* threads that download
  Logins,              \* children of logins
  temp_config_folder,  \* per server
  MaxEdition           \* bound: editions of a settings file

Assumption ==
  /\ Calls # {}
  /\ \A x \in Calls : x[1] \in Servers /\ x = <<x[1], x[2]>>
  /\ Downloads \cap Logins = {}
  /\ MaxEdition \in Nat \ {0}

Clients == Downloads \cup Logins
Editions == 1 .. MaxEdition
Malformed == <<"no JSON web token">>
Nothing == <<>>

VARIABLES
  settings_file,  \* per server: the edition of its settings file
  copies,         \* per path of a copy that is there: its settings and token paths
  token_files,    \* per path of a token that is there: the server and the user it is for
  pc,             \* per client: the step its thread, or its process, is at
  call,           \* per client: who it is run for
  received,       \* per login: what it has returned
  spoilt          \* history: copies on which a thread gave up halfway

files == <<settings_file, copies, token_files>>
vars == <<files, pc, call, received, spoilt>>

\* Mutant: one token file per folder.
OneTokenPath(x) == <<temp_config_folder[x[1]], <<>>>>

\* Mutant: one copy per server.
OneCopyPerServer(x) == <<temp_config_folder[x[1]], x[1]>>

\* The paths run their parts together.
destination(x) == <<temp_config_folder[x[1]], x[1] \o <<"_">> \o x[2]>>
token_path(x) == <<temp_config_folder[x[1]], x[2]>>

Someone == CHOOSE x \in Calls : TRUE

Init ==
  /\ settings_file = [s \in Servers |-> 1]
  /\ copies = <<>>
  /\ token_files = <<>>
  /\ pc = [c \in Clients |-> "idle"]
  /\ call = [c \in Clients |-> Someone]
  /\ received = [l \in Logins |-> Nothing]
  /\ spoilt = {}

Goto(c, step) == pc' = [pc EXCEPT ![c] = step] /\ UNCHANGED call
Rest(c) == pc' = [pc EXCEPT ![c] = "idle"] /\ call' = [call EXCEPT ![c] = Someone]
Copy(c) == destination(call[c])
\* Writing a file makes it, or replaces it.
Written(map, path, text) ==
  [p \in DOMAIN map \cup {path} |-> IF p = path THEN text ELSE map[p]]

Copying == {c \in Clients : pc[c] \in {"fill", "append"}}

--------------------------------------------------------------------------------
(* copyConfig *)

Begin(c) ==
  /\ pc[c] = "idle"
  /\ pc' = [pc EXCEPT ![c] = "look"]
  /\ \E x \in Calls : call' = [call EXCEPT ![c] = x]
  /\ UNCHANGED <<files, received, spoilt>>

\* Mutant: the settings file is looked for in place of its copy.
SourceExists(c) == TRUE

CopyExists(c) == Copy(c) \in DOMAIN copies

\* A copy that is there is taken as it is.
LookForCopy(c) ==
  /\ pc[c] = "look"
  /\ Goto(c, IF CopyExists(c) THEN "start" ELSE "create")
  /\ UNCHANGED <<files, received, spoilt>>

\* Opening the copy empties it, also if another thread has made it meanwhile.
CreateCopy(c) ==
  /\ pc[c] = "create"
  /\ copies' = Written(copies, Copy(c), [text |-> {}, token_paths |-> <<>>])
  /\ Goto(c, "fill")
  /\ UNCHANGED <<settings_file, token_files, received, spoilt>>

Source(c) == <<call[c][1], settings_file[call[c][1]]>>

\* What is behind the settings stays, as it does behind the same settings; token paths
\* in a copy that was emptied are shorter than the settings, and do not.
Kept(c) ==
  LET old == copies[Copy(c)] IN
  {paths \in {old.token_paths, <<>>} :
     /\ old.text = {Source(c)} => paths = old.token_paths
     /\ old.text = {} => paths = <<>>}

\* The settings are written from the beginning of the copy on, over those that another
\* thread has written there.
FillCopy(c) ==
  /\ pc[c] = "fill"
  /\ \E text \in {{Source(c)}, copies[Copy(c)].text \cup {Source(c)}}, paths \in Kept(c) :
       copies' = [copies EXCEPT ![Copy(c)] = [text |-> text, token_paths |-> paths]]
  /\ Goto(c, "append")
  /\ UNCHANGED <<settings_file, token_files, received, spoilt>>

\* Whether the line was written is not looked at.
AppendTokenPath(c) ==
  /\ pc[c] = "append"
  /\ \/ /\ copies' = [copies EXCEPT ![Copy(c)].token_paths = Append(@, token_path(call[c]))]
        /\ UNCHANGED spoilt
     \/ /\ spoilt' = spoilt \cup {Copy(c)}
        /\ UNCHANGED copies
  /\ Goto(c, "start")
  /\ UNCHANGED <<settings_file, token_files, received>>

\* An exception leaves the copy as it is.  A download goes on, with a client that has
\* been given no settings; a child of a login ends.
CopyFails(c) ==
  /\ pc[c] \in {"create", "fill", "append"}
  /\ spoilt' = IF pc[c] = "create" THEN spoilt ELSE spoilt \cup {Copy(c)}
  /\ IF c \in Logins THEN Rest(c) ELSE Goto(c, "start without")
  /\ UNCHANGED <<files, received>>

--------------------------------------------------------------------------------
(* The client *)

StartClient(c) ==
  /\ pc[c] \in {"start", "start without"}
  /\ Goto(c, IF pc[c] = "start" THEN "client" ELSE "client without")
  /\ UNCHANGED <<files, received, spoilt>>

\* The client refuses settings that are none, or that name two token paths.
Usable(copy) == (\E s \in copy.text : copy.text = {s}) /\ Len(copy.token_paths) <= 1

\* It may leave a token, of the server it was told to ask and for the user who answers
\* it, where it was told to.
ClientSucceeds(c) ==
  LET copy == copies[Copy(c)] IN
  /\ pc[c] = "client"
  /\ Usable(copy)
  /\ \/ UNCHANGED token_files
     \/ \E p \in Range(copy.token_paths), s \in copy.text :
          \E t \in {<<s[1], call[c][2]>>, Malformed} : token_files' = Written(token_files, p, t)
  /\ IF c \in Logins THEN Goto(c, "token") ELSE Rest(c)
  /\ UNCHANGED <<settings_file, copies, received, spoilt>>

ClientFails(c) ==
  /\ pc[c] \in {"client", "client without"}
  /\ Rest(c)
  /\ UNCHANGED <<files, received, spoilt>>

TokenThere(x) == token_path(x) \in DOMAIN token_files

\* The login returns what it finds at its path, whoever left it there.
ReadToken(l) ==
  LET x == call[l] IN
  /\ pc[l] = "token"
  /\ TokenThere(x) => token_files[token_path(x)] # Malformed
  /\ received' = IF TokenThere(x) THEN [received EXCEPT ![l] = token_files[token_path(x)]]
                                  ELSE received
  /\ Goto(l, "returned")
  /\ UNCHANGED <<files, spoilt>>

Return(l) ==
  /\ pc[l] = "returned"
  /\ received' = [received EXCEPT ![l] = Nothing]
  /\ Rest(l)
  /\ UNCHANGED <<files, spoilt>>

--------------------------------------------------------------------------------
(* The process *)

\* The process ends, with its threads, children and clients, and is started again.
\* The settings may have been edited meanwhile.
Restart ==
  /\ pc' = [c \in Clients |-> "idle"]
  /\ call' = [c \in Clients |-> Someone]
  /\ received' = [l \in Logins |-> Nothing]
  /\ spoilt' = spoilt \cup {Copy(c) : c \in Copying}
  /\ \/ UNCHANGED settings_file
     \/ \E s \in Servers : /\ settings_file[s] < MaxEdition
                           /\ settings_file' = [settings_file EXCEPT ![s] = @ + 1]
  /\ UNCHANGED <<copies, token_files>>

\* get_token_expiry throws in the login's thread, which ends the process.
NoJsonWebToken(l) ==
  /\ pc[l] = "token"
  /\ TokenThere(call[l]) /\ token_files[token_path(call[l])] = Malformed
  /\ Restart

Copies(c) ==
  \/ Begin(c)
  \/ LookForCopy(c)
  \/ CreateCopy(c)
  \/ FillCopy(c)
  \/ AppendTokenPath(c)
  \/ CopyFails(c)

Next ==
  \/ \E c \in Clients : Copies(c) \/ StartClient(c) \/ ClientSucceeds(c) \/ ClientFails(c)
  \/ \E l \in Logins : ReadToken(l) \/ Return(l) \/ NoJsonWebToken(l)
  \/ Restart

Spec == Init /\ [][Next]_vars

--------------------------------------------------------------------------------
(* Properties *)

CopyTypes == [text : SUBSET (Servers \X Editions), token_paths : Seq({token_path(x) : x \in Calls})]
Steps == {"idle", "look", "create", "fill", "append", "start", "start without", "client",
          "client without", "token", "returned"}

\* A thread that is at work on a copy, or that passes it to a client, finds it there.
TypeOK ==
  /\ settings_file \in [Servers -> Editions]
  /\ \A d \in DOMAIN copies : copies[d] \in CopyTypes
  /\ pc \in [Clients -> Steps]
  /\ call \in [Clients -> Calls]
  /\ \A c \in Clients : pc[c] \in {"fill", "append", "start", "client"} => Copy(c) \in DOMAIN copies

\* No other call has a server and a user whose names run together to the same text, in the
\* same folder.
OwnCopy(x) ==
  \A y \in Calls \ {x} :
    \/ temp_config_folder[y[1]] # temp_config_folder[x[1]]
    \/ y[1] \o <<"_">> \o y[2] # x[1] \o <<"_">> \o x[2]

\* Nor does the same user call another server that has the same folder.
OwnTokenPath(x) ==
  \A y \in Calls \ {x} :
    y[2] = x[2] => temp_config_folder[y[1]] # temp_config_folder[x[1]]

\* A copy that no thread is at work on, and that none gave up halfway, has settings and
\* ends with the token path: those of its server and user if it is theirs alone,
\* however many threads made it at once, emptied it and wrote over each other.
CopiesAreComplete ==
  \A x \in Calls :
    LET d == destination(x) IN
    d \in DOMAIN copies \ (spoilt \cup {Copy(c) : c \in Copying}) =>
      /\ copies[d].text # {} /\ copies[d].token_paths # <<>>
      /\ OwnCopy(x) => /\ \A s \in copies[d].text : s[1] = x[1]
                       /\ Range(copies[d].token_paths) = {<<temp_config_folder[x[1]], x[2]>>}

\* Read token from user's location: a login returns a token for its user, of its server,
\* if no other call has its copy or its token at the same path, however old the token is.
OwnTokenReceived ==
  \A l \in Logins :
    received[l] # Nothing /\ OwnCopy(call[l]) /\ OwnTokenPath(call[l])
      => received[l] = call[l]

\* The configuration files are passed at runtime to the internal routine performing
\* rucio downloads: a client that is given settings has those of its server, as they are
\* now.
ClientHasSettings ==
  \A c \in Clients : pc[c] = "client" => copies[Copy(c)].text = {Source(c)}
================================================================================
