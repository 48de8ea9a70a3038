--------------------------------- MODULE Startup ---------------------------------
(******************************************************************************)
(* From main to fuse_main: the settings files are read in the order of the    *)
(* directory, each server is registered and then validated by a ping and a    *)
(* login, the mount point and the cache directory are made and checked, and   *)
(* the file system is mounted.                                                *)
(******************************************************************************)
EXTENDS Naturals, FiniteSets

CONSTANTS
  Files,        \* the .cfg files of the settings directory
  ServerNames,  \* their names up to the first ".cfg"
  Modes,        \* what auth_type may say: "userpass", "x509", "oidc", or nothing known
  mountpoint, rucio_cache_path   \* the two directories

Assumption ==
  /\ Files # {}
  /\ Modes \subseteq {"userpass", "x509", "oidc", "none"}

Paths == {mountpoint, rucio_cache_path}
Settings == [server : ServerNames, mode : Modes, ca_found : BOOLEAN]

VARIABLES
  settings,            \* what each file says
  directory,           \* each path: "missing", "read-only" or "writable"
  parent_writable,     \* each path: whether mkdir can make it
  pc,                  \* "parse", "register", "ping", "auth", "mkdir", "check",
                       \* "mounted", or "aborted"
  to_read,             \* files readdir has not returned yet
  file,                \* the file being parsed
  rucio_server_map,    \* the servers registered, by name: the file they come from
  rucio_server_names,  \* the servers listed in the root directory
  reached              \* history: servers that answered the ping

vars == <<settings, directory, parent_writable, pc, to_read, file, rucio_server_map,
          rucio_server_names, reached>>
world == <<settings, parent_writable>>
servers == <<rucio_server_map, rucio_server_names, reached>>

Init ==
  /\ settings \in [Files -> Settings]
  /\ directory \in [Paths -> {"missing", "read-only", "writable"}]
  /\ parent_writable \in [Paths -> BOOLEAN]
  /\ pc = "parse"
  /\ to_read = Files
  /\ file = CHOOSE f \in Files : TRUE
  /\ rucio_server_map = <<>>
  /\ rucio_server_names = {}
  /\ reached = {}

--------------------------------------------------------------------------------
(* parse_settings_cfg *)

NextFile ==
  /\ pc = "parse"
  /\ \E f \in to_read : file' = f /\ to_read' = to_read \ {f}
  /\ pc' = "register"
  /\ UNCHANGED <<world, directory, servers>>

NoMoreFiles ==
  /\ pc = "parse"
  /\ to_read = {}
  /\ pc' = "mkdir"
  /\ UNCHANGED <<world, directory, to_read, file, servers>>

\* Mutant: a missing certificate is only reported.
AnyAccepted == TRUE

CaFound == settings[file].ca_found

Skip ==
  /\ pc = "register"
  /\ ~ CaFound
  /\ pc' = "parse"
  /\ UNCHANGED <<world, directory, to_read, file, servers>>

\* emplace: a name that is there keeps the settings it has.
Register ==
  /\ pc = "register"
  /\ CaFound
  /\ LET s == settings[file].server IN
       rucio_server_map' =
         [x \in DOMAIN rucio_server_map \cup {s} |->
            IF x \in DOMAIN rucio_server_map THEN rucio_server_map[x] ELSE file]
  /\ pc' = "ping"
  /\ UNCHANGED <<world, directory, to_read, file, rucio_server_names, reached>>

Server == settings[file].server

\* The server is not listed, and stays registered.
Drop == pc' = "parse" /\ UNCHANGED servers

Ping ==
  /\ pc = "ping"
  /\ \/ /\ reached' = reached \cup {Server}
        /\ pc' = "auth"
        /\ UNCHANGED <<rucio_server_map, rucio_server_names>>
     \/ Drop
  /\ UNCHANGED <<world, directory, to_read, file>>

\* Mutant: a server without an authentication mode passes.
AnyMode(mode) == TRUE

\* The modes rucio_get_auth_token_root can log in with.
CanLogIn(mode) == mode \in {"userpass", "x509", "oidc"}

\* The settings are those registered under the name.
Authenticate ==
  /\ pc = "auth"
  /\ \/ /\ CanLogIn(settings[rucio_server_map[Server]].mode)
        /\ rucio_server_names' = rucio_server_names \cup {Server}
        /\ pc' = "parse"
        /\ UNCHANGED <<rucio_server_map, reached>>
     \/ Drop
  /\ UNCHANGED <<world, directory, to_read, file>>

--------------------------------------------------------------------------------
(* main: mkdir, check_permissions and fuse_main *)

Made(p) ==
  IF directory[p] = "missing" /\ parent_writable[p] THEN "writable" ELSE directory[p]

MakeDirectories ==
  /\ pc = "mkdir"
  /\ directory' = [p \in Paths |-> Made(p)]
  /\ pc' = "check"
  /\ UNCHANGED <<world, to_read, file, servers>>

\* access(path, R_OK & W_OK): the flags are combined to 0, which asks whether the
\* path exists.
Accessible == \A p \in Paths : directory[p] # "missing"

CheckPermissions ==
  /\ pc = "check"
  /\ pc' = IF Accessible THEN "mounted" ELSE "aborted"
  /\ UNCHANGED <<world, directory, to_read, file, servers>>

Next ==
  \/ NextFile
  \/ NoMoreFiles
  \/ Skip
  \/ Register
  \/ Ping
  \/ Authenticate
  \/ MakeDirectories
  \/ CheckPermissions

Spec == Init /\ [][Next]_vars

--------------------------------------------------------------------------------
(* Properties *)

\* The root directory lists only servers that are registered, that answered, and
\* whose registered settings have a way to log in, also when two files share a name.
ListedAreValidated ==
  \A s \in rucio_server_names :
    /\ s \in (DOMAIN rucio_server_map) \cap reached
    /\ settings[rucio_server_map[s]].mode # "none"

\* A server without its certificate file is skipped: no registered settings name one.
RegisteredHaveCertificate ==
  \A s \in DOMAIN rucio_server_map :
    LET f == rucio_server_map[s] IN
    settings[f].ca_found /\ settings[f].server = s /\ f \notin to_read
================================================================================
