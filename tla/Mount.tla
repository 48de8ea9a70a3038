---------------------------------- MODULE Mount ----------------------------------
(******************************************************************************)
(* The file system from main to its users: what the startup registers and     *)
(* lists is what the callbacks then find, and the walk through the tree       *)
(* begins where the startup ends.                                             *)
(******************************************************************************)
EXTENDS Naturals

CONSTANTS
  Files, ServerNames, Modes, mountpoint, rucio_cache_path,   \* Startup
  Scopes, FileDids, Contents, MacNames, MaxDepth             \* Namespace

VARIABLES
  settings, directory, parent_writable, pc, to_read, file, rucio_server_map,
  rucio_server_names, reached,
  path, top, trail

startup == <<settings, directory, parent_writable, pc, to_read, file, rucio_server_map,
             rucio_server_names, reached>>
walk == <<path, top, trail>>
vars == <<startup, walk>>

Startup == INSTANCE Startup
Tree == INSTANCE Namespace WITH registered <- DOMAIN rucio_server_map

ASSUME StartupAssumption == Startup!Assumption
ASSUME TreeAssumption == DOMAIN Scopes = ServerNames /\ Tree!Assumption

Init == Startup!Init /\ Tree!Init

\* fuse_main answers callbacks once everything has been checked.
Walk ==
  /\ pc = "mounted"
  /\ UNCHANGED startup
  /\ Tree!EnterTop \/ Tree!Enter

Next ==
  \/ Startup!Next /\ UNCHANGED walk
  \/ Walk

Spec == Init /\ [][Next]_vars

--------------------------------------------------------------------------------
(* Properties *)

ListedAreValidated == Startup!ListedAreValidated
RegisteredHaveCertificate == Startup!RegisteredHaveCertificate

\* The root directory lists servers, and a path is below one that was validated: so
\* is every step of a walk, and what its listings name can be entered.
ListedAreServed ==
  pc = "mounted" =>
    /\ Tree!ListedAreServed
    /\ ~ Tree!is_root_path(path) => Tree!extract_server_name(path) \in rucio_server_names

DepthIsRight == Tree!DepthIsRight
PathNamesItsDid == Tree!PathNamesItsDid
FilesAppearUnlessShared == Tree!FilesAppearUnlessShared
================================================================================
