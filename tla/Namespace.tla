-------------------------------- MODULE Namespace --------------------------------
(******************************************************************************)
(* What a path stands for.  Someone walks the mounted tree from its root, one *)
(* listed entry at a time; what getattr and readdir say about a path is       *)
(* worked out from its text alone: the number of slashes, the server, the     *)
(* scope and the last component; the caches of kinds and of listings are      *)
(* looked up by a text, too.  The history keeps the scope that the walk       *)
(* entered, and the DiDs that it went through, as the server attaches them.   *)
(*                                                                            *)
(* A text is a sequence of letters.  The caller is logged in.  The servers    *)
(* are those that the startup has left.  Lists of scopes come, and records    *)
(* come whole: error pages and mixed records are ListingCache's.              *)
(******************************************************************************)
EXTENDS Naturals, Sequences, SequencesExt, FiniteSetsExt

CONSTANTS
  Scopes,      \* the scopes each server has
  FileDids,    \* the file DiDs: <<scope, name>>
  Contents,    \* for each container or data set DiD, the set of DiDs in it
  MacNames,    \* "HEAD" and "DCIM", a letter each
  MaxDepth     \* bound: components of a path

Slash == "/"
rucio_root_path == <<Slash>>
Dids == FileDids \cup DOMAIN Contents

\* What can be an entry of a directory: not empty, and without a slash.  The kernel takes
\* no other entry from readdir.
Name == Seq(STRING \ {Slash}) \ {<<>>}

\* A container holds DiDs of the catalogue, and no DiD is both a file and a container.
Assumption ==
  /\ DOMAIN Scopes \subseteq Name
  /\ \A s \in DOMAIN Scopes : Scopes[s] \subseteq Name
  /\ Dids \subseteq Name \X Name
  /\ \A d \in DOMAIN Contents : Contents[d] \subseteq Dids
  /\ FileDids \cap DOMAIN Contents = {}

VARIABLES
  rucio_server_names,  \* the servers listed in the root directory
  registered,          \* the names in rucio_server_map
  path,
  top,                 \* history: the server or scope that was entered last
  trail                \* history: the DiDs entered below it

vars == <<rucio_server_names, registered, path, top, trail>>

--------------------------------------------------------------------------------
(* utils.cpp *)

is_root_path(p) == p \in {rucio_root_path, rucio_root_path \o rucio_root_path}

\* Mutant: the slash at the end counts as well.
DepthOfSlashes(p) == Cardinality({i \in 1 .. Len(p) : p[i] = Slash})

path_depth(p) ==
  IF is_root_path(p) THEN 0
  ELSE Cardinality({i \in 1 .. Len(p) : p[i] = Slash /\ i < Len(p)})

is_server_mountpoint(p) == path_depth(p) = 1
is_main_scope(p) == path_depth(p) = 2

remove_trailing_token(p) == IF Len(p) > 1 /\ Last(p) = Slash THEN Front(p) ELSE p

\* The first occurrence of a text goes, wherever it is.
remove_substring(p, subs) ==
  LET found == {i \in 1 .. Len(p) - Len(subs) + 1 : SubSeq(p, i, i + Len(subs) - 1) = subs}
  IN  IF found = {} THEN p
      ELSE SubSeq(p, 1, Min(found) - 1) \o SubSeq(p, Min(found) + Len(subs), Len(p))

remove_root_path(p) == remove_substring(p, rucio_root_path)

\* A text up to its first slash.
UpToSlash(p) ==
  LET slashes == {i \in 1 .. Len(p) : p[i] = Slash}
  IN  IF slashes = {} THEN p ELSE SubSeq(p, 1, Min(slashes) - 1)

extract_server_name(p) == UpToSlash(remove_root_path(p))

extract_scope(p) ==
  UpToSlash(remove_substring(remove_trailing_token(remove_root_path(p)),
                             extract_server_name(p) \o <<Slash>>))

\* Mutant: find instead of find_last_of.
NameAfterFirst(p) ==
  LET q == remove_trailing_token(p)
  IN  SubSeq(q, Min({i \in 1 .. Len(q) : q[i] = Slash}) + 1, Len(q))

extract_name(p) ==
  LET q == remove_trailing_token(p)
      slashes == {i \in 1 .. Len(q) : q[i] = Slash}
  IN  IF slashes = {} THEN q ELSE SubSeq(q, Max(slashes) + 1, Len(q))

get_did(p) == <<extract_scope(p), extract_name(p)>>

is_hidden(p) == extract_name(p) # <<>> /\ Head(extract_name(p)) = "."
is_mac_specific(p) == extract_name(p) \in MacNames

--------------------------------------------------------------------------------
(* The caches of REST-API.cpp, which may hold what was listed for any path *)

\* The DiDs that listings of the scope c and of its containers bring.
ListedIn(c) ==
  {d \in Dids : d[1] = c} \cup UNION {Contents[e] : e \in {x \in DOMAIN Contents : x[1] = c}}

\* The DiDs whose kind is filed under the text k: a server's name, the scope listed and
\* the DiD's name run together.
FiledUnder(k) ==
  {d \in Dids : \E server \in DOMAIN Scopes, c \in {x[1] : x \in Dids} :
                  d \in ListedIn(c) /\ server \o c \o d[2] = k}

\* Listings of scopes and containers are filed likewise.
DidsFiledUnder(k) ==
  {d \in Dids : \E server \in DOMAIN Scopes : server \o d[1] = k}
ContentsFiledUnder(k) ==
  UNION {Contents[e] : e \in {x \in DOMAIN Contents :
                                \E server \in DOMAIN Scopes : server \o x[1] \o x[2] = k}}

ScopeKey(p) == extract_server_name(p) \o extract_scope(p)
DidKey(p) == ScopeKey(p) \o extract_name(p)

--------------------------------------------------------------------------------
(* fuse-op.h *)

\* Mutant: the kind is looked up by name alone.
KindOfName(p) == {FALSE} \cup {d[2] = extract_name(p) : d \in DOMAIN Contents}

\* The answers it may give: that of a DiD filed under the key, or else the server's, or
\* "no container" where the request fails or no such DiD exists.
rucio_is_container(p) ==
  {FALSE} \cup {TRUE : d \in (DOMAIN Contents) \cap ({get_did(p)} \cup FiledUnder(DidKey(p)))}

\* A place above the DiDs, that is there: the root, a server, or one of its scopes.
IsTop(p) ==
  LET server == extract_server_name(p) IN
  \/ is_root_path(p)
  \/ is_server_mountpoint(p)
  \/ is_main_scope(p) /\ extract_scope(p) \in Scopes[server]

\* What rucio_getattr may make of a path: an empty answer, a refusal, a directory, a
\* missing entry, or a file.
rucio_getattr(p) ==
  IF is_hidden(p) \/ is_mac_specific(p) THEN {"nothing"}
  ELSE IF ~ is_root_path(p) /\ extract_server_name(p) \notin registered THEN {"refused"}
  ELSE IF IsTop(p) THEN {"directory"}
  ELSE IF is_main_scope(p) THEN {"missing"}
  ELSE {IF b THEN "directory" ELSE "file" : b \in rucio_is_container(p)}

\* Mutant: what is registered is listed.
EveryRegistered == registered

rucio_list_servers == rucio_server_names

\* The servers or scopes that rucio_readdir lists.
Topmost(p) ==
  CASE is_hidden(p) -> {}
    [] is_root_path(p) -> rucio_list_servers
    [] is_server_mountpoint(p) /\ ~ is_hidden(p) -> Scopes[extract_server_name(p)]
    [] OTHER -> {}

\* The DiDs that rucio_readdir may list, below the servers and the scopes: the server's,
\* or those of a listing filed under the same text.
DidsIn(p) ==
  CASE is_hidden(p) \/ path_depth(p) < 2 -> {}
    [] is_main_scope(p) /\ ~ is_hidden(p) -> DidsFiledUnder(ScopeKey(p))
    [] OTHER -> IF TRUE \in rucio_is_container(p) THEN ContentsFiledUnder(DidKey(p)) ELSE {}

--------------------------------------------------------------------------------
(* The walk *)

Below(p, name) == IF is_root_path(p) THEN p \o name ELSE p \o <<Slash>> \o name

Init == path = rucio_root_path /\ top = <<>> /\ trail = <<>>

\* The kernel goes on only below what is a directory.
EnterTop ==
  /\ "directory" \in rucio_getattr(path)
  /\ \E name \in Topmost(path) :
       path' = Below(path, name) /\ top' = name
  /\ UNCHANGED <<rucio_server_names, registered, trail>>

Enter ==
  /\ "directory" \in rucio_getattr(path)
  /\ path_depth(path) < MaxDepth
  /\ \E d \in DidsIn(path) :
       /\ path' = Below(path, d[2])
       /\ trail' = Append(trail, d)
  /\ UNCHANGED <<rucio_server_names, registered, top>>

Next == EnterTop \/ Enter

--------------------------------------------------------------------------------
(* Properties *)

InDids == path_depth(path) > 2

\* A path's depth is the number of steps of the walk to it, and a slash at its end
\* makes no difference to what it stands for.
DepthIsRight ==
  /\ InDids => path_depth(path) = 2 + Len(trail)
  /\ ~ is_root_path(path) =>
       LET slashed == Append(path, Slash) IN
       /\ path_depth(slashed) = path_depth(path)
       /\ extract_server_name(slashed) = extract_server_name(path)
       /\ get_did(slashed) = get_did(path)

\* The walk has met DiDs of the scope that it entered only.
InOneScope == \A d \in Range(trail) : d[1] = top

\* What readdir lists answers when it is asked for: a server, a scope or a DiD in a
\* listing is neither refused nor missing, but for hidden names and those of MacNames.
ListedAreServed ==
  \A name \in Topmost(path) \cup {d[2] : d \in DidsIn(path)} :
    LET p == Below(path, name) IN
    is_hidden(p) \/ is_mac_specific(p) \/ rucio_getattr(p) \subseteq {"directory", "file"}

\* Returns a DiD in the form scope:name using the path as input: the DiD of a path is
\* the one that the walk has come to, as long as it kept to one scope, whatever names
\* it went through and however often.
PathNamesItsDid == InDids /\ InOneScope => get_did(path) = Last(trail)

AtFile == InDids /\ InOneScope /\ Last(trail) \in FileDids

\* The text that the server, the scope and the name of the DiD walked to run together to.
LastText == extract_server_name(path) \o Last(trail)[1] \o Last(trail)[2]

\* File DiDs appear as files: on a walk in one scope a file never appears as a directory,
\* unless a container or a data set is filed under the text of its server, its scope and
\* its name.
FilesAppearUnlessShared ==
  AtFile /\ FiledUnder(LastText) \cap DOMAIN Contents = {} =>
    "directory" \notin rucio_getattr(path)
================================================================================
