------------------------------ MODULE ListingCache ------------------------------
(******************************************************************************)
(* The metadata caches behind getattr and readdir.  Listings (of scopes, of   *)
(* the DiDs of a scope, of the DiDs of a container) are kept chache_duration  *)
(* seconds; what a DiD is and its size are kept for ever and filled in by     *)
(* every listing of DiDs before it is stored.  Each call of a libfuse thread  *)
(* runs as several steps: it looks in the cache, asks the server, puts the    *)
(* records that came in pieces together, fills, stores, and reads the cache   *)
(* again for its answer.                                                      *)
(*                                                                            *)
(* One server; a cache key is a concatenation of names, so names are          *)
(* sequences.  A DiD is [scope, name], a directory [level, scope, name].      *)
(******************************************************************************)
EXTENDS Integers, Sequences, FiniteSets

CONSTANTS
  Threads,          \* libfuse threads
  DiDs,             \* the DiDs of the server
  Type,             \* Type[d]: FILE, CONTAINER or DATASET
  Bytes,            \* Bytes[d]: its size as the server says, 0 where it says null
  Dirs,             \* the directories that can be listed
  Contents,         \* Contents[dir]: the DiDs that it has at some time, those of other
                    \* scopes that a container holds among them; of a directory of
                    \* scopes, the names count
  IntMax,           \* the largest value of an int
  Garbage,          \* the sizes of a record that gave none, or was put together wrongly
  chache_duration,  \* seconds a listing is kept
  MaxCall,          \* bound: seconds between the start of a call and its end
  MaxTime,          \* bound: the clock stops here
  Failures,         \* whether a request may fail in curl
  Refusals          \* whether the server may answer with an error page

AnyDir == CHOOSE d \in Dirs : TRUE
Levels == {"scopes", "dids", "container"}
Types == {"FILE", "CONTAINER", "DATASET"}
Scopes == {d.scope : d \in Dirs}
DidNames == {d.name : d \in DiDs}
Nameless == <<>>    \* the name of the record that an error page parses to

\* What a thread holds of a DiD, and of what was no DiD's record: a type that was never
\* set, and no size.
Record(d) == [name |-> d.name, type |-> Type[d], bytes |-> Bytes[d]]
NoRecord(n) == [name |-> n, type |-> "unset", bytes |-> 0]

ASSUME DurationAssumption ==
  /\ chache_duration \in Nat
  /\ MaxCall \in Nat
  /\ MaxTime \in Nat
  /\ MaxCall <= chache_duration     \* each curl request is cut off after 20 s

ASSUME DirsAssumption ==
  /\ Dirs # {}
  /\ \A d \in Dirs : d.level \in Levels
  /\ Contents \in [Dirs -> SUBSET DiDs]
  /\ \A d \in Dirs, c \in DiDs : d.level = "dids" /\ c \in Contents[d] => c.scope = d.scope

ASSUME DidsAssumption ==
  /\ Type \in [DiDs -> Types]
  /\ Bytes \in [DiDs -> Nat]
  /\ IntMax \in Nat
  /\ Garbage # {}

VARIABLES
  now,                 \* the clock, in seconds
  listings,            \* scopes_cache, dids_cache and container_dids_cache: when a
                       \* listing expires, its records and, as a history, the time
                       \* the server sent it and the directory it was sent for
  is_container_cache,  \* a function from the keys seen so far
  file_size_cache,     \* likewise
  did_string_remainder,  \* whose text it holds: threads, and "page" for an error page
  crossed,             \* history: a text was appended to another's there
  pc, time_now, dir, did, at,   \* the locals of each thread
  broken,              \* the records that came in two pieces and are yet to be parsed
  held,                \* the one of which the first piece has been
  dids,                \* the records of the listing
  todo                 \* those of them yet to be recorded

caches == <<listings, is_container_cache, file_size_cache>>
strings == <<did_string_remainder, crossed>>
locals == <<pc, time_now, dir, did, at, broken, held, dids, todo>>
vars == <<now, caches, strings, locals>>

\* thread_safe_unordered_map::set_value
set_value(map, k, v) == [x \in DOMAIN map \cup {k} |-> IF x = k THEN v ELSE map[x]]

\* thread_safe_unordered_map::emplace
emplace(map, k, v) == IF k \in DOMAIN map THEN map ELSE set_value(map, k, v)

\* Mutant: an int that is a bit shorter.
ShortInt(n) == ((n + IntMax) % (2 * IntMax)) - IntMax

\* A number of bytes on its way through an int.
AsInt(n) == ((n + IntMax + 1) % (2 * (IntMax + 1))) - IntMax - 1

\* short_server_name + scope + name
Key(scope, name) == scope \o name
ListingKey(d) == <<d.level, Key(d.scope, d.name)>>

Idle(t) == pc[t] = "idle"

\* The locals go with the call.
Forget(t) ==
  /\ pc' = [pc EXCEPT ![t] = "idle"]
  /\ time_now' = [time_now EXCEPT ![t] = 0]
  /\ dir' = [dir EXCEPT ![t] = AnyDir]
  /\ did' = [did EXCEPT ![t] = Nameless]
  /\ at' = [at EXCEPT ![t] = 0]
  /\ dids' = [dids EXCEPT ![t] = {}]
  /\ UNCHANGED <<broken, held, todo>>

Cached(d) == ListingKey(d) \in DOMAIN listings

Init ==
  /\ now = 0
  /\ listings = <<>>
  /\ is_container_cache = <<>>
  /\ file_size_cache = <<>>
  /\ did_string_remainder = {}
  /\ crossed = FALSE
  /\ pc = [t \in Threads |-> "idle"]
  /\ time_now = [t \in Threads |-> 0]
  /\ dir = [t \in Threads |-> AnyDir]
  /\ did = [t \in Threads |-> Nameless]
  /\ at = [t \in Threads |-> 0]
  /\ broken = [t \in Threads |-> {}]
  /\ held = [t \in Threads |-> {}]
  /\ dids = [t \in Threads |-> {}]
  /\ todo = [t \in Threads |-> {}]

--------------------------------------------------------------------------------
(* Listings: rucio_list_scopes, rucio_list_dids, rucio_list_container_dids *)

\* The clock is read once, before the request.
Usable(d) == Cached(d) /\ listings[ListingKey(d)].expires >= now

Begin(t, d) ==
  /\ Idle(t)
  /\ dir' = [dir EXCEPT ![t] = d]
  /\ time_now' = [time_now EXCEPT ![t] = now]
  /\ pc' = [pc EXCEPT ![t] = IF Usable(d) THEN "answer" ELSE "fetch"]
  /\ UNCHANGED <<now, caches, strings, did, at, broken, held, dids, todo>>

\* The records of a reply: any of the directory's, since others attach and detach them,
\* or an error page, which curl reports as a success and which parses to one record
\* without a name.
Replies(d) ==
  {{Record(c) : c \in cs} : cs \in SUBSET Contents[d]} \cup
  (IF Refusals THEN {{NoRecord(Nameless)}} ELSE {})

\* The reply comes back and its whole lines are parsed; the lines that the response was
\* cut in come next.  A list of scopes has no such lines.
Fetch(t) ==
  /\ pc[t] = "fetch"
  /\ \E rs \in Replies(dir[t]) : \E bs \in SUBSET rs :
       IF dir[t].level = "scopes"
         THEN /\ dids' = [dids EXCEPT ![t] = rs]
              /\ UNCHANGED <<broken, todo>>
         ELSE /\ dids' = [dids EXCEPT ![t] = rs \ bs]
              /\ todo' = [todo EXCEPT ![t] = rs \ bs]
              /\ broken' = [broken EXCEPT ![t] = bs]
  /\ at' = [at EXCEPT ![t] = now]
  /\ pc' = [pc EXCEPT ![t] = "fill"]
  /\ UNCHANGED <<now, caches, strings, time_now, dir, did, held>>

\* The request fails: an empty listing is returned and nothing is cached.
FetchFails(t) ==
  /\ Failures
  /\ pc[t] = "fetch"
  /\ Forget(t)
  /\ UNCHANGED <<now, caches, strings>>

\* A text without a } at its end goes to the end of the shared remainder.
PutAside(x) ==
  /\ did_string_remainder' = did_string_remainder \cup {x}
  /\ crossed' = (crossed \/ did_string_remainder # {})

\* An error page that never has a } at its end stays in the remainder.
FetchPage(t) ==
  /\ Refusals
  /\ pc[t] = "fetch"
  /\ dir[t].level # "scopes"
  /\ PutAside("page")
  /\ at' = [at EXCEPT ![t] = now]
  /\ pc' = [pc EXCEPT ![t] = "fill"]
  /\ UNCHANGED <<now, caches, time_now, dir, did, broken, held, dids, todo>>

\* The first piece of a record is put aside.
PutPiece(t, r) ==
  /\ r \in broken[t]
  /\ held[t] = {}
  /\ PutAside(t)
  /\ held' = [held EXCEPT ![t] = {r}]
  /\ broken' = [broken EXCEPT ![t] = @ \ {r}]
  /\ UNCHANGED <<now, caches, pc, time_now, dir, did, at, dids, todo>>

\* The second piece is put behind all that the remainder holds, the first piece or
\* another text; what comes out then has any name, a name that was cut left out.
JoinPieces(t) ==
  /\ held[t] # {}
  /\ \E r \in IF did_string_remainder = {t} THEN held[t]
               ELSE {NoRecord(n) : n \in DidNames \cup {Nameless}} :
       /\ dids' = [dids EXCEPT ![t] = @ \cup {r}]
       /\ todo' = [todo EXCEPT ![t] = @ \cup {r}]
  /\ did_string_remainder' = {}
  /\ held' = [held EXCEPT ![t] = {}]
  /\ UNCHANGED <<now, caches, crossed, pc, time_now, dir, did, at, broken>>

\* The lines of the reply have all been parsed.
Parsed(t) == broken[t] = {} /\ held[t] = {}

\* Mutant: the data sets are forgotten.
OnlyContainers(type) == type = "CONTAINER"

rucio_is_container(type) == type # "FILE"

\* The kind and the size that a record is given: a type that was never set may be any, and
\* the size of what is no file is never set.
KindsOf(r) == IF r.type = "unset" THEN BOOLEAN ELSE {rucio_is_container(r.type)}
SizesOf(r) == IF r.type = "FILE" THEN {AsInt(r.bytes)} ELSE Garbage

\* One record of the listing: its kind and its size are recorded under its name and the
\* scope of the directory, whatever scope it has itself.
Fill(t, r) ==
  /\ pc[t] = "fill" /\ Parsed(t)
  /\ r \in todo[t]
  /\ LET k == Key(dir[t].scope, r.name) IN
       /\ \E b \in KindsOf(r) : is_container_cache' = set_value(is_container_cache, k, b)
       /\ \E v \in SizesOf(r) : file_size_cache' = set_value(file_size_cache, k, v)
  /\ todo' = [todo EXCEPT ![t] = @ \ {r}]
  /\ UNCHANGED <<now, listings, strings, pc, time_now, dir, did, at, broken, held, dids>>

\* Mutants: the listing is stored before its entries are filled in; its age counts
\* from the end of the request; it is given the age with the wrong sign.
StorableAtOnce(t) == pc[t] = "fill" /\ Parsed(t)
ExpiryFromEnd(t) == now + chache_duration
ExpiryBefore(t) == -chache_duration

Storable(t) == pc[t] = "fill" /\ Parsed(t) /\ todo[t] = {}
Expiry(t) == time_now[t] + chache_duration

Store(t) ==
  /\ Storable(t)
  /\ listings' = set_value(listings, ListingKey(dir[t]),
                    [expires |-> Expiry(t), dids |-> dids[t], at |-> at[t], of |-> dir[t]])
  /\ pc' = [pc EXCEPT ![t] = "answer"]
  /\ at' = [at EXCEPT ![t] = 0]
  /\ dids' = [dids EXCEPT ![t] = {}]
  /\ todo' = [todo EXCEPT ![t] = {}]
  /\ UNCHANGED <<now, is_container_cache, file_size_cache, strings, time_now, dir, did,
                 broken, held>>

\* The answer is copied out of the cache, where another thread may have stored
\* its own listing in the meantime.
Answer(t) ==
  /\ pc[t] = "answer"
  /\ dids' = [dids EXCEPT ![t] = listings[ListingKey(dir[t])].dids]
  /\ at' = [at EXCEPT ![t] = listings[ListingKey(dir[t])].at]
  /\ pc' = [pc EXCEPT ![t] = "answered"]
  /\ UNCHANGED <<now, caches, strings, time_now, dir, did, broken, held, todo>>

--------------------------------------------------------------------------------
(* Single DiDs: rucio_is_container and rucio_get_size *)

\* What a path is.  The answer of a request made for a path goes into the cache
\* under the path, where no call looks: the next call asks again.
AskKind(t, d, n) ==
  /\ Idle(t)
  /\ dir' = [dir EXCEPT ![t] = d]
  /\ did' = [did EXCEPT ![t] = n]
  /\ time_now' = [time_now EXCEPT ![t] = now]
  /\ pc' = [pc EXCEPT ![t] =
              IF Key(d.scope, n) \in DOMAIN is_container_cache
              THEN IF is_container_cache[Key(d.scope, n)] THEN "directory" ELSE "file"
              ELSE "kind"]
  /\ UNCHANGED <<now, caches, strings, at, broken, held, dids, todo>>

\* The DiD that a call is about, which need not be one of the server's.
Asked(t) == [scope |-> dir[t].scope, name |-> did[t]]

\* A failed request, and a page without a type in its first part, count as a file.
LearnKind(t) ==
  /\ pc[t] = "kind"
  /\ \/ /\ Asked(t) \in DiDs
        /\ pc' = [pc EXCEPT ![t] = IF rucio_is_container(Type[Asked(t)]) THEN "directory"
                                   ELSE "file"]
     \/ /\ Failures \/ Refusals \/ Asked(t) \notin DiDs
        /\ pc' = [pc EXCEPT ![t] = "file"]
  /\ UNCHANGED <<now, caches, strings, time_now, dir, did, at, broken, held, dids, todo>>

\* The size of what was taken for a file: known, or asked for.
AskSize(t) ==
  /\ pc[t] = "file"
  /\ IF Key(dir[t].scope, did[t]) \in DOMAIN file_size_cache
       THEN Forget(t)
       ELSE /\ pc' = [pc EXCEPT ![t] = "size"]
            /\ UNCHANGED <<time_now, dir, did, at, broken, held, dids, todo>>
  /\ UNCHANGED <<now, caches, strings>>

\* A reply with a size is recorded, unless another thread has done so; a failure and a page
\* without one are not.  The reply comes in one piece: a number that is cut is left out.
LearnSize(t) ==
  /\ pc[t] = "size"
  /\ Forget(t)
  /\ \/ /\ Asked(t) \in DiDs
        /\ file_size_cache' = emplace(file_size_cache, Key(dir[t].scope, did[t]),
                                      AsInt(Bytes[Asked(t)]))
     \/ /\ Failures \/ Refusals \/ Asked(t) \notin DiDs
        /\ UNCHANGED file_size_cache
  /\ UNCHANGED <<now, listings, is_container_cache, strings>>

--------------------------------------------------------------------------------
\* The call is over.
Return(t) ==
  /\ pc[t] \in {"answered", "directory"}
  /\ Forget(t)
  /\ UNCHANGED <<now, caches, strings>>

\* A second passes; no call lasts more than MaxCall.
Tick ==
  /\ now < MaxTime
  /\ \A t \in Threads : ~ Idle(t) => now < time_now[t] + MaxCall
  /\ now' = now + 1
  /\ UNCHANGED <<caches, strings, locals>>

Next ==
  \/ \E t \in Threads :
       \/ \E d \in Dirs : Begin(t, d)
       \/ Fetch(t)
       \/ FetchFails(t)
       \/ FetchPage(t)
       \/ \E r \in broken[t] : PutPiece(t, r)
       \/ JoinPieces(t)
       \/ \E r \in todo[t] : Fill(t, r)
       \/ Store(t)
       \/ Answer(t)
       \/ \E d \in Dirs, n \in DidNames : d.level # "scopes" /\ AskKind(t, d, n)
       \/ LearnKind(t)
       \/ AskSize(t)
       \/ LearnSize(t)
       \/ Return(t)
  \/ Tick

Spec == Init /\ [][Next]_vars

--------------------------------------------------------------------------------
(* Properties *)

AllNames == DidNames \cup {Nameless}
Keys == {Key(s, n) : s \in Scopes, n \in AllNames}
Records == {Record(d) : d \in DiDs} \cup {NoRecord(n) : n \in AllNames}
Steps == {"idle", "fetch", "fill", "answer", "answered", "kind", "file", "size", "directory"}

\* The caches map the keys of this server's names, and each thread is in a step of
\* one call.
TypeOK ==
  /\ now \in Nat
  /\ DOMAIN listings \subseteq {ListingKey(d) : d \in Dirs}
  /\ \A k \in DOMAIN listings :
       listings[k] \in [expires : Nat, dids : SUBSET Records, at : Nat, of : Dirs]
  /\ DOMAIN is_container_cache \subseteq Keys
  /\ DOMAIN file_size_cache \subseteq Keys
  /\ \A k \in DOMAIN file_size_cache : file_size_cache[k] \in Int \cup Garbage
  /\ did_string_remainder \subseteq Threads \cup {"page"} /\ crossed \in BOOLEAN
  /\ pc \in [Threads -> Steps]
  /\ time_now \in [Threads -> Nat] /\ at \in [Threads -> Nat]
  /\ dir \in [Threads -> Dirs] /\ did \in [Threads -> AllNames]
  /\ broken \in [Threads -> SUBSET Records] /\ held \in [Threads -> SUBSET Records]
  /\ dids \in [Threads -> SUBSET Records] /\ todo \in [Threads -> SUBSET Records]

\* A listing handed out was sent by the server at most chache_duration seconds
\* before the call began, whichever thread stored it and however long it took.
AnswersAreFresh ==
  \A t \in Threads : pc[t] = "answered" => at[t] + chache_duration >= time_now[t]

\* Once a listing of DiDs is in the cache, the kind and the size of each of its
\* records are too, so that looking at a listed entry asks the server nothing.
ListedIsKnown ==
  \A k \in DOMAIN listings : listings[k].of.level # "scopes" =>
    \A r \in listings[k].dids :
      Key(listings[k].of.scope, r.name) \in
        (DOMAIN is_container_cache) \cap (DOMAIN file_size_cache)

\* The DiDs whose scope and name run together to the text k, the scope being that of a
\* directory that holds them where it is not their own.
Namesakes(k) ==
  {d \in DiDs : \E e \in Dirs :
     /\ e.level # "scopes"
     /\ d.scope = e.scope \/ d \in Contents[e]
     /\ e.scope \o d.name = k}

\* The keys that an error page, taken for a record without a name, is filed under.
PageKeys == {s \o Nameless : s \in Scopes}

\* As long as no text was appended to another's in the shared remainder, what the cache
\* says under a text is what the server says of a DiD of that text, however listings
\* were cut, failed and overlapped; the key of the error pages, a scope alone, is apart.
KindsAreGiven ==
  ~ crossed =>
    \A k \in DOMAIN is_container_cache :
      k \in PageKeys \/ \E d \in Namesakes(k) : is_container_cache[k] = (Type[d] # "FILE")

\* Likewise the size that getattr gives is a DiD's own in bytes, as long as an int holds
\* it; only that of a container or a data set is left to chance.
SizesAreGiven ==
  ~ crossed =>
    \A k \in DOMAIN file_size_cache :
      \/ k \in PageKeys
      \/ \E d \in Namesakes(k) :
           \/ Bytes[d] > IntMax \/ file_size_cache[k] = Bytes[d]
           \/ Type[d] # "FILE" /\ file_size_cache[k] \in Garbage
================================================================================
