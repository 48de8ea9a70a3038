# A TLA+ model of rucio-fuse-posix

rucio-fuse-posix mounts the catalogue of one or more Rucio servers as a read-only tree
(`/server/scope/did/...`) and downloads a file when it is read. This directory holds TLA+ modules of
its run-time parts, TLC configurations that check them on small instances, and proofs checked by
TLAPS that hold for every value of the constants. Every definition follows the code under `src/`;
`PROJECT.json` gives the lines of each one (`map`), the hazards of the code with the properties that
watch them (`hazards`), the runs, the theorems, and one plausible bug per property that its run
catches (`mutants`).

## 1. The system

### Parts, their state and their operations

| Part | State | Operations | Code |
|---|---|---|---|
| FUSE callbacks | none of their own | `rucio_getattr`, `rucio_readdir`, `rucio_read`, on several libfuse threads | `include/fuse-op.h` |
| Download pipeline | two queues, two thread pools, a set of paths being downloaded, the cache directory | enqueue, take, run the client, look for the file, retry or hand on, report | `include/download-pipeline.h`, `include/rucio-download.h` |
| Cache of open files | a map from key to open file | `is_cached`, `get_file`, `add_file` (which nothing calls) | `include/download-cache.h` |
| Metadata caches | listings with an expiry; the kind and the size of every DiD seen | list scopes, list DiDs, list a container, ask for a kind, ask for a size | `source/REST-API.cpp`, `include/REST-API.h` |
| Listing parser | one string, `did_string_remainder`, for the whole process | split a chunk into lines, put broken lines together, tokenize a list of scopes | `source/utils.cpp`, `include/utils.h` |
| Authentication | `token_info` per server and uid | check, fetch by password, certificate or OpenID Connect, add to a request | `source/REST-API.cpp`, `include/globals.h` |
| Terminal relay | the client's pseudo-terminal and who has it open, the caller's files | start the client, copy both ways, wait for it, read its token | `source/terminal-redirect.cpp`, `source/curl-REST.cpp` |
| Copies of the settings | files: one copy of a server's settings and one token per user, which outlive the process | look for the copy, make it, put the token path at its end, run the client on it | `copyConfig` in `include/globals.h`, used by downloads and logins |
| Startup | the map of servers, the list of server names | read the settings, register, ping, log in, make and check directories | `main.cxx`, `source/globals.cpp` |
| Namespace | none: a path says it all | depth, server, scope and name of a path; directory or file | `source/utils.cpp`, `include/fuse-op.h` |
| Thread-safe map | a hash map; its "lock" is a local variable that locks nothing | `emplace`, `find`, `set_value`, `erase` | `include/thread_safe_container.h` |
| Queues and pools (ELWD) | external library | append, poll, rescale | submodule |

### How they interact

    kernel --> libfuse threads --> getattr / readdir ---> authenticate ---> token_info
                     |                    |                   |   ^
                     |                    v                   v   | (OpenID Connect)
                     |             metadata caches     server     login thread --> relay --> client
                     |                    |
                     |                    v
                     |             request --> chunks --> listing parser
                     v
                   read --> downloading? --> toDownload --> downloaders --> downloaded --> notifiers
                                                  ^              |
                                                  +--- retry ----+--> copyConfig --> rucio client
                                                                                       |
                                                         cache directory, token files <+

Calls are plain function calls on the libfuse thread that runs the callback. All state is shared by
all threads, and no lock of this repository is in effect: only the external queues synchronise.

### What is hard in it

- *Interleaving.* Two threads check, then act: `is_downloading` and `set_downloading`, the one
  remainder of the parser, the fields of one `token_info`, caches that are filled and then stored,
  a copy of the settings that is taken for whole while another process writes it.
- *Retries.* A failed download goes back to the queue it came from and shares it with new ones; it
  must be counted, never lost, never reported twice.
- *Time.* Listings and tokens expire while calls that looked at them are under way.
- *Failure.* A request fails, or succeeds with an error page; a client leaves no file or no token;
  the process is unmounted or ends while downloads are open, or halfway through a copy.
- *Waiting.* The parent of a login waits for a client that waits for the parent to read its terminal,
  which a client of a download may have inherited.
- *Text.* Everything a path means is read off its text, and cache keys are texts run together.

### What makes each part correct

- Download pipeline: a request is in one place; it is reported once, with its file or after all its
  attempts; every request ends; a path under way is not enqueued again.
- Listing parser: the records that come out are the ones the server sent, however they were cut.
- Metadata caches: no answer is older than the cache allows; what is listed is known; a file is a
  file and a container a container; a size is the server's. The code keeps the last two only per text
  of scope and name, and until records are mixed.
- Authentication: a request carries its caller's token; success means that there is a token; the
  expiry kept is the one of the token kept. The code keeps the first among users with passwords and
  certificates, the second for OpenID Connect.
- Terminal relay: what the client prints reaches the user; the login ends, with the client's token.
- Copies of the settings: a copy that is used is whole and its own; a login gets its user's token.
- Startup: what is listed was validated; what is mounted may be read and written.
- Namespace: a path names the DiD that the walk to it has reached; a file appears as a file.

## 2. The modules

Each component has a module with one action per step between two points where another thread can
interfere; `MC<Module>` instantiates it for TLC; `<Module>Proofs` holds its theorems. Those about the
walk of `Mount` are in `WalkProofs`, which continues `MountProofs`.

| Module | Models | State and actions in the code's terms |
|---|---|---|
| `DownloadService` | what the pipeline promises: tried at most `MaxTries` times, answered once, dropped only with the process | abstract |
| `DownloadPipeline` | `rucio_read`, both stages, `rucio_download_wrapper`, unmount and crash | `rpc`/`rpath`: a reader between two calls in `rucio_read`; `downloading`, `cache`: the two maps; `wpc`/`wjob`, `njob`: a pool's thread in its loop; `info`: the fields of each `rucio_download_info`; `disk`: the cache directory |
| `ListingStream` | chunks, `split_dids`, `coherentize_dids`, `tokenize_python_list` | `did_string_remainder` is the static string; a character is a tuple, so that a cut falls anywhere, inside a name too |
| `ListingCache` | the caches behind `getattr` and `readdir` | `listings`, `is_container_cache`, `file_size_cache`, with sizes as they come out of an `int`; each call's locals `time_now`, `dids`; `Begin`, `Fetch`, `PutPiece`, `JoinPieces`, `Fill`, `Store`, `Answer` are the steps of one list call, `AskKind` to `LearnSize` those of one `getattr`; `did_string_remainder` is whose text the static string holds, and a record that is put together from another's text may be any; `Fill` files a record under the scope that was listed, whatever scope it has |
| `TokenAuth` | `authenticate_user`, the token fetchers, the login thread, `get_auth_headers` | the three fields of `token_info` written one at a time; `args` is what lies in the stack frame that a login thread still points to; a reply may lack its token, its expiry, or both |
| `TerminalRelay` | `GET_OIDC` and `relay_pty_bidirectional` | output counted in pieces; `pending` is what the pseudo-terminal holds, `holders` the other processes that inherited its end; `openpty` and `fork` may fail |
| `ClientSettings` | `copyConfig` and the clients run on its copies, by downloads and by children of logins | `copies`: what each file holds, by whom it was written; `LookForCopy` to `AppendTokenPath` are the steps of `copyConfig`, one per access to the file; `CopyFails` is its exceptions; `Restart` ends the process and keeps the files |
| `OidcLogin` | the composition of the last two | the child on the pseudo-terminal is one of the clients; what a download starts may inherit the terminal; the token read is the one in the file |
| `Startup` | `main`, `parse_settings_cfg`, `rucio_validate_server`, `check_permissions` | one action per file read, registration, ping, login, directory step |
| `Namespace` | the path functions of `utils.cpp`, `rucio_getattr`, `rucio_readdir` | operators on a path; the behaviour is a walk from the root, one listed entry at a time, and `trail` remembers the DiDs it went through; the answers of `rucio_is_container` and of the listings are the server's or those of any entry filed under the same text (`FiledUnder`, `DidsFiledUnder`, `ContentsFiledUnder`) |
| `Mount` | the composition of the last two | the walk begins where `main` ends; `rucio_server_names` and the keys of `rucio_server_map` are what the callbacks look servers up in |

`ClientSettings`, `TerminalRelay`, `Startup` and `Namespace` state what they need of their constants as an
operator `Assumption`; `OidcLogin` and `Mount` assume it of their instances, and so it is evaluated in their runs.

Undefined behaviour is a choice of outcomes. `fclose` of a null pointer ends the process or does
nothing. An insertion into an unlocked map may be missed by, or lost to, another one at the same
moment. A string read while it is written is the old or the new one. The size of what is no file, and
the kind of a record without a type, are never set and may be any. A login thread finds each of its dangling
arguments as it was, or as a later login of the same libfuse thread left it. Outcomes beyond
these, such as a corrupted map or a crash of the login thread, are left out.

History variables (`notified`, `lost`, `refused`, `reached`, `trail`, `top`, `spoilt`, `crossed`, the `at` and
`of` fields of a listing) guard no action; they exist for the properties.

## 3. The runs

| Run | Configuration | Instance | Shows |
|---|---|---|---|
| `pipeline_safety` | `PipelineSafety.cfg` | 2 readers, 2 downloaders, 1 notifier, 3 paths (one of an unknown server), 2 requests; 290 000 states | `TypeOK`, `OnePlace`, `NothingLost`, `ReportsAreEarned`, `OnlyLoadedServers`, `ImplementsSafety`, `StepsFall` |
| `pipeline_service` | `PipelineService.cfg` | the same with 1 reader, under fairness; 190 000 states | `OneJobPerPath`, `EveryJobEnds`, `ImplementsService` |
| `pipeline_duplicate` | `PipelineDuplicate.cfg` | 2 readers | `OneJobPerPath` fails |
| `listing` | `Listing.cfg` | 1 thread, up to 3 entries of 2 names, up to 3 cuts, error pages; 110 000 states | `TypeOK`, `Reassembled`, `NothingLeftOver`, `WholeScopesListed` |
| `listing_shared` | `ListingShared.cfg` | 2 threads | `Reassembled` fails |
| `cache` | `Cache.cfg` | 2 threads, a container with a file and a data set of another scope, of which the file has the container's name; records cut, failures and error pages, clock 0..2; 4.0 million states | `TypeOK`, `AnswersAreFresh`, `ListedIsKnown`, `KindsAreGiven`, `SizesAreGiven` |
| `auth` | `Auth.cfg` | 3 users, one with a password and two with OpenID Connect, 1 libfuse thread, 2 logins at once, headers missing, clock 1..2; 5.5 million states | `TypeOK`, `OwnTokenUnlessOidc`, `OidcOkMeansToken` |
| `auth_torn` | `AuthTorn.cfg` | 1 user, 2 threads | `ExpiryIsTheTokens` fails |
| `login` | `Login.cfg` | 1 login, 1 download, 2 users of one server, a terminal with a buffer of 1 and output of 2, restarts at any step; 550 000 states | `TypeOK`, `CopiesAreComplete`, `OwnTokenReceived`, `AllRelayed`, `OutputReachesCaller`, `LoginEnds` |
| `relay_no_input` | `RelayNoInput.cfg` | `TerminalRelay` alone, also with a standard input at its end | `OutputReachesCaller` fails |
| `settings_unready` | `SettingsUnready.cfg` | `ClientSettings` alone: 2 downloads, 1 login, 3 servers, two of which run together with a user name, settings edited once | `ClientHasSettings` fails |
| `mount` | `Mount.cfg` | 2 files, which may share a name, with any settings and directories; 2 scopes, nested and looping containers, a file of another scope, a file and a container that share a text, depth 5; 130 000 states | `ListedAreValidated`, `RegisteredHaveCertificate`, `ListedAreServed`, `DepthIsRight`, `PathNamesItsDid`, `FilesAppearUnlessShared` |

Deadlock is not checked where the system may rest: all requests reported, all listings done, the
clock at its bound, the file system mounted, the walk at a file. It is checked in the
runs of `TokenAuth`.

### Bounds, and why they are enough

- *Requests (2).* Queue order, a retry behind a new request, two downloaders that hold one request
  each, a second request for a path, and loss with the process all need two. The theorems of section
  5 cover any number.
- *Attempts.* `MAX_ATTEMPTS` is the code's 4.
- *Entries and cuts (3, 3).* A record is four characters and a line end. Three cuts allow a record
  broken twice, a cut between a record and its line end, and chunks that hold nothing but a line end.
- *Clock.* With `chache_duration = 1` and a clock of 3 values a listing is stored, is served, expires
  and is fetched again; a call may span one tick. `MaxCall`, the longest call, is bounded by
  `chache_duration` (in the code 120 s) because a request of `safeGET` is cut off after 20 s, is not
  repeated (`max_retry = 1` allows no second one), and a call makes one or two. `GET_x509` sets no
  time limit, though it is given one: a login by certificate that hangs is outside that bound.
- *DiDs.* `cache` has one of each type. The container's listing is the one whose entries are filed under
  another scope than their own, and the file's text there is the container's own. Lists of scopes and
  of the DiDs of a scope take the same steps, or fewer; the theorems have them all, any number at once.
- *Lifetimes and clock of tokens.* A token of no seconds is good until the second in which it was
  issued is over, so that with a clock of 2 values it expires once, also between the check of a call
  and its request. In `auth_torn` tokens last 1 or 2 seconds, to tell two apart.
- *One libfuse thread, two logins (`auth`).* The dangling arguments of a login are those of the thread that
  started it: one thread suffices for two logins to find each other's. A third login would find the
  arguments of one of the others. `auth_torn` has two libfuse threads, and the theorems any number.
- *Sizes.* The largest `int` is 3, and the largest size of the run: one bit less and it would wrap.
- *Login.* Output is twice the buffer, so that the client blocks unless the parent reads. One download
  is enough to make the login's copy at the same time, to inherit the terminal, and to leave a token
  at the login's path; two users of one server have two copies and two tokens in one folder. Restarts
  are not bounded. Servers whose names run together with a user's are in `settings_unready` and in
  the proofs.
- *Names.* The letters of `MCMount` make servers, scopes and DiDs equal, or prefixes of each
  other, where the path functions search by substring, or run together to one text. The bound on the depth stops the walk in
  containers that hold each other.
- `ReceiveErrorPage` is bounded to one unfinished page at a time.

Symmetry is used only in `pipeline_safety`, `cache` and `auth`, which have no liveness property. Their
symmetric sets are model values that nothing orders, and they are permuted within each set.

### Fairness

- *Pipeline.* Weak fairness of each downloader's and each notifier's next step. The threads of the
  pools run loops that the operating system keeps scheduled, polls of a queue that is not empty
  return an element, and the client run by `system()` returns. Nothing is assumed of readers, of
  unmounts or of mounts. `Mount` may never happen, and a request lost with the process counts as ended.
- *Login.* Weak fairness of the child, of the login's thread, of the end of a download's client, and
  of a user who answers when asked. The first two are processes that the system keeps running; a
  client ends, by an answer or a time-out. Nothing is assumed of restarts, nor of downloads that
  have yet to start: a restart answers for the login that it ends.
- The other modules have safety properties only.

## 4. Refinement

`DownloadPipeline!ImplementsService` instantiates `DownloadService` with
`target[j] = info[j].path`, `tries[j] = info[j].attempt`, `files = disk` and a status read off
`Issued`, `notified`, `lost` and `info[j].downloaded`. Queues, retries, program counters and the readers' maps disappear:
taking a request, failing and queueing again are stutters, `StartAttempt` is `Try`, `RunClient` is
`Fetch` or a stutter, `Notify` is `Answer`, and a crash is `Drop`. Along this mapping TLC checks the
service with its fairness for one reader (`ImplementsService`) and its safety part for two
(`ImplementsSafety`), and the safety part is proved for any numbers (`ServiceImplemented`).

`OidcLogin` implements `ClientSettings`, with the login as its one login: each step is a step of a
client or a restart, or leaves the files alone. It also implements the safety part of
`TerminalRelay`: a client of a download that ends without having inherited the terminal is a stutter.
Both are proved (`ImplementsSettings`, `ImplementsTerminal`), and the first carries what is proved of
`ClientSettings` over to the composition.

## 5. What is proved

Constants are arbitrary but for the named assumptions of each module, which every run evaluates.

*DownloadPipelineProofs* (any sets of readers, threads, paths, requests):
`TypeCorrect`, `Conservation` (`OnePlace`), `NoLoss` (`NothingLost`), `EarnedReports`, `LoadedServers`. The
inductive invariant `IInv` is

    TypeOK, OnePlace, NothingLost, ReportsAreEarned, OnlyLoadedServers    the properties
    Holding            a thread is idle exactly when it holds nothing
    EndedWereIssued    what was reported or lost had been enqueued
    StageFacts         what the code and the attempts of a request are at each step of a downloader

`ReportsAreEarned` alone is not inductive: at the report one must know that a request that has
`TOO_MANY_ATTEMPTS` has used all of them, which `StageFacts` carries from `StartAttempt` on, through
a queue that also holds requests waiting for a retry. `OnePlace` and `NothingLost` need each other:
a request taken off a queue is nowhere else only if it was in no other place before.

`OneDownloadPerPath` (`OneJobPerPath`) has the hypothesis `OneReader`, that reads are served one at a
time; `pipeline_duplicate` shows that it cannot do without. `MarkInv` says that a path with a request in
flight is marked or about to be marked by the reader that made the request, and that a reader about to
make one has found no mark. It also says that no file enters the cache of open files, as in the code;
a cache hit would take the mark off.

`ServiceImplemented` (`ImplementsSafety`) maps each step: what a step of a worker may do to a request
is a step of the service because that worker alone holds it (`OnePlace`). Beyond `IInv` it needs
`TriedInv`: the client runs for a request that has been tried, and one not yet enqueued has not been.

`WorkIsNotRepeated` (`StepsFall`) is what can be proved towards `EveryJobEnds`. `StepsToGo` counts the
hand-overs that a request may still have before it, from the place it is in and the attempts it has left. No
step of any thread raises it, and each step of a downloader or notifier lowers it for the request it
handles: going round the queue again costs an attempt, and a request that has none left leaves by
`TOO_MANY_ATTEMPTS`, for which `StageFacts` is needed again. `Places` says what the count is at each
place; `OthersStay` and `StepsFrame` that it stays for all other requests. `WorkIsBounded` adds that it
starts at 25.

*ListingStreamProofs* (any threads, names, lengths of a listing and cuts): `TypeCorrect`; `NothingStays`
(`NothingLeftOver`), also when threads list at once; `Merged` (`Reassembled`), as long as no two lists of DiDs
are parsed at the same time (`OneAtATime`; `listing_shared` shows that this is needed); `ScopesListed`
(`WholeScopesListed`). The invariants are

    Sent           a thread parses what the server sent for what it lists
    Waiting        a remainder belongs to a thread whose last piece ended inside a record
    Reassembling   the entries found are the records up to the thread's place, and the remainder is
                   the part of a record before that place
    Scoped         an uncut list of scopes has no entries before its chunk, and all after it

They rest on lemmas about the text itself: every position is at one of five places of one line, a
piece goes from one place of a line to a later one of the same line, and what `coherentize_dids` makes of
it is read off these two places. For lists of scopes the lemmas say where an entry begins and ends.

*ListingCacheProofs* (any number of threads, directories and DiDs, any durations with
`MaxCall <= chache_duration`): `FreshAnswers`, `KnownEntries`, `TypeCorrect`, `GivenKinds`, `GivenSizes`.
`IInv` adds to the properties

    ListingInv   a listing expires at most chache_duration after the server sent it
    ClockInv     a call in progress began at most MaxCall ago
    BrokenInv    only a thread that fills has records to parse or to record
    FillInv      a thread that fills got its listing after its call began, and the records it has
                 done with are known
    AnswerInv    a thread about to answer finds a listing that is fresh enough for its own call
    AskInv       only entries of directories of DiDs are asked about

`AnswerInv` is the crux. Between a thread's check and its answer another thread may store an older
reply over the listing it saw; that reply is still fresh for it, because the other call lasted at
most `MaxCall`.

`GivenKinds` and `GivenSizes` say of every entry that it is what the server says of *a* DiD whose scope, or
the scope of a directory that holds it, runs together with its name to the entry's text. That much holds
for colliding names and for containers with DiDs of other scopes; that it is the DiD one asks about does
not: a file of another scope in a container is filed under the container's, where a container of that
name is then taken for a file. Both speak of the time before a text is appended to
another's in the shared remainder (`crossed`): after that the code may file any kind and size under any
name (`listing_shared` has such records), and the model does. Until then failures, error pages, cuts and
other calls change nothing, by two more invariants:

    Alone        a thread that has put a piece aside finds that piece alone in the remainder
    OwnRecords   what a thread has yet to parse or to record was sent for its directory

The key of an error page that is taken for a record, a scope without a name, is left out.

*TokenAuthProofs* (any number of users, libfuse threads and login threads, any modes, lifetimes and missing
headers; no hypothesis): `TypeCorrect`; `TokensStayWithTheirServers` (`OwnTokenUnlessOidc`); `OkTokens`
(`OidcOkMeansToken`).

    LoginInv     what a login thread finds in its arguments are users of OpenID Connect
    OwnInv       every token kept, about to be written or sent is one that its user may come by:
                 his own, or, of two users of OpenID Connect, the other's
    OkInv        what is about to be written for a user of OpenID Connect is a token, so that one
                 that is there stays, whichever threads write over it

The stronger claims, that a request never carries another user's token and that success always means
a token, are false of the code and of the model (section 7): two logins of one libfuse thread suffice
for the token of one user of OpenID Connect to be kept and sent as another's, since a login thread reads
its arguments from a stack frame that has been left.

*ClientSettingsProofs* (any servers, folders, users, downloads and logins; hypothesis `Assumption`):
`TypeCorrect`, `CompleteCopies`, `OwnTokens`. `IInv` adds to the properties

    WorkInv      a copy without settings, or without a token path, that no thread gave up on has a
                 thread at work on it that will add them
    WriterInv    all that a copy holds was written for calls that have this copy
    TokenInv     a token at a path that is one call's alone is that call's, or no token at all
    ReturnInv    a login that holds a token has not begun another call

`WorkInv` is why any number of threads may empty and write one copy at once: whoever empties it is
still there to fill it and to add the line. It needs that what is behind the settings stays when the
same settings are written over them (`Kept`).

*OidcLoginProofs*: the two implementations; by the first, `CompleteCopies` and `OwnTokens` for the
login on the pseudo-terminal; `TypeCorrect`; and `NothingLeftBehind`, the safe half of
`OutputReachesCaller`. The first come through an instance of `ClientSettingsProofs`; `SameSpec` says
that this instance and the one of `OidcLogin` are the same specification. The other two need three
more invariants:

    TerminalInv  at most one line is under way, to a client that waits for it, and it may wait
                 only if the user has lines left
    LoginInv     the child runs exactly while its client is between its first step and its end, and
                 one that exited well leaves its token to be read
    RelayInv     what is printed is relayed or in the terminal, nothing before there is a client;
                 when the copying is over, the client is too and left nothing in the terminal

*MountProofs* (any files, servers and directories): `ValidatedServers`, `CertifiedServers`. `IInv` adds the types and `ParseInv`: a file that is parsed has been read, its server
is registered while it is validated, and it logs in after it answered. Without the first a file could
be registered for a server and still be about to be read.

*WalkProofs* (any servers and catalogue; `TreeAssumption`: servers, scopes and DiDs have names that a
directory can list, a container holds DiDs of the catalogue, and no DiD is both file and container):
`DepthsAreRight`, `PathsNameTheirDids`, `FilesStayFiles`, `ListingsAreServed`. The path functions search texts for
substrings, so the lemmas first say what each makes of a path that is put together from names, also
where one name contains another. `WalkInv` says where a walk may be: at the root, at a listed server, at
a scope of it, or below, where the scope in the path is the one the first DiD was listed in, the last
name is the last DiD's, and each DiD has lengthened the path by one name. `FilesStayFiles`
(`FilesAppearUnlessShared`) follows: the text that the kind is looked up under is that of the DiD walked to. `ListedAreServed` needs in
addition, from `MountProofs`, that a listed server is registered.

*Only model-checked:* liveness (`EveryJobEnds`, `OutputReachesCaller`, `LoginEnds`) and the fairness of
`ImplementsService`, which are beyond the prover. Of `EveryJobEnds` the prover has `WorkIsNotRepeated` and
`WorkIsBounded`; that the pools always have a step to take, and take it, is left to TLC. Of `OutputReachesCaller` it has
`NothingLeftBehind`: no output is left when the copying ends; that the parent goes on copying until then
is left to TLC. Every invariant that a passing run checks is proved.

## 6. Disagreements between the code and what it says of itself

Each is a run that TLC must find violated, with the quoted line in `PROJECT.json` (`findings`).
Section 7 names others, which the properties are stated around.

- `pipeline_duplicate`: two reads of one path both find it unmarked and both enqueue it. With reads
  one at a time it does not happen (`pipeline_service`).
- `listing_shared`: two threads that list at once mix their records through the one remainder.
- `auth_torn`: two renewals of one token leave the expiry of one reply with the token of the other.
- `relay_no_input`: the end of the caller's standard input stops the copying of the client's output
  too; the client then blocks on its full terminal while the parent waits for it.
- `settings_unready`: a copy of the settings is used as soon as it exists. A client may start while
  another thread has only created the file, after a process that ended halfway has left it empty, or
  on settings that have been edited since.

## 7. Limits of the properties

The following is in the model, as in the code, and the properties are stated around it.

- The mark of a download is removed only by a cache hit, and nothing enters the cache of open files
  (`add_file` has no caller): after its download a path still answers `EINPROGRESS`.
- A file that is found counts as downloaded whatever the client answered, also an old or partial one.
- After an error page its text stays in the remainder and spoils a record of a later listing;
  `Reassembled` and `NothingLeftOver` speak of the time before. A list of scopes that is cut loses
  characters at each cut; `WholeScopesListed` speaks of uncut ones.
- The HTTP status is not looked at: an error page is stored as a listing with one nameless entry. A
  failed request makes `rucio_is_container` answer "file"; the cache is not touched.
- Server, scope and name run together to a key, so that DiD `bc` of scope `a` and DiD `c` of scope
  `ab` share one; and what a container holds is filed under the container's scope, so that a file
  of another scope shares one with a DiD of its name there. A file may appear as a directory, or a
  container as a file, against `src/README.md:17-18`. `KindsAreGiven`,
  `SizesAreGiven` and `FilesAppearUnlessShared` say what is left: an entry is that of some DiD of its text.
- When two texts have met in the shared remainder, kinds and sizes may be any (`crossed`); of what is
  then recorded only `ListedIsKnown` and `AnswersAreFresh` speak. Two texts meet when two listings
  are cut at once, or when an error page is followed by a cut record.
- For passwords and certificates a reply without a token is a success: the message "didn't provide
  token. Aborting!" is in a branch that such a reply does not reach, the invalid token is stored and
  `TOKEN_OK` returned. `OidcOkMeansToken` speaks of OpenID Connect, where it is not so.
- A login thread that starts late finds the arguments of its caller's next login, so that tokens of two
  users of OpenID Connect may be mixed up. `OwnTokenUnlessOidc` keeps it to them.
- A size that an `int` does not hold comes out wrapped; `SizesAreGiven` speaks of those it holds.
- A copy on which a thread gave up (an exception, a write that failed unnoticed, the end of the
  process) stays as it is; `CopiesAreComplete` leaves it out, and `settings_unready` meets it. Where
  server and user names run together to one file name, or servers share a folder, copies and tokens
  are shared; the two properties claim what is a call's own only where they are not.
- A token left by an earlier login is returned by one whose client left none.
- A server that fails its validation stays registered though it is not listed.
- `R_OK & W_OK` is 0, so `check_permissions` asks whether a directory exists and not, as its comment says,
  whether it may be read and written; the file system is mounted on one that may not.
- What is handed to the write to the caller counts as relayed: the code ignores how much of it was
  written, and a short or failed write loses the rest.
- The scope of a path is its second component, also below a container that holds DiDs of another
  scope; a name that begins with a dot is listed and gets no answer; nothing stops the walk in
  containers that hold each other. `PathNamesItsDid` and `FilesAppearUnlessShared` speak of walks in
  one scope, `ListedAreServed` of names that are not hidden, and the run has all of these.

## 8. What is not modelled

- The decoding of JSON web tokens (that it fails is modelled); the command line and the parsing of a
  settings line; curl's options; the headers of a reply; logging.
- Reading a cached file (`get_file`, seek, read): no state of the program reaches it.
- `rucio_get_replicas_metalinks` and `rucio_is_file`: no callback reaches them.
- In `Namespace`, lists of scopes that do not come, error pages and mixed records: what they do is in
  `ListingStream` and `ListingCache`. An error page is taken for one record or for none.
- A reply to a single request that comes in several pieces, and memory errors of unlocked maps.
- The relay with no standard output: its parent then waits for a client that nobody reads, as in
  `relay_no_input`. `TerminalRelay` has it (`Stdouts`); no run does.
- More than one login on pseudo-terminals at once: `ClientSettings` has any number of logins, and
  `TerminalRelay` the processes they would start among its holders.
- The rescaling of the external thread pools; tests, build, packaging.

## 9. Plan

The order was: the pipeline and its service; the parser; the caches; the authentication; the relay;
the startup; the namespace; the settings; the compositions `OidcLogin` and `Mount`; proofs of the
pipeline and its service, the parser, the caches, the authentication, the settings, the startup and
the walk. Left to do:

1. `ListingCache` with `TokenAuth`, so that a refused request is one without a token, and what then
   is cached is stated of both.
2. `TokenAuth` with `OidcLogin`: the login threads of one user among each other.
3. The rescaling of the pools, as downloaders that come and go, if the external library's contract
   can be read from its use.
