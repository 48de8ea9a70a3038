--------------------------- MODULE DownloadPipeline ---------------------------
(******************************************************************************)
(* The read path of the file system up to the answer it gives at this commit, *)
(* and the download pipeline behind it:                                       *)
(*                                                                            *)
(*   rucio_read threads --append--> toDownload --> downloaders --+            *)
(*                                      ^                        |            *)
(*                                      +--- failed, try again --+            *)
(*                                                               |            *)
(*                    notifiers <-- downloaded <-- done or given up           *)
(*                                                                            *)
(* libfuse runs rucio_read on several threads, and each stage of the pipeline *)
(* is a pool of threads.  A request is copied from queue to stage to queue;   *)
(* only one copy is ever live, so `info[j]' holds the fields of request j and *)
(* the queues hold request identities.                                        *)
(******************************************************************************)
EXTENDS Naturals, Sequences, Functions

CONSTANTS
  Readers,      \* libfuse threads that run rucio_read
  Downloaders,  \* threads of the first stage
  Notifiers,    \* threads of the second stage
  Paths,        \* file paths under the mountpoint
  Loaded,       \* the paths whose server is in rucio_server_map
  Jobs,         \* request identities: how many requests a behaviour may make
  None,         \* no path, no request
  NullFclose    \* what fclose(nullptr) may do: "crash", "survive"

ASSUME PathsAssumption == Loaded \subseteq Paths /\ None \notin Paths
ASSUME JobsAssumption == None \notin Jobs
ASSUME NullFcloseAssumption == NullFclose \subseteq {"crash", "survive"}

MAX_ATTEMPTS == 4

FILE_NOT_FOUND == 1
SERVER_NOT_FOUND == 2
TOO_MANY_ATTEMPTS == 8
SETTINGS_NOT_FOUND == 16

VARIABLES
  up,           \* the file system process is running
  rpc,          \* where each reader is in rucio_read
  rpath,        \* the path each reader was called with
  downloading,  \* keys of downloading_status_cache
  cache,        \* keys of rucio_download_cache
  toDownload,   \* input queue of the pipeline
  downloaded,   \* queue between the downloaders and the notifiers
  info,         \* fields of the live rucio_download_info of each request
  wpc,          \* where each downloader is in its stage's loop
  wjob,         \* the request each downloader holds
  njob,         \* the request each notifier holds
  disk,         \* files in the cache directory; they outlive the process
  notified,     \* history: requests a notifier has reported
  lost          \* history: requests that died with the process

reader == <<rpc, rpath, downloading, cache>>
worker == <<wpc, wjob>>
history == <<notified, lost>>
vars == <<up, reader, toDownload, downloaded, info, worker, njob, disk, history>>

--------------------------------------------------------------------------------
(* Requests *)

Codes == {0, FILE_NOT_FOUND, SERVER_NOT_FOUND, TOO_MANY_ATTEMPTS, SETTINGS_NOT_FOUND}

Info == [path : Paths \cup {None}, attempt : 0 .. MAX_ATTEMPTS,
         code : Codes, downloaded : BOOLEAN]

NewInfo(p) == [path |-> p, attempt |-> 0, code |-> 0, downloaded |-> FALSE]

Issued == {j \in Jobs : info[j].path # None}
InFlight == Issued \ (notified \cup lost)

--------------------------------------------------------------------------------
(* rucio_read *)

Init ==
  /\ up = TRUE
  /\ rpc = [t \in Readers |-> "idle"]
  /\ rpath = [t \in Readers |-> None]
  /\ downloading = {}
  /\ cache = {}
  /\ toDownload = <<>>
  /\ downloaded = <<>>
  /\ info = [j \in Jobs |-> NewInfo(None)]
  /\ wpc = [w \in Downloaders |-> "idle"]
  /\ wjob = [w \in Downloaders |-> None]
  /\ njob = [n \in Notifiers |-> None]
  /\ disk = {}
  /\ notified = {}
  /\ lost = {}

\* Mutant: the reader is not authenticated.
AuthenticationSkipped(p) == p \in Paths

\* authenticate_user fails unless the server of the path is in the server map.
Authenticated(p) == p \in Loaded

BeginRead(t, p) ==
  /\ up
  /\ rpc[t] = "idle"
  /\ Authenticated(p)
  /\ rpc' = [rpc EXCEPT ![t] = "lookup"]
  /\ rpath' = [rpath EXCEPT ![t] = p]
  /\ UNCHANGED <<up, downloading, cache, toDownload, downloaded, info, worker,
                 njob, disk, history>>

LookupCache(t) ==
  /\ up
  /\ rpc[t] = "lookup"
  /\ LET hit == rpath[t] \in cache IN
       /\ rpc' = [rpc EXCEPT ![t] = IF hit THEN "idle" ELSE "check"]
       /\ rpath' = IF hit THEN [rpath EXCEPT ![t] = None] ELSE rpath
       /\ downloading' = IF hit THEN downloading \ {rpath[t]} ELSE downloading
  /\ UNCHANGED <<up, cache, toDownload, downloaded, info, worker, njob,
                 disk, history>>

\* thread_safe_unordered_map takes no lock, so an operation that overlaps
\* another thread's emplace may not see what the map holds.
EmplaceUnderWay(t) == \E u \in Readers \ {t} : rpc[u] = "mark"

\* Mutant: the mark is looked for in the cache of open files.
MarkSoughtInCache(p) == p \in cache

IsDownloading(p) == p \in downloading

\* A hit answers -EINPROGRESS, a miss goes on to enqueue the path.
CheckDownloading(t) ==
  /\ up
  /\ rpc[t] = "check"
  /\ \/ /\ IsDownloading(rpath[t])
        /\ rpc' = [rpc EXCEPT ![t] = "idle"]
        /\ rpath' = [rpath EXCEPT ![t] = None]
     \/ /\ ~IsDownloading(rpath[t]) \/ EmplaceUnderWay(t)
        /\ rpc' = [rpc EXCEPT ![t] = "append"]
        /\ UNCHANGED rpath
  /\ UNCHANGED <<up, downloading, cache, toDownload, downloaded, info,
                 worker, njob, disk, history>>

AppendNewDownload(t, j) ==
  /\ up
  /\ rpc[t] = "append"
  /\ j \notin Issued
  /\ info' = [info EXCEPT ![j] = NewInfo(rpath[t])]
  /\ toDownload' = Append(toDownload, j)
  /\ rpc' = [rpc EXCEPT ![t] = "mark"]
  /\ UNCHANGED <<up, rpath, downloading, cache, downloaded, worker, njob, disk,
                 history>>

\* set_downloading, then -EAGAIN.  Of two overlapping insertions one may be lost.
SetDownloading(t) ==
  /\ up
  /\ rpc[t] = "mark"
  /\ \/ downloading' = downloading \cup {rpath[t]}
     \/ EmplaceUnderWay(t) /\ downloading' = downloading
  /\ rpc' = [rpc EXCEPT ![t] = "idle"]
  /\ rpath' = [rpath EXCEPT ![t] = None]
  /\ UNCHANGED <<up, cache, toDownload, downloaded, info, worker, njob, disk,
                 history>>

--------------------------------------------------------------------------------
(* The process: leaving it for whatever reason forgets everything but the disk *)

ProcessGone ==
  /\ up' = FALSE
  /\ rpc' = [t \in Readers |-> "idle"]
  /\ rpath' = [t \in Readers |-> None]
  /\ downloading' = {}
  /\ cache' = {}
  /\ toDownload' = <<>>
  /\ downloaded' = <<>>
  /\ wpc' = [w \in Downloaders |-> "idle"]
  /\ wjob' = [w \in Downloaders |-> None]
  /\ njob' = [n \in Notifiers |-> None]
  /\ lost' = lost \cup InFlight
  /\ UNCHANGED <<info, disk, notified>>

Stop == up /\ ProcessGone

Mount ==
  /\ ~up
  /\ up' = TRUE
  /\ UNCHANGED <<reader, toDownload, downloaded, info, worker, njob, disk, history>>

--------------------------------------------------------------------------------
(* First stage: the loop of rucio_downloader *)

PollJob(w) ==
  /\ up
  /\ wpc[w] = "idle"
  /\ toDownload # <<>>
  /\ wjob' = [wjob EXCEPT ![w] = Head(toDownload)]
  /\ toDownload' = Tail(toDownload)
  /\ wpc' = [wpc EXCEPT ![w] = "start"]
  /\ UNCHANGED <<up, reader, downloaded, info, njob, disk, history>>

\* Mutants: one attempt too many, one attempt too few.
OneAttemptMore(j) == info[j].attempt <= MAX_ATTEMPTS /\ info[j].code # SETTINGS_NOT_FOUND
OneAttemptLess(j) == info[j].attempt + 1 < MAX_ATTEMPTS /\ info[j].code # SETTINGS_NOT_FOUND

AttemptsLeft(j) == info[j].attempt < MAX_ATTEMPTS /\ info[j].code # SETTINGS_NOT_FOUND

\* rucio_download_wrapper up to the call of the client.  copyConfig may throw:
\* the code is recorded and the client is run all the same.
StartAttempt(w) ==
  LET j == wjob[w] IN
  /\ up
  /\ wpc[w] = "start"
  /\ \/ /\ info[j].path \notin Loaded
        /\ info' = [info EXCEPT ![j].code = SERVER_NOT_FOUND]
        /\ wpc' = [wpc EXCEPT ![w] = "output"]
     \/ /\ info[j].path \in Loaded
        /\ AttemptsLeft(j)
        /\ \/ info' = [info EXCEPT ![j].attempt = @ + 1]
           \/ info' = [info EXCEPT ![j].attempt = @ + 1,
                                   ![j].code = SETTINGS_NOT_FOUND,
                                   ![j].downloaded = FALSE]
        /\ wpc' = [wpc EXCEPT ![w] = "client"]
     \/ /\ info[j].path \in Loaded
        /\ ~AttemptsLeft(j)
        /\ info' = [info EXCEPT ![j].code = TOO_MANY_ATTEMPTS,
                                ![j].downloaded = FALSE]
        /\ wpc' = [wpc EXCEPT ![w] = "output"]
  /\ UNCHANGED <<up, reader, toDownload, downloaded, wjob, njob, disk, history>>

\* system(): the rucio client.  It may leave the file, and cannot without settings.
RunClient(w) ==
  LET j == wjob[w] IN
  /\ up
  /\ wpc[w] = "client"
  /\ \/ info[j].code # SETTINGS_NOT_FOUND /\ disk' = disk \cup {info[j].path}
     \/ disk' = disk
  /\ wpc' = [wpc EXCEPT ![w] = "verify"]
  /\ UNCHANGED <<up, reader, toDownload, downloaded, info, wjob, njob, history>>

\* Mutant: the file is not looked for.
FileTakenForGranted(j) == TRUE

FileOnDisk(j) == info[j].path \in disk

\* The client's status is not looked at: whatever file is there counts.
FileFound(w) ==
  LET j == wjob[w] IN
  /\ up
  /\ wpc[w] = "verify"
  /\ FileOnDisk(j)
  /\ info' = [info EXCEPT ![j].code = 0, ![j].downloaded = TRUE]
  /\ wpc' = [wpc EXCEPT ![w] = "output"]
  /\ UNCHANGED <<up, reader, toDownload, downloaded, wjob, njob, disk, history>>

\* fclose(nullptr) comes before the failure is recorded.
FileMissing(w) ==
  LET j == wjob[w] IN
  /\ up
  /\ wpc[w] = "verify"
  /\ ~FileOnDisk(j)
  /\ \/ "crash" \in NullFclose /\ ProcessGone
     \/ /\ "survive" \in NullFclose
        /\ info' = [info EXCEPT ![j].code = FILE_NOT_FOUND, ![j].downloaded = FALSE]
        /\ wpc' = [wpc EXCEPT ![w] = "output"]
        /\ UNCHANGED <<up, reader, toDownload, downloaded, wjob, njob, disk, history>>

\* Mutants: giving up is not told from failing; any failure is final.
FinishedIfDownloaded(j) == info[j].downloaded

FinishedOnAnyCode(j) == info[j].downloaded \/ info[j].code # 0

Finished(j) == info[j].downloaded \/ info[j].code = TOO_MANY_ATTEMPTS

\* Mutants: a failed request goes to both queues, or to neither.
RouteToBoth(j) ==
  /\ downloaded' = Append(downloaded, j)
  /\ toDownload' = IF Finished(j) THEN toDownload ELSE Append(toDownload, j)

RouteWithoutRetry(j) ==
  /\ downloaded' = IF Finished(j) THEN Append(downloaded, j) ELSE downloaded
  /\ UNCHANGED toDownload

Route(j) ==
  IF Finished(j)
    THEN downloaded' = Append(downloaded, j) /\ UNCHANGED toDownload
    ELSE toDownload' = Append(toDownload, j) /\ UNCHANGED downloaded

HandleOutput(w) ==
  /\ up
  /\ wpc[w] = "output"
  /\ Route(wjob[w])
  /\ wpc' = [wpc EXCEPT ![w] = "idle"]
  /\ wjob' = [wjob EXCEPT ![w] = None]
  /\ UNCHANGED <<up, reader, info, njob, disk, history>>

--------------------------------------------------------------------------------
(* Second stage: the loop of rucio_notifier *)

PollDownloaded(n) ==
  /\ up
  /\ njob[n] = None
  /\ downloaded # <<>>
  /\ njob' = [njob EXCEPT ![n] = Head(downloaded)]
  /\ downloaded' = Tail(downloaded)
  /\ UNCHANGED <<up, reader, toDownload, info, worker, disk, history>>

Notify(n) ==
  /\ up
  /\ njob[n] # None
  /\ notified' = notified \cup {njob[n]}
  /\ njob' = [njob EXCEPT ![n] = None]
  /\ UNCHANGED <<up, reader, toDownload, downloaded, info, worker, disk, lost>>

--------------------------------------------------------------------------------
(* Specifications *)

ReadStep(t) ==
  \/ \E p \in Paths : BeginRead(t, p)
  \/ LookupCache(t)
  \/ CheckDownloading(t)
  \/ \E j \in Jobs : AppendNewDownload(t, j)
  \/ SetDownloading(t)

DownloadStep(w) ==
  \/ PollJob(w)
  \/ StartAttempt(w)
  \/ RunClient(w)
  \/ FileFound(w)
  \/ FileMissing(w)
  \/ HandleOutput(w)

NotifyStep(n) == PollDownloaded(n) \/ Notify(n)

Next ==
  \/ \E t \in Readers : ReadStep(t)
  \/ \E w \in Downloaders : DownloadStep(w)
  \/ \E n \in Notifiers : NotifyStep(n)
  \/ Stop
  \/ Mount

Spec == Init /\ [][Next]_vars

\* The pools keep their threads scheduled, and every client process returns.
Fairness ==
  /\ \A w \in Downloaders : WF_vars(DownloadStep(w))
  /\ \A n \in Notifiers : WF_vars(NotifyStep(n))

FairSpec == Spec /\ Fairness

--------------------------------------------------------------------------------
(* Properties *)

\* Types of the variables: of the request fields, the threads' program counters
\* and what they hold (rucio_download_info, rucio_read, the stage loops).
TypeOK ==
  /\ up \in BOOLEAN
  /\ rpc \in [Readers -> {"idle", "lookup", "check", "append", "mark"}]
  /\ rpath \in [Readers -> Loaded \cup {None}]
  /\ downloading \subseteq Loaded
  /\ cache \subseteq Paths
  /\ toDownload \in Seq(Jobs)
  /\ downloaded \in Seq(Jobs)
  /\ info \in [Jobs -> Info]
  /\ wpc \in [Downloaders -> {"idle", "start", "client", "verify", "output"}]
  /\ wjob \in [Downloaders -> Jobs \cup {None}]
  /\ njob \in [Notifiers -> Jobs \cup {None}]
  /\ disk \subseteq Paths
  /\ notified \subseteq Jobs
  /\ lost \subseteq Jobs

HeldByDownloader == {wjob[w] : w \in Downloaders} \ {None}
HeldByNotifier == {njob[n] : n \in Notifiers} \ {None}

\* A request is in at most one place, once: handing it from queue to stage to
\* queue never duplicates it, across two queues and two pools of threads.
OnePlace ==
  /\ IsInjective(toDownload) /\ IsInjective(downloaded)
  /\ \A v, w \in Downloaders : wjob[v] = wjob[w] /\ wjob[v] # None => v = w
  /\ \A m, n \in Notifiers : njob[m] = njob[n] /\ njob[m] # None => m = n
  /\ Range(toDownload) \cap HeldByDownloader = {}
  /\ Range(downloaded) \cap HeldByNotifier = {}
  /\ (Range(toDownload) \cup HeldByDownloader)
       \cap (Range(downloaded) \cup HeldByNotifier) = {}

\* No request is dropped on the way, and none is handled again once reported: the
\* requests made and neither reported nor gone with the process are exactly those
\* in a queue or in the hands of a thread.
NothingLost ==
  InFlight = Range(toDownload) \cup HeldByDownloader
               \cup Range(downloaded) \cup HeldByNotifier

Earned(j) ==
  \/ info[j].downloaded /\ info[j].code = 0 /\ info[j].path \in disk
  \/ /\ ~info[j].downloaded
     /\ info[j].code = TOO_MANY_ATTEMPTS /\ info[j].attempt = MAX_ATTEMPTS

\* A request reaches the notifiers only with its file in the cache directory, or
\* after MAX_ATTEMPTS runs of the client and the code that says so: a retry that
\* went round the queue neither loses nor gains an attempt.
ReportsAreEarned ==
  \A j \in Range(downloaded) \cup HeldByNotifier \cup notified : Earned(j)

\* A request for a server that is not loaded would go round the input queue for
\* ever, since its attempts are not counted; none is ever made.
OnlyLoadedServers == \A j \in Issued : info[j].path \in Loaded /\ info[j].code # SERVER_NOT_FOUND

\* If a file is downloading its path is not enqueued again.
OneJobPerPath ==
  \A i, j \in InFlight : info[i].path = info[j].path => i = j

\* How many hand-overs a request still has before it, at the most: five to an attempt
\* (polled, started, run, looked for, put back), three to give it up, two to report it.
AttemptsToGo(j) == MAX_ATTEMPTS - info[j].attempt

HeldAt(j, stage) == \E w \in Downloaders : wjob[w] = j /\ wpc[w] = stage

StepsToGo(j) ==
  IF j \notin InFlight THEN 0
  ELSE IF j \in HeldByNotifier THEN 1
  ELSE IF j \in Range(downloaded) THEN 2
  ELSE IF HeldAt(j, "output") /\ Finished(j) THEN 3
  ELSE 5 * AttemptsToGo(j)
         + (IF HeldAt(j, "start") THEN 4
            ELSE IF HeldAt(j, "output") THEN 6
            ELSE IF HeldAt(j, "verify") THEN 7
            ELSE IF HeldAt(j, "client") THEN 8
            ELSE 5)

PipelineStep ==
  \/ \E w \in Downloaders : DownloadStep(w)
  \/ \E n \in Notifiers : NotifyStep(n)

\* Work done is never done again: no step takes a request further from its end, whichever
\* thread takes it, and each step of a pool takes one nearer.  With it a request is handed
\* on a bounded number of times, however often it is put back (handle_output).
StepsFall ==
  [][ /\ \A j \in Issued : StepsToGo(j)' <= StepsToGo(j)
      /\ PipelineStep => \E j \in InFlight : StepsToGo(j)' < StepsToGo(j) ]_vars

\* Whatever happens, a request that was made is reported or goes with the process.
EveryJobEnds == \A j \in Jobs : j \in Issued ~> j \in notified \cup lost

--------------------------------------------------------------------------------
(* The promise this pipeline keeps *)

ServiceStatus ==
  [j \in Jobs |->
     IF j \in lost THEN "lost"
     ELSE IF j \notin Issued THEN "new"
     ELSE IF j \notin notified THEN "pending"
     ELSE IF info[j].downloaded THEN "ok" ELSE "failed"]

Service == INSTANCE DownloadService WITH
  MaxTries <- MAX_ATTEMPTS,
  target <- [j \in Jobs |-> info[j].path],
  tries <- [j \in Jobs |-> info[j].attempt],
  status <- ServiceStatus,
  files <- disk

\* Whatever the threads do, each step of queues, retries and pools is a step of the plain
\* service or none: no request is answered twice, "ok" without its file, or "failed"
\* before its last attempt.
ImplementsSafety == Service!Safety

\* The pipeline of queues, retries and thread pools implements the plain service, and
\* comes to an answer as it does.
ImplementsService == Service!Spec
================================================================================
