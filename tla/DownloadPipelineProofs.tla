------------------------ MODULE DownloadPipelineProofs ------------------------
(******************************************************************************)
(* Proofs that the download pipeline keeps its invariants for any number of   *)
(* readers, downloaders, notifiers, paths and requests.                       *)
(******************************************************************************)
EXTENDS DownloadPipeline, SequenceTheorems, TLAPS

--------------------------------------------------------------------------------
(* Queues *)

LEMMA AppendFresh ==
  ASSUME NEW S, NEW s \in Seq(S), NEW e \in S, IsInjective(s), e \notin Range(s)
  PROVE  /\ Append(s, e) \in Seq(S)
         /\ IsInjective(Append(s, e))
         /\ Range(Append(s, e)) = Range(s) \cup {e}
<1>1. /\ Append(s, e) \in Seq(S)
      /\ Len(Append(s, e)) = Len(s) + 1
      /\ \A i \in 1 .. Len(s) : Append(s, e)[i] = s[i]
      /\ Append(s, e)[Len(s) + 1] = e
  BY AppendProperties
<1>2. DOMAIN s = 1 .. Len(s) /\ DOMAIN Append(s, e) = 1 .. Len(s) + 1 /\ Len(s) \in Nat
  BY <1>1, LenProperties
<1>3. Range(Append(s, e)) = Range(s) \cup {e}
  BY <1>1, <1>2 DEF Range
<1>4. IsInjective(Append(s, e))
  BY <1>1, <1>2 DEF IsInjective, Range
<1>5. QED  BY <1>1, <1>3, <1>4

LEMMA TakeHead ==
  ASSUME NEW S, NEW s \in Seq(S), s # <<>>, IsInjective(s)
  PROVE  /\ Tail(s) \in Seq(S)
         /\ IsInjective(Tail(s))
         /\ Head(s) \in S
         /\ Head(s) \in Range(s)
         /\ Range(Tail(s)) = Range(s) \ {Head(s)}
<1>1. /\ Head(s) \in S
      /\ Tail(s) \in Seq(S)
      /\ Len(Tail(s)) = Len(s) - 1
      /\ \A i \in 1 .. Len(Tail(s)) : Tail(s)[i] = s[i + 1]
  BY HeadTailProperties
<1>2. Head(s) = s[1] /\ Len(s) \in Nat /\ Len(s) > 0
  BY EmptySeq, LenProperties
<1>3. DOMAIN s = 1 .. Len(s) /\ DOMAIN Tail(s) = 1 .. Len(s) - 1
  BY <1>1, LenProperties
<1>4. IsInjective(Tail(s))
  BY <1>1, <1>2, <1>3 DEF IsInjective
<1>5. Range(Tail(s)) = Range(s) \ {Head(s)}
  <2>1. ASSUME NEW x \in Range(Tail(s))  PROVE x \in Range(s) \ {Head(s)}
    BY <1>1, <1>2, <1>3 DEF IsInjective, Range
  <2>2. ASSUME NEW x \in Range(s), x # Head(s)  PROVE x \in Range(Tail(s))
    <3>1. PICK i \in 1 .. Len(s) : x = s[i]
      BY <1>3 DEF Range
    <3>2. i - 1 \in 1 .. Len(Tail(s)) /\ Tail(s)[i - 1] = x
      BY <1>1, <1>2, <3>1, <2>2
    <3>3. QED  BY <1>1, <1>3, <3>2 DEF Range
  <2>3. QED  BY <2>1, <2>2
<1>6. Head(s) \in Range(s)
  BY <1>2, <1>3 DEF Range
<1>7. QED  BY <1>1, <1>4, <1>5, <1>6

--------------------------------------------------------------------------------
(* The inductive invariant *)

\* A thread holds something exactly when it is not idle.
Holding ==
  /\ \A t \in Readers : rpc[t] = "idle" <=> rpath[t] = None
  /\ \A w \in Downloaders : wpc[w] = "idle" <=> wjob[w] = None

\* Only requests that were made end.
EndedWereIssued == notified \cup lost \subseteq Issued

\* A request that waits for an attempt: its code never forbids one.
Waiting(j) == ~info[j].downloaded /\ info[j].code \in {0, FILE_NOT_FOUND}

\* What each step of a downloader may find in the request it holds.
StageFacts ==
  /\ \A j \in Range(toDownload) : Waiting(j)
  /\ \A w \in Downloaders :
       /\ wpc[w] = "start" => Waiting(wjob[w])
       /\ wpc[w] \in {"client", "verify"} =>
            /\ ~info[wjob[w]].downloaded
            /\ info[wjob[w]].code \in {0, FILE_NOT_FOUND, SETTINGS_NOT_FOUND}
       /\ wpc[w] = "output" => Waiting(wjob[w]) \/ Earned(wjob[w])

IInv ==
  /\ TypeOK
  /\ Holding
  /\ OnePlace /\ NothingLost /\ EndedWereIssued
  /\ StageFacts /\ ReportsAreEarned /\ OnlyLoadedServers

\* What a busy downloader holds is a request in flight, for a loaded server.
LEMMA HeldByWorker ==
  ASSUME IInv, NEW w \in Downloaders, wpc[w] # "idle"
  PROVE  /\ wjob[w] \in Jobs /\ wjob[w] # None
         /\ wjob[w] \in HeldByDownloader
         /\ wjob[w] \in InFlight
         /\ info[wjob[w]] \in Info
         /\ info[wjob[w]].path \in Loaded
         /\ info[wjob[w]].code # SERVER_NOT_FOUND
<1>1. wjob[w] \in Jobs /\ wjob[w] # None
  BY DEF IInv, TypeOK, Holding
<1>2. wjob[w] \in HeldByDownloader
  BY <1>1 DEF HeldByDownloader
<1>3. wjob[w] \in InFlight
  BY <1>2 DEF IInv, NothingLost
<1>4. QED
  BY <1>1, <1>2, <1>3 DEF IInv, TypeOK, InFlight, Issued, OnlyLoadedServers

THEOREM InitIInv == Init => IInv
<1> SUFFICES ASSUME Init PROVE IInv
  OBVIOUS
<1> USE DEF Init
<1>1. TypeOK
  BY JobsAssumption DEF TypeOK, Info, NewInfo, Codes, MAX_ATTEMPTS
<1>2. Issued = {} /\ HeldByDownloader = {} /\ HeldByNotifier = {}
  BY DEF Issued, NewInfo, HeldByDownloader, HeldByNotifier
<1>3. Range(toDownload) = {} /\ Range(downloaded) = {} /\ IsInjective(toDownload)
        /\ IsInjective(downloaded)
  BY DEF Range, IsInjective
<1>4. OnePlace
  BY <1>2, <1>3 DEF OnePlace
<1>5. Holding /\ NothingLost /\ EndedWereIssued
  BY <1>2, <1>3 DEF Holding, NothingLost, InFlight, EndedWereIssued
<1>6. StageFacts /\ ReportsAreEarned /\ OnlyLoadedServers
  BY <1>2, <1>3 DEF StageFacts, ReportsAreEarned, OnlyLoadedServers
<1>7. QED  BY <1>1, <1>4, <1>5, <1>6 DEF IInv

\* Every field assignment of the wrapper keeps a request well formed.
LEMMA FieldUpdates ==
  ASSUME NEW r \in Info, NEW c \in Codes, NEW b \in BOOLEAN
  PROVE  /\ [r EXCEPT !.code = c] \in Info
         /\ [r EXCEPT !.code = c, !.downloaded = b] \in Info
         /\ r.attempt < MAX_ATTEMPTS => [r EXCEPT !.attempt = @ + 1] \in Info
         /\ r.attempt < MAX_ATTEMPTS =>
              [r EXCEPT !.attempt = @ + 1, !.code = c, !.downloaded = b] \in Info
<1>1. [r EXCEPT !.code = c] \in Info
  BY DEF Info
<1>2. [r EXCEPT !.code = c, !.downloaded = b] \in Info
  BY DEF Info
<1>3. ASSUME r.attempt < MAX_ATTEMPTS
      PROVE  /\ [r EXCEPT !.attempt = @ + 1] \in Info
             /\ [r EXCEPT !.attempt = @ + 1, !.code = c, !.downloaded = b] \in Info
  <2>1. r.attempt + 1 \in 0 .. MAX_ATTEMPTS
    BY <1>3 DEF Info, MAX_ATTEMPTS
  <2>2. [r EXCEPT !.attempt = @ + 1] \in Info
    BY <2>1 DEF Info
  <2>3. [r EXCEPT !.attempt = @ + 1, !.code = c, !.downloaded = b] \in Info
    BY <2>1 DEF Info
  <2>4. QED  BY <2>2, <2>3
<1>4. QED  BY <1>1, <1>2, <1>3

--------------------------------------------------------------------------------
(* Steps preserve the types and what the threads hold *)

LEMMA TypeStep == IInv /\ [Next]_vars => TypeOK' /\ Holding'
<1> SUFFICES ASSUME IInv, [Next]_vars  PROVE TypeOK' /\ Holding'
  OBVIOUS
<1> USE JobsAssumption, PathsAssumption DEF IInv, TypeOK, Holding
<1>1. ASSUME NEW t \in Readers, NEW p \in Paths, BeginRead(t, p)
      PROVE  TypeOK' /\ Holding'
  BY <1>1 DEF BeginRead, Authenticated, worker, history
<1>2. ASSUME NEW t \in Readers, LookupCache(t)
      PROVE  TypeOK' /\ Holding'
  BY <1>2 DEF LookupCache, worker, history
<1>3. ASSUME NEW t \in Readers, CheckDownloading(t)
      PROVE  TypeOK' /\ Holding'
  BY <1>3 DEF CheckDownloading, worker, history
<1>4. ASSUME NEW t \in Readers, NEW j \in Jobs, AppendNewDownload(t, j)
      PROVE  TypeOK' /\ Holding'
  <2>1. NewInfo(rpath[t]) \in Info
    BY <1>4 DEF AppendNewDownload, NewInfo, Info, Codes, MAX_ATTEMPTS
  <2>2. toDownload' \in Seq(Jobs)
    BY <1>4 DEF AppendNewDownload
  <2>3. QED  BY <1>4, <2>1, <2>2 DEF AppendNewDownload, worker, history
<1>5. ASSUME NEW t \in Readers, SetDownloading(t)
      PROVE  TypeOK' /\ Holding'
  BY <1>5 DEF SetDownloading, worker, history
<1>6. ASSUME NEW w \in Downloaders, PollJob(w)
      PROVE  TypeOK' /\ Holding'
  BY <1>6 DEF PollJob, reader, history
<1>7. ASSUME NEW w \in Downloaders, StartAttempt(w)
      PROVE  TypeOK' /\ Holding'
  <2> DEFINE j == wjob[w]
  <2>1. j \in Jobs /\ info[j] \in Info
    BY <1>7, HeldByWorker DEF StartAttempt
  <2> DEFINE Upd(r) == info' = [info EXCEPT ![j] = r]
  <2>a. \E r \in Info : Upd(r)
    <3>1. CASE info[j].path \notin Loaded
      <4>1. Upd([info[j] EXCEPT !.code = SERVER_NOT_FOUND])
        BY <1>7, <3>1 DEF StartAttempt
      <4>2. QED  BY <4>1, <2>1, FieldUpdates DEF Codes
    <3>2. CASE info[j].path \in Loaded /\ AttemptsLeft(j)
      <4>1. \/ Upd([info[j] EXCEPT !.attempt = @ + 1])
            \/ Upd([info[j] EXCEPT !.attempt = @ + 1, !.code = SETTINGS_NOT_FOUND,
                                   !.downloaded = FALSE])
        BY <1>7, <3>2 DEF StartAttempt
      <4>2. info[j].attempt < MAX_ATTEMPTS
        BY <3>2 DEF AttemptsLeft
      <4>3. QED  BY <4>1, <4>2, <2>1, FieldUpdates DEF Codes
    <3>3. CASE info[j].path \in Loaded /\ ~AttemptsLeft(j)
      <4>1. Upd([info[j] EXCEPT !.code = TOO_MANY_ATTEMPTS, !.downloaded = FALSE])
        BY <1>7, <3>3 DEF StartAttempt
      <4>2. QED  BY <4>1, <2>1, FieldUpdates DEF Codes
    <3>4. QED  BY <3>1, <3>2, <3>3
  <2>2. info' \in [Jobs -> Info]
    <3>1. PICK r \in Info : Upd(r)
      BY <2>a
    <3> QED  BY <3>1 DEF TypeOK
  <2>3. wpc' \in [Downloaders -> {"idle", "start", "client", "verify", "output"}]
          /\ \A v \in Downloaders : wpc'[v] = "idle" <=> wpc[v] = "idle"
    BY <1>7 DEF StartAttempt
  <2>4. QED  BY <1>7, <2>2, <2>3 DEF StartAttempt, reader, history
<1>8. ASSUME NEW w \in Downloaders, RunClient(w)
      PROVE  TypeOK' /\ Holding'
  <2>1. info[wjob[w]].path \in Paths
    BY <1>8, HeldByWorker DEF RunClient
  <2>2. QED  BY <1>8, <2>1 DEF RunClient, reader, history
<1>9. ASSUME NEW w \in Downloaders, FileFound(w)
      PROVE  TypeOK' /\ Holding'
  <2> DEFINE r == [info[wjob[w]] EXCEPT !.code = 0, !.downloaded = TRUE]
  <2>a. r \in Info
    BY <1>9, HeldByWorker, FieldUpdates DEF FileFound, Codes
  <2>b. info' = [info EXCEPT ![wjob[w]] = r]
    BY <1>9 DEF FileFound
  <2>1. info' \in [Jobs -> Info]
    BY <2>a, <2>b
  <2>2. QED  BY <1>9, <2>1 DEF FileFound, reader, history
<1>10. ASSUME ProcessGone
       PROVE  TypeOK' /\ Holding'
  <2>1. toDownload' \in Seq(Jobs) /\ downloaded' \in Seq(Jobs)
    BY <1>10 DEF ProcessGone
  <2>2. lost' \subseteq Jobs
    BY <1>10 DEF ProcessGone, InFlight, Issued
  <2>3. QED  BY <1>10, <2>1, <2>2 DEF ProcessGone
<1>11. ASSUME NEW w \in Downloaders, FileMissing(w)
       PROVE  TypeOK' /\ Holding'
  <2>1. CASE ProcessGone
    BY <2>1, <1>10
  <2>2. CASE ~ProcessGone
    <3> DEFINE r == [info[wjob[w]] EXCEPT !.code = FILE_NOT_FOUND, !.downloaded = FALSE]
    <3>a. r \in Info
      BY <1>11, HeldByWorker, FieldUpdates DEF FileMissing, Codes
    <3>b. info' = [info EXCEPT ![wjob[w]] = r]
      BY <1>11, <2>2 DEF FileMissing
    <3>1. info' \in [Jobs -> Info]
      BY <3>a, <3>b
    <3>2. QED  BY <1>11, <2>2, <3>1 DEF FileMissing, reader, history
  <2>3. QED  BY <2>1, <2>2
<1>12. ASSUME NEW w \in Downloaders, HandleOutput(w)
       PROVE  TypeOK' /\ Holding'
  <2>1. wjob[w] \in Jobs
    BY <1>12, HeldByWorker DEF HandleOutput
  <2>2. toDownload' \in Seq(Jobs) /\ downloaded' \in Seq(Jobs)
    <3>1. CASE Finished(wjob[w])
      <4>1. downloaded' = Append(downloaded, wjob[w]) /\ toDownload' = toDownload
        BY <1>12, <3>1 DEF HandleOutput, Route
      <4>2. QED  BY <4>1, <2>1
    <3>2. CASE ~Finished(wjob[w])
      <4>1. toDownload' = Append(toDownload, wjob[w]) /\ downloaded' = downloaded
        BY <1>12, <3>2 DEF HandleOutput, Route
      <4>2. QED  BY <4>1, <2>1
    <3>3. QED  BY <3>1, <3>2
  <2>3. QED  BY <1>12, <2>2 DEF HandleOutput, reader, history
<1>13. ASSUME NEW n \in Notifiers, PollDownloaded(n)
       PROVE  TypeOK' /\ Holding'
  BY <1>13 DEF PollDownloaded, reader, worker, history
<1>14. ASSUME NEW n \in Notifiers, Notify(n)
       PROVE  TypeOK' /\ Holding'
  BY <1>14 DEF Notify, reader, worker
<1>15. ASSUME Mount
       PROVE  TypeOK' /\ Holding'
  BY <1>15 DEF Mount, reader, worker, history
<1>16. CASE UNCHANGED vars
  BY <1>16 DEF vars, reader, worker, history
<1>17. QED
  BY <1>1, <1>2, <1>3, <1>4, <1>5, <1>6, <1>7, <1>8, <1>9, <1>10, <1>11, <1>12,
     <1>13, <1>14, <1>15, <1>16
     DEF Next, ReadStep, DownloadStep, NotifyStep, Stop

--------------------------------------------------------------------------------
(* Steps keep every request in one place *)

Flow == OnePlace /\ NothingLost /\ EndedWereIssued

\* A step that moves no request keeps them all where they are.
LEMMA FlowFrame ==
  ASSUME IInv, Issued' = Issued,
         UNCHANGED <<toDownload, downloaded, wjob, njob, notified, lost>>
  PROVE  Flow'
<1>1. HeldByDownloader' = HeldByDownloader /\ HeldByNotifier' = HeldByNotifier
  BY DEF HeldByDownloader, HeldByNotifier
<1>2. InFlight' = InFlight
  BY DEF InFlight
<1>3. QED
  BY <1>1, <1>2 DEF IInv, Flow, OnePlace, NothingLost, EndedWereIssued

\* The wrapper writes to the request its thread holds, and never to its path.
LEMMA WrapperWrites ==
  ASSUME IInv, NEW w \in Downloaders,
         \/ StartAttempt(w)
         \/ FileFound(w)
         \/ FileMissing(w) /\ ~ProcessGone
  PROVE  /\ \A j \in Jobs : info'[j].path = info[j].path
         /\ \A j \in Jobs \ {wjob[w]} : info'[j] = info[j]
         /\ Issued' = Issued
<1>1. wjob[w] \in Jobs /\ info[wjob[w]] \in Info /\ info \in [Jobs -> Info]
  BY HeldByWorker DEF StartAttempt, FileFound, FileMissing, IInv, TypeOK
<1>2. \E a, c, d : info' = [info EXCEPT ![wjob[w]] =
                             [@ EXCEPT !.attempt = a, !.code = c, !.downloaded = d]]
  <2> DEFINE j == wjob[w]
             Upd(a, c, d) == info' = [info EXCEPT ![j] =
                               [info[j] EXCEPT !.attempt = a, !.code = c, !.downloaded = d]]
  <2>1. CASE StartAttempt(w)
    <3>1. \/ info' = [info EXCEPT ![j] = [info[j] EXCEPT !.code = SERVER_NOT_FOUND]]
          \/ info' = [info EXCEPT ![j] = [info[j] EXCEPT !.attempt = @ + 1]]
          \/ info' = [info EXCEPT ![j] = [info[j] EXCEPT !.attempt = @ + 1,
                          !.code = SETTINGS_NOT_FOUND, !.downloaded = FALSE]]
          \/ info' = [info EXCEPT ![j] = [info[j] EXCEPT
                          !.code = TOO_MANY_ATTEMPTS, !.downloaded = FALSE]]
      BY <2>1 DEF StartAttempt
    <3>2. /\ [info[j] EXCEPT !.code = SERVER_NOT_FOUND]
               = [info[j] EXCEPT !.attempt = info[j].attempt, !.code = SERVER_NOT_FOUND,
                                 !.downloaded = info[j].downloaded]
          /\ [info[j] EXCEPT !.attempt = @ + 1]
               = [info[j] EXCEPT !.attempt = info[j].attempt + 1, !.code = info[j].code,
                                 !.downloaded = info[j].downloaded]
          /\ [info[j] EXCEPT !.code = TOO_MANY_ATTEMPTS, !.downloaded = FALSE]
               = [info[j] EXCEPT !.attempt = info[j].attempt, !.code = TOO_MANY_ATTEMPTS,
                                 !.downloaded = FALSE]
      BY <1>1 DEF Info
    <3>3. \/ Upd(info[j].attempt, SERVER_NOT_FOUND, info[j].downloaded)
          \/ Upd(info[j].attempt + 1, info[j].code, info[j].downloaded)
          \/ Upd(info[j].attempt + 1, SETTINGS_NOT_FOUND, FALSE)
          \/ Upd(info[j].attempt, TOO_MANY_ATTEMPTS, FALSE)
      BY <3>1, <3>2
    <3>4. QED  BY <3>3
  <2>2. CASE FileFound(w)
    <3>1. Upd(info[j].attempt, 0, TRUE)
      BY <2>2, <1>1 DEF FileFound, Info
    <3>2. QED  BY <3>1
  <2>3. CASE FileMissing(w) /\ ~ProcessGone
    <3>1. Upd(info[j].attempt, FILE_NOT_FOUND, FALSE)
      BY <2>3, <1>1 DEF FileMissing, Info
    <3>2. QED  BY <3>1
  <2>4. QED  BY <2>1, <2>2, <2>3
<1>3. \A j \in Jobs : info'[j].path = info[j].path
  BY <1>1, <1>2 DEF Info
<1>4. \A j \in Jobs \ {wjob[w]} : info'[j] = info[j]
  BY <1>1, <1>2
<1>5. QED  BY <1>3, <1>4 DEF Issued

LEMMA FlowStep == IInv /\ [Next]_vars => Flow'
<1> SUFFICES ASSUME IInv, [Next]_vars  PROVE Flow'
  OBVIOUS
<1>a. OnePlace /\ NothingLost /\ EndedWereIssued /\ TypeOK
  BY DEF IInv
<1>1. ASSUME NEW t \in Readers, NEW p \in Paths, BeginRead(t, p)  PROVE Flow'
  BY <1>1, FlowFrame DEF BeginRead, worker, history, Issued
<1>2. ASSUME NEW t \in Readers, LookupCache(t)  PROVE Flow'
  BY <1>2, FlowFrame DEF LookupCache, worker, history, Issued
<1>3. ASSUME NEW t \in Readers, CheckDownloading(t)  PROVE Flow'
  BY <1>3, FlowFrame DEF CheckDownloading, worker, history, Issued
<1>4. ASSUME NEW t \in Readers, NEW j \in Jobs, AppendNewDownload(t, j)  PROVE Flow'
  <2>1. rpath[t] # None /\ info \in [Jobs -> Info]
    BY <1>4 DEF AppendNewDownload, IInv, Holding, TypeOK
  <2>2. Issued' = Issued \cup {j}
    BY <1>4, <2>1 DEF AppendNewDownload, Issued, NewInfo
  <2>3. HeldByDownloader' = HeldByDownloader /\ HeldByNotifier' = HeldByNotifier
    BY <1>4 DEF AppendNewDownload, worker, HeldByDownloader, HeldByNotifier
  <2>4. j \notin notified \cup lost /\ InFlight' = InFlight \cup {j}
    BY <1>4, <1>a, <2>2 DEF AppendNewDownload, history, InFlight, EndedWereIssued
  <2>5. j \notin InFlight /\ j \notin Range(toDownload)
    BY <1>4, <1>a DEF AppendNewDownload, InFlight, NothingLost
  <2>6. IsInjective(toDownload') /\ Range(toDownload') = Range(toDownload) \cup {j}
    BY <1>4, <1>a, <2>5, AppendFresh DEF AppendNewDownload, OnePlace, TypeOK
  <2>7. downloaded' = downloaded /\ wjob' = wjob /\ njob' = njob
          /\ notified' = notified /\ lost' = lost
    BY <1>4 DEF AppendNewDownload, worker, history
  <2>8. OnePlace'
    BY <1>a, <2>3, <2>5, <2>6, <2>7 DEF OnePlace, NothingLost
  <2>9. NothingLost' /\ EndedWereIssued'
    BY <1>a, <2>2, <2>3, <2>4, <2>6, <2>7 DEF NothingLost, EndedWereIssued
  <2>10. QED  BY <2>8, <2>9 DEF Flow
<1>5. ASSUME NEW t \in Readers, SetDownloading(t)  PROVE Flow'
  BY <1>5, FlowFrame DEF SetDownloading, worker, history, Issued
<1>6. ASSUME NEW w \in Downloaders, PollJob(w)  PROVE Flow'
  <2> DEFINE j == Head(toDownload)
  <2>1. /\ IsInjective(toDownload') /\ Range(toDownload') = Range(toDownload) \ {j}
        /\ j \in Range(toDownload) /\ j \in Jobs
    BY <1>6, <1>a, TakeHead DEF PollJob, OnePlace, TypeOK
  <2>2. wjob[w] = None /\ j # None
    BY <1>6, <2>1, JobsAssumption DEF PollJob, IInv, Holding
  <2>3. wjob' = [wjob EXCEPT ![w] = j] /\ wjob \in [Downloaders -> Jobs \cup {None}]
    BY <1>6, <1>a DEF PollJob, TypeOK
  <2>4. HeldByDownloader' = HeldByDownloader \cup {j}
    BY <2>2, <2>3 DEF HeldByDownloader
  <2>5. downloaded' = downloaded /\ njob' = njob /\ notified' = notified /\ lost' = lost
          /\ HeldByNotifier' = HeldByNotifier /\ Issued' = Issued
    BY <1>6 DEF PollJob, history, HeldByNotifier, Issued
  <2>6. j \notin HeldByDownloader
    BY <1>a, <2>1 DEF OnePlace
  <2>7. \A u, v \in Downloaders : wjob'[u] = wjob'[v] /\ wjob'[u] # None => u = v
    BY <1>a, <2>2, <2>3, <2>6 DEF OnePlace, HeldByDownloader
  <2>8. OnePlace'
    BY <1>a, <2>1, <2>4, <2>5, <2>7 DEF OnePlace
  <2>9. NothingLost' /\ EndedWereIssued'
    BY <1>a, <2>1, <2>4, <2>5 DEF NothingLost, InFlight, EndedWereIssued
  <2>10. QED  BY <2>8, <2>9 DEF Flow
<1>7. ASSUME NEW w \in Downloaders, StartAttempt(w)  PROVE Flow'
  BY <1>7, FlowFrame, WrapperWrites DEF StartAttempt, history
<1>8. ASSUME NEW w \in Downloaders, RunClient(w)  PROVE Flow'
  BY <1>8, FlowFrame DEF RunClient, history, Issued
<1>9. ASSUME NEW w \in Downloaders, FileFound(w)  PROVE Flow'
  BY <1>9, FlowFrame, WrapperWrites DEF FileFound, history
<1>10. ASSUME ProcessGone  PROVE Flow'
  <2>1. /\ toDownload' = <<>> /\ downloaded' = <<>>
        /\ HeldByDownloader' = {} /\ HeldByNotifier' = {}
    BY <1>10 DEF ProcessGone, HeldByDownloader, HeldByNotifier
  <2>2. /\ Range(toDownload') = {} /\ IsInjective(toDownload')
        /\ Range(downloaded') = {} /\ IsInjective(downloaded')
    BY <2>1 DEF Range, IsInjective
  <2>3. Issued' = Issued /\ notified' = notified /\ lost' = lost \cup InFlight
    BY <1>10 DEF ProcessGone, Issued
  <2>4. InFlight' = {}
    BY <2>3 DEF InFlight
  <2>5. \A v, w \in Downloaders : wjob'[v] = wjob'[w] /\ wjob'[v] # None => v = w
    BY <1>10 DEF ProcessGone
  <2>6. \A m, n \in Notifiers : njob'[m] = njob'[n] /\ njob'[m] # None => m = n
    BY <1>10 DEF ProcessGone
  <2>7. OnePlace'
    BY <2>1, <2>2, <2>5, <2>6 DEF OnePlace
  <2>8. NothingLost' /\ EndedWereIssued'
    BY <1>a, <2>1, <2>2, <2>3, <2>4 DEF NothingLost, EndedWereIssued, InFlight
  <2>9. QED  BY <2>7, <2>8 DEF Flow
<1>11. ASSUME NEW w \in Downloaders, FileMissing(w)  PROVE Flow'
  <2>1. CASE ProcessGone
    BY <2>1, <1>10
  <2>2. CASE ~ProcessGone
    BY <1>11, <2>2, FlowFrame, WrapperWrites DEF FileMissing, history
  <2>3. QED  BY <2>1, <2>2
<1>12. ASSUME NEW w \in Downloaders, HandleOutput(w)  PROVE Flow'
  <2> DEFINE j == wjob[w]
  <2>1. j \in Jobs /\ j # None /\ j \in HeldByDownloader /\ j \in InFlight
    BY <1>12, HeldByWorker DEF HandleOutput
  <2>2. j \notin Range(toDownload) /\ j \notin Range(downloaded) /\ j \notin HeldByNotifier
    BY <1>a, <2>1 DEF OnePlace
  <2>3. wjob' = [wjob EXCEPT ![w] = None] /\ wjob \in [Downloaders -> Jobs \cup {None}]
    BY <1>12, <1>a DEF HandleOutput, TypeOK
  <2>4. HeldByDownloader' = HeldByDownloader \ {j}
    BY <1>a, <2>1, <2>3 DEF HeldByDownloader, OnePlace
  <2>5. \A u, v \in Downloaders : wjob'[u] = wjob'[v] /\ wjob'[u] # None => u = v
    BY <1>a, <2>3 DEF OnePlace
  <2>6. /\ IsInjective(toDownload') /\ IsInjective(downloaded')
        /\ \/ /\ Range(toDownload') = Range(toDownload) \cup {j}
              /\ Range(downloaded') = Range(downloaded)
           \/ /\ Range(toDownload') = Range(toDownload)
              /\ Range(downloaded') = Range(downloaded) \cup {j}
    <3>1. CASE Finished(j)
      <4>1. downloaded' = Append(downloaded, j) /\ toDownload' = toDownload
        BY <1>12, <3>1 DEF HandleOutput, Route
      <4>2. QED  BY <1>a, <2>1, <2>2, <4>1, AppendFresh DEF OnePlace, TypeOK
    <3>2. CASE ~Finished(j)
      <4>1. toDownload' = Append(toDownload, j) /\ downloaded' = downloaded
        BY <1>12, <3>2 DEF HandleOutput, Route
      <4>2. QED  BY <1>a, <2>1, <2>2, <4>1, AppendFresh DEF OnePlace, TypeOK
    <3>3. QED  BY <3>1, <3>2
  <2>7. njob' = njob /\ notified' = notified /\ lost' = lost
          /\ HeldByNotifier' = HeldByNotifier /\ Issued' = Issued
    BY <1>12 DEF HandleOutput, history, HeldByNotifier, Issued
  <2>8. OnePlace'
    BY <1>a, <2>2, <2>4, <2>5, <2>6, <2>7 DEF OnePlace
  <2>9. NothingLost' /\ EndedWereIssued'
    BY <1>a, <2>1, <2>4, <2>6, <2>7 DEF NothingLost, InFlight, EndedWereIssued
  <2>10. QED  BY <2>8, <2>9 DEF Flow
<1>13. ASSUME NEW n \in Notifiers, PollDownloaded(n)  PROVE Flow'
  <2> DEFINE j == Head(downloaded)
  <2>1. /\ IsInjective(downloaded') /\ Range(downloaded') = Range(downloaded) \ {j}
        /\ j \in Range(downloaded) /\ j \in Jobs
    BY <1>13, <1>a, TakeHead DEF PollDownloaded, OnePlace, TypeOK
  <2>2. njob[n] = None /\ j # None
    BY <1>13, <2>1, JobsAssumption DEF PollDownloaded
  <2>3. njob' = [njob EXCEPT ![n] = j] /\ njob \in [Notifiers -> Jobs \cup {None}]
    BY <1>13, <1>a DEF PollDownloaded, TypeOK
  <2>4. HeldByNotifier' = HeldByNotifier \cup {j}
    BY <2>2, <2>3 DEF HeldByNotifier
  <2>5. toDownload' = toDownload /\ wjob' = wjob /\ notified' = notified /\ lost' = lost
          /\ HeldByDownloader' = HeldByDownloader /\ Issued' = Issued
    BY <1>13 DEF PollDownloaded, worker, history, HeldByDownloader, Issued
  <2>6. j \notin HeldByNotifier
    BY <1>a, <2>1 DEF OnePlace
  <2>7. \A u, v \in Notifiers : njob'[u] = njob'[v] /\ njob'[u] # None => u = v
    BY <1>a, <2>2, <2>3, <2>6 DEF OnePlace, HeldByNotifier
  <2>8. OnePlace'
    BY <1>a, <2>1, <2>4, <2>5, <2>7 DEF OnePlace
  <2>9. NothingLost' /\ EndedWereIssued'
    BY <1>a, <2>1, <2>4, <2>5 DEF NothingLost, InFlight, EndedWereIssued
  <2>10. QED  BY <2>8, <2>9 DEF Flow
<1>14. ASSUME NEW n \in Notifiers, Notify(n)  PROVE Flow'
  <2> DEFINE j == njob[n]
  <2>1. j \in HeldByNotifier /\ j \in InFlight /\ j # None
    BY <1>14, <1>a DEF Notify, HeldByNotifier, NothingLost
  <2>2. njob' = [njob EXCEPT ![n] = None] /\ njob \in [Notifiers -> Jobs \cup {None}]
    BY <1>14, <1>a DEF Notify, TypeOK
  <2>3. HeldByNotifier' = HeldByNotifier \ {j}
    BY <1>a, <2>1, <2>2 DEF HeldByNotifier, OnePlace
  <2>4. \A u, v \in Notifiers : njob'[u] = njob'[v] /\ njob'[u] # None => u = v
    BY <1>a, <2>2 DEF OnePlace
  <2>5. toDownload' = toDownload /\ downloaded' = downloaded /\ wjob' = wjob
          /\ notified' = notified \cup {j} /\ lost' = lost
          /\ HeldByDownloader' = HeldByDownloader /\ Issued' = Issued
    BY <1>14 DEF Notify, worker, HeldByDownloader, Issued
  <2>6. OnePlace'
    BY <1>a, <2>3, <2>4, <2>5 DEF OnePlace
  <2>7. j \notin Range(toDownload) /\ j \notin Range(downloaded) /\ j \notin HeldByDownloader
    BY <1>a, <2>1 DEF OnePlace
  <2>8. NothingLost' /\ EndedWereIssued'
    BY <1>a, <2>1, <2>3, <2>5, <2>7 DEF NothingLost, InFlight, EndedWereIssued
  <2>9. QED  BY <2>6, <2>8 DEF Flow
<1>15. ASSUME Mount  PROVE Flow'
  BY <1>15, FlowFrame DEF Mount, worker, history, Issued
<1>16. CASE UNCHANGED vars
  BY <1>16, FlowFrame DEF vars, worker, history, Issued
<1>17. QED
  BY <1>1, <1>2, <1>3, <1>4, <1>5, <1>6, <1>7, <1>8, <1>9, <1>10, <1>11, <1>12,
     <1>13, <1>14, <1>15, <1>16
     DEF Next, ReadStep, DownloadStep, NotifyStep, Stop

--------------------------------------------------------------------------------
(* Steps keep what is known of each request *)

Facts == StageFacts /\ ReportsAreEarned /\ OnlyLoadedServers

\* A step that writes to no request, hands none on and loses no file.
LEMMA FactsFrame ==
  ASSUME IInv, UNCHANGED <<toDownload, downloaded, info, wpc, wjob, njob, notified>>,
         disk \subseteq disk'
  PROVE  Facts'
<1>1. HeldByNotifier' = HeldByNotifier /\ Issued' = Issued
  BY DEF HeldByNotifier, Issued
<1>2. \A j : Waiting(j)' = Waiting(j) /\ (Earned(j) => Earned(j)')
  BY DEF Waiting, Earned
<1>3. StageFacts'
  BY <1>2 DEF IInv, StageFacts
<1>4. ReportsAreEarned' /\ OnlyLoadedServers'
  BY <1>1, <1>2 DEF IInv, ReportsAreEarned, OnlyLoadedServers
<1>5. QED  BY <1>3, <1>4 DEF Facts

\* A downloader's write is seen by nothing but the step it leads to.
LEMMA FactsOfOneWorker ==
  ASSUME IInv, NEW w \in Downloaders, wpc[w] # "idle",
         \A j \in Jobs : info'[j].path = info[j].path,
         \A j \in Jobs \ {wjob[w]} : info'[j] = info[j],
         Issued' = Issued,
         UNCHANGED <<toDownload, downloaded, wjob, njob, notified>>,
         disk \subseteq disk',
         \A v \in Downloaders \ {w} : wpc'[v] = wpc[v],
         info'[wjob[w]].code # SERVER_NOT_FOUND,
         wpc'[w] # "start",
         wpc'[w] \in {"client", "verify"} =>
            /\ ~info'[wjob[w]].downloaded
            /\ info'[wjob[w]].code \in {0, FILE_NOT_FOUND, SETTINGS_NOT_FOUND},
         wpc'[w] = "output" => Waiting(wjob[w])' \/ Earned(wjob[w])'
  PROVE  Facts'
<1> DEFINE j == wjob[w]
<1>1. j \in Jobs /\ j # None /\ j \in HeldByDownloader /\ j \in InFlight
        /\ info[j].path \in Loaded
  BY HeldByWorker
<1>2. \A i \in Jobs \ {j} : Waiting(i)' = Waiting(i) /\ (Earned(i) => Earned(i)')
  BY DEF Waiting, Earned
<1>3. j \notin Range(toDownload) /\ j \notin Range(downloaded) /\ j \notin HeldByNotifier
        /\ j \notin notified
  BY <1>1 DEF IInv, OnePlace, InFlight
<1>4. \A v \in Downloaders \ {w} : wjob[v] # j
  BY <1>1 DEF IInv, OnePlace
<1>5. \A v \in Downloaders : wpc[v] # "idle" => wjob[v] \in Jobs
  BY HeldByWorker
<1>6. Range(toDownload) \subseteq Jobs /\ Range(downloaded) \subseteq Jobs
        /\ HeldByNotifier \subseteq Jobs /\ notified \subseteq Jobs
  BY DEF IInv, NothingLost, InFlight, Issued, TypeOK
<1>7. \A i \in Range(toDownload') : Waiting(i)'
  BY <1>2, <1>3, <1>6 DEF IInv, StageFacts
<1>8. ASSUME NEW v \in Downloaders
      PROVE  /\ wpc'[v] = "start" => Waiting(wjob[v])'
             /\ wpc'[v] \in {"client", "verify"} =>
                  /\ ~info'[wjob[v]].downloaded
                  /\ info'[wjob[v]].code \in {0, FILE_NOT_FOUND, SETTINGS_NOT_FOUND}
             /\ wpc'[v] = "output" => Waiting(wjob[v])' \/ Earned(wjob[v])'
  <2>1. CASE v = w
    BY <2>1
  <2>2. CASE v # w
    <3>1. CASE wpc[v] = "idle"
      BY <2>2, <3>1
    <3>2. CASE wpc[v] # "idle"
      <4>1. wjob[v] \in Jobs \ {j} /\ wpc'[v] = wpc[v] /\ info'[wjob[v]] = info[wjob[v]]
        BY <1>4, <1>5, <2>2, <3>2
      <4>2. QED  BY <1>2, <4>1 DEF IInv, StageFacts
    <3>3. QED  BY <3>1, <3>2
  <2>3. QED  BY <2>1, <2>2
<1>9. StageFacts'
  BY <1>7, <1>8 DEF StageFacts
<1>10. HeldByNotifier' = HeldByNotifier
  BY DEF HeldByNotifier
<1>11. ReportsAreEarned'
  BY <1>2, <1>3, <1>6, <1>10 DEF IInv, ReportsAreEarned
<1>12. OnlyLoadedServers'
  <2>1. ASSUME NEW i \in Issued  PROVE info'[i].path \in Loaded /\ info'[i].code # SERVER_NOT_FOUND
    <3>1. CASE i = j
      BY <1>1, <3>1
    <3>2. CASE i # j
      <4>1. i \in Jobs \ {j} /\ info'[i] = info[i]
        BY <3>2 DEF Issued
      <4>2. QED  BY <4>1 DEF IInv, OnlyLoadedServers
    <3>3. QED  BY <3>1, <3>2
  <2>2. QED  BY <2>1 DEF OnlyLoadedServers
<1>13. QED  BY <1>9, <1>11, <1>12 DEF Facts

LEMMA FactsStep == IInv /\ [Next]_vars => Facts'
<1> SUFFICES ASSUME IInv, [Next]_vars  PROVE Facts'
  OBVIOUS
<1>a. TypeOK /\ OnePlace /\ NothingLost /\ Holding /\ StageFacts /\ ReportsAreEarned
        /\ OnlyLoadedServers
  BY DEF IInv
<1>1. ASSUME NEW t \in Readers, NEW p \in Paths, BeginRead(t, p)  PROVE Facts'
  BY <1>1, FactsFrame DEF BeginRead, worker, history
<1>2. ASSUME NEW t \in Readers, LookupCache(t)  PROVE Facts'
  BY <1>2, FactsFrame DEF LookupCache, worker, history
<1>3. ASSUME NEW t \in Readers, CheckDownloading(t)  PROVE Facts'
  BY <1>3, FactsFrame DEF CheckDownloading, worker, history
<1>4. ASSUME NEW t \in Readers, NEW j \in Jobs, AppendNewDownload(t, j)  PROVE Facts'
  <2>1. rpath[t] \in Loaded /\ info \in [Jobs -> Info]
    BY <1>4, <1>a DEF AppendNewDownload, Holding, TypeOK
  <2>2. /\ info' = [info EXCEPT ![j] = NewInfo(rpath[t])]
        /\ toDownload' = Append(toDownload, j) /\ j \notin Issued
        /\ UNCHANGED <<downloaded, wpc, wjob, njob, disk, notified>>
    BY <1>4 DEF AppendNewDownload, worker, history
  <2>3. j \notin Range(toDownload) /\ j \notin Range(downloaded) /\ j \notin HeldByNotifier
          /\ j \notin HeldByDownloader /\ j \notin notified
    BY <1>a, <2>2 DEF NothingLost, InFlight, IInv, EndedWereIssued
  <2>4. Range(toDownload') = Range(toDownload) \cup {j}
    BY <1>a, <2>2, <2>3, AppendFresh DEF OnePlace, TypeOK
  <2>5. info'[j] = NewInfo(rpath[t]) /\ \A i \in Jobs \ {j} : info'[i] = info[i]
    BY <2>1, <2>2
  <2>6. Waiting(j)' /\ \A i \in Jobs \ {j} :
          Waiting(i)' = Waiting(i) /\ (Earned(i) => Earned(i)')
    BY <2>2, <2>5 DEF Waiting, Earned, NewInfo
  <2>7. \A w \in Downloaders : wpc[w] # "idle" => wjob[w] \in Jobs \ {j}
    BY <2>3, HeldByWorker
  <2>8. Range(toDownload) \subseteq Jobs /\ Range(downloaded) \subseteq Jobs
          /\ HeldByNotifier \subseteq Jobs /\ notified \subseteq Jobs
    BY <1>a DEF NothingLost, InFlight, Issued, TypeOK
  <2>9. StageFacts'
    <3>1. \A i \in Range(toDownload') : Waiting(i)'
      BY <1>a, <2>3, <2>4, <2>6, <2>8 DEF StageFacts
    <3>2. ASSUME NEW w \in Downloaders
          PROVE  /\ wpc'[w] = "start" => Waiting(wjob[w])'
                 /\ wpc'[w] \in {"client", "verify"} =>
                      /\ ~info'[wjob'[w]].downloaded
                      /\ info'[wjob'[w]].code \in {0, FILE_NOT_FOUND, SETTINGS_NOT_FOUND}
                 /\ wpc'[w] = "output" => Waiting(wjob[w])' \/ Earned(wjob[w])'
      <4>1. CASE wpc[w] = "idle"
        BY <2>2, <4>1
      <4>2. CASE wpc[w] # "idle"
        <5>1. wjob[w] \in Jobs \ {j} /\ info'[wjob[w]] = info[wjob[w]]
          BY <2>5, <2>7, <4>2
        <5>2. QED  BY <1>a, <2>2, <2>6, <5>1 DEF StageFacts
      <4>3. QED  BY <4>1, <4>2
    <3>3. QED  BY <3>1, <3>2 DEF StageFacts
  <2>10. ReportsAreEarned'
    BY <1>a, <2>2, <2>3, <2>6, <2>8 DEF ReportsAreEarned, HeldByNotifier
  <2>11. OnlyLoadedServers'
    BY <1>a, <2>1, <2>5 DEF OnlyLoadedServers, Issued, NewInfo, SERVER_NOT_FOUND
  <2>12. QED  BY <2>9, <2>10, <2>11 DEF Facts
<1>5. ASSUME NEW t \in Readers, SetDownloading(t)  PROVE Facts'
  BY <1>5, FactsFrame DEF SetDownloading, worker, history
<1>6. ASSUME NEW w \in Downloaders, PollJob(w)  PROVE Facts'
  <2>1. /\ Head(toDownload) \in Range(toDownload)
        /\ Range(toDownload') \subseteq Range(toDownload)
    BY <1>6, <1>a, TakeHead DEF PollJob, OnePlace, TypeOK
  <2>2. /\ wjob'[w] = Head(toDownload) /\ wpc'[w] = "start"
        /\ \A v \in Downloaders \ {w} : wjob'[v] = wjob[v] /\ wpc'[v] = wpc[v]
        /\ UNCHANGED <<downloaded, info, njob, disk, notified>>
    BY <1>6, <1>a DEF PollJob, TypeOK, history
  <2>3. StageFacts'
    BY <1>a, <2>1, <2>2 DEF StageFacts, Waiting, Earned
  <2>4. ReportsAreEarned' /\ OnlyLoadedServers'
    BY <1>a, <2>2 DEF ReportsAreEarned, OnlyLoadedServers, Issued, HeldByNotifier, Earned
  <2>5. QED  BY <2>3, <2>4 DEF Facts
<1>7. ASSUME NEW w \in Downloaders, StartAttempt(w)  PROVE Facts'
  <2> DEFINE j == wjob[w]
  <2>1. j \in Jobs /\ info[j] \in Info /\ info[j].path \in Loaded
          /\ info[j].code # SERVER_NOT_FOUND /\ info \in [Jobs -> Info]
    BY <1>7, <1>a, HeldByWorker DEF StartAttempt, TypeOK
  <2>2. Waiting(j)
    BY <1>7, <1>a DEF StartAttempt, StageFacts
  <2>3. /\ info'[j].code # SERVER_NOT_FOUND
        /\ wpc'[w] # "start"
        /\ wpc'[w] \in {"client", "verify"} =>
             /\ ~info'[j].downloaded
             /\ info'[j].code \in {0, FILE_NOT_FOUND, SETTINGS_NOT_FOUND}
        /\ wpc'[w] = "output" => Earned(j)'
    <3>1. CASE AttemptsLeft(j)
      <4>1. /\ wpc'[w] = "client"
            /\ ~info'[j].downloaded
            /\ info'[j].code = info[j].code \/ info'[j].code = SETTINGS_NOT_FOUND
        <5>1. wpc'[w] = "client"
          BY <1>7, <1>a, <2>1, <3>1 DEF StartAttempt, TypeOK
        <5>2. \/ info' = [info EXCEPT ![j] = [info[j] EXCEPT !.attempt = @ + 1]]
              \/ info' = [info EXCEPT ![j] = [info[j] EXCEPT !.attempt = @ + 1,
                             !.code = SETTINGS_NOT_FOUND, !.downloaded = FALSE]]
          BY <1>7, <2>1, <3>1 DEF StartAttempt
        <5>3. \/ info'[j] = [info[j] EXCEPT !.attempt = @ + 1]
              \/ info'[j] = [info[j] EXCEPT !.attempt = @ + 1,
                             !.code = SETTINGS_NOT_FOUND, !.downloaded = FALSE]
          BY <2>1, <5>2
        <5>4. QED  BY <2>1, <2>2, <5>1, <5>3 DEF Waiting, Info
      <4>2. QED
        BY <4>1, <2>1, <2>2 DEF Waiting, SETTINGS_NOT_FOUND, SERVER_NOT_FOUND
    <3>2. CASE ~AttemptsLeft(j)
      <4>1. /\ wpc'[w] = "output" /\ ~info'[j].downloaded
            /\ info'[j].code = TOO_MANY_ATTEMPTS /\ info'[j].attempt = info[j].attempt
        BY <1>7, <1>a, <2>1, <3>2 DEF StartAttempt, TypeOK, Info
      <4>2. info[j].attempt = MAX_ATTEMPTS
        BY <2>1, <2>2, <3>2
           DEF AttemptsLeft, Waiting, Info, MAX_ATTEMPTS, SETTINGS_NOT_FOUND, FILE_NOT_FOUND
      <4>3. info'[j] = info'[wjob'[w]]
        BY <1>7 DEF StartAttempt
      <4>4. QED
        BY <4>1, <4>2, <4>3 DEF Earned, TOO_MANY_ATTEMPTS, SERVER_NOT_FOUND
    <3>3. QED  BY <3>1, <3>2
  <2>4. /\ wpc[w] # "idle" /\ \A v \in Downloaders \ {w} : wpc'[v] = wpc[v]
        /\ UNCHANGED <<toDownload, downloaded, wjob, njob, disk, notified>>
    BY <1>7, <1>a DEF StartAttempt, TypeOK, history
  <2>5. Earned(j)' => Waiting(wjob[w])' \/ Earned(wjob[w])'
    BY <2>4
  <2>6. QED  BY <1>7, <2>3, <2>4, <2>5, WrapperWrites, FactsOfOneWorker
<1>8. ASSUME NEW w \in Downloaders, RunClient(w)  PROVE Facts'
  <2>1. /\ wpc[w] = "client" /\ wpc'[w] = "verify"
        /\ \A v \in Downloaders \ {w} : wpc'[v] = wpc[v]
        /\ UNCHANGED <<toDownload, downloaded, info, wjob, njob, notified>>
        /\ disk \subseteq disk'
    BY <1>8, <1>a DEF RunClient, TypeOK, history
  <2>2. info[wjob[w]].code # SERVER_NOT_FOUND
    BY <2>1, HeldByWorker
  <2>3. ~info[wjob[w]].downloaded
          /\ info[wjob[w]].code \in {0, FILE_NOT_FOUND, SETTINGS_NOT_FOUND}
    BY <1>a, <2>1 DEF StageFacts
  <2>4. QED  BY <2>1, <2>2, <2>3, FactsOfOneWorker DEF Issued
<1>9. ASSUME NEW w \in Downloaders, FileFound(w)  PROVE Facts'
  <2> DEFINE j == wjob[w]
  <2>1. j \in Jobs /\ info[j] \in Info
    BY <1>9, HeldByWorker DEF FileFound
  <2>2. info'[j].code = 0 /\ info'[j].downloaded /\ info'[j].path \in disk'
    BY <1>9, <1>a, <2>1 DEF FileFound, FileOnDisk, TypeOK, Info
  <2>3. /\ wpc[w] # "idle" /\ wpc'[w] = "output"
        /\ \A v \in Downloaders \ {w} : wpc'[v] = wpc[v]
        /\ UNCHANGED <<toDownload, downloaded, wjob, njob, disk, notified>>
    BY <1>9, <1>a DEF FileFound, TypeOK, history
  <2>4. Earned(wjob[w])'
    BY <2>2, <2>3 DEF Earned
  <2>5. QED
    BY <1>9, <2>2, <2>3, <2>4, WrapperWrites, FactsOfOneWorker DEF SERVER_NOT_FOUND
<1>10. ASSUME ProcessGone  PROVE Facts'
  <2>1. /\ Range(toDownload') = {} /\ Range(downloaded') = {} /\ HeldByNotifier' = {}
        /\ \A w \in Downloaders : wpc'[w] = "idle"
        /\ UNCHANGED <<info, disk, notified>>
    BY <1>10 DEF ProcessGone, Range, HeldByNotifier
  <2>2. StageFacts'
    BY <2>1 DEF StageFacts
  <2>3. ReportsAreEarned' /\ OnlyLoadedServers'
    BY <1>a, <2>1 DEF ReportsAreEarned, OnlyLoadedServers, Issued, Earned
  <2>4. QED  BY <2>2, <2>3 DEF Facts
<1>11. ASSUME NEW w \in Downloaders, FileMissing(w)  PROVE Facts'
  <2>1. CASE ProcessGone
    BY <2>1, <1>10
  <2>2. CASE ~ProcessGone
    <3> DEFINE j == wjob[w]
    <3>1. j \in Jobs /\ info[j] \in Info
      BY <1>11, HeldByWorker DEF FileMissing
    <3>2. info'[j].code = FILE_NOT_FOUND /\ ~info'[j].downloaded
      <4>1. info' = [info EXCEPT ![j] =
                       [info[j] EXCEPT !.code = FILE_NOT_FOUND, !.downloaded = FALSE]]
        BY <1>11, <2>2 DEF FileMissing
      <4>2. QED  BY <1>a, <3>1, <4>1 DEF TypeOK, Info
    <3>3. /\ wpc[w] # "idle" /\ wpc'[w] = "output"
          /\ \A v \in Downloaders \ {w} : wpc'[v] = wpc[v]
          /\ UNCHANGED <<toDownload, downloaded, wjob, njob, disk, notified>>
      BY <1>11, <1>a, <2>2 DEF FileMissing, TypeOK, history
    <3>4. Waiting(wjob[w])'
      BY <3>2, <3>3 DEF Waiting
    <3>5. QED
      BY <1>11, <2>2, <3>2, <3>3, <3>4, WrapperWrites, FactsOfOneWorker
         DEF SERVER_NOT_FOUND, FILE_NOT_FOUND
  <2>3. QED  BY <2>1, <2>2
<1>12. ASSUME NEW w \in Downloaders, HandleOutput(w)  PROVE Facts'
  <2> DEFINE j == wjob[w]
  <2>1. j \in Jobs /\ j \in HeldByDownloader
    BY <1>12, HeldByWorker DEF HandleOutput
  <2>2. j \notin Range(toDownload) /\ j \notin Range(downloaded)
    BY <1>a, <2>1 DEF OnePlace
  <2>3. Waiting(j) \/ Earned(j)
    BY <1>12, <1>a DEF HandleOutput, StageFacts
  <2>4. /\ wpc'[w] = "idle"
        /\ \A v \in Downloaders \ {w} : wjob'[v] = wjob[v] /\ wpc'[v] = wpc[v]
        /\ UNCHANGED <<info, njob, disk, notified>>
    BY <1>12, <1>a DEF HandleOutput, TypeOK, history
  <2>5. /\ \A i \in Range(toDownload') : Waiting(i)
        /\ \A i \in Range(downloaded') : Earned(i)
    <3>1. CASE Finished(j)
      <4>1. downloaded' = Append(downloaded, j) /\ toDownload' = toDownload
        BY <1>12, <3>1 DEF HandleOutput, Route
      <4>2. Range(downloaded') = Range(downloaded) \cup {j}
        BY <1>a, <2>1, <2>2, <4>1, AppendFresh DEF OnePlace, TypeOK
      <4>3. Earned(j)
        BY <2>3, <3>1 DEF Finished, Waiting, FILE_NOT_FOUND, TOO_MANY_ATTEMPTS
      <4>4. QED  BY <1>a, <4>1, <4>2, <4>3 DEF StageFacts, ReportsAreEarned
    <3>2. CASE ~Finished(j)
      <4>1. toDownload' = Append(toDownload, j) /\ downloaded' = downloaded
        BY <1>12, <3>2 DEF HandleOutput, Route
      <4>2. Range(toDownload') = Range(toDownload) \cup {j}
        BY <1>a, <2>1, <2>2, <4>1, AppendFresh DEF OnePlace, TypeOK
      <4>3. Waiting(j)
        BY <2>3, <3>2 DEF Finished, Earned
      <4>4. QED  BY <1>a, <4>1, <4>2, <4>3 DEF StageFacts, ReportsAreEarned
    <3>3. QED  BY <3>1, <3>2
  <2>6. StageFacts'
    BY <1>a, <2>4, <2>5 DEF StageFacts, Waiting, Earned
  <2>7. ReportsAreEarned' /\ OnlyLoadedServers'
    BY <1>a, <2>4, <2>5
       DEF ReportsAreEarned, OnlyLoadedServers, Issued, HeldByNotifier, Earned
  <2>8. QED  BY <2>6, <2>7 DEF Facts
<1>13. ASSUME NEW n \in Notifiers, PollDownloaded(n)  PROVE Facts'
  <2>1. /\ Head(downloaded) \in Range(downloaded)
        /\ Range(downloaded') \subseteq Range(downloaded)
    BY <1>13, <1>a, TakeHead DEF PollDownloaded, OnePlace, TypeOK
  <2>2. /\ UNCHANGED <<toDownload, info, wpc, wjob, disk, notified>>
        /\ HeldByNotifier' \subseteq HeldByNotifier \cup {Head(downloaded)}
    BY <1>13, <1>a DEF PollDownloaded, TypeOK, worker, history, HeldByNotifier
  <2>3. StageFacts'
    BY <1>a, <2>2 DEF StageFacts, Waiting, Earned
  <2>4. ReportsAreEarned' /\ OnlyLoadedServers'
    BY <1>a, <2>1, <2>2 DEF ReportsAreEarned, OnlyLoadedServers, Issued, Earned
  <2>5. QED  BY <2>3, <2>4 DEF Facts
<1>14. ASSUME NEW n \in Notifiers, Notify(n)  PROVE Facts'
  <2>1. njob[n] \in HeldByNotifier
    BY <1>14 DEF Notify, HeldByNotifier
  <2>2. /\ UNCHANGED <<toDownload, downloaded, info, wpc, wjob, disk>>
        /\ HeldByNotifier' \subseteq HeldByNotifier
        /\ notified' = notified \cup {njob[n]}
    BY <1>14, <1>a DEF Notify, TypeOK, worker, HeldByNotifier
  <2>3. StageFacts'
    BY <1>a, <2>2 DEF StageFacts, Waiting, Earned
  <2>4. ReportsAreEarned' /\ OnlyLoadedServers'
    BY <1>a, <2>1, <2>2 DEF ReportsAreEarned, OnlyLoadedServers, Issued, Earned
  <2>5. QED  BY <2>3, <2>4 DEF Facts
<1>15. ASSUME Mount  PROVE Facts'
  BY <1>15, FactsFrame DEF Mount, worker, history
<1>16. CASE UNCHANGED vars
  BY <1>16, FactsFrame DEF vars, worker, history
<1>17. QED
  BY <1>1, <1>2, <1>3, <1>4, <1>5, <1>6, <1>7, <1>8, <1>9, <1>10, <1>11, <1>12,
     <1>13, <1>14, <1>15, <1>16
     DEF Next, ReadStep, DownloadStep, NotifyStep, Stop

--------------------------------------------------------------------------------
(* Theorems of the specification *)

\* The inductive invariant holds of every behaviour (rucio_read, the stages of the
\* pipeline and the wrapper together).
THEOREM Invariant == Spec => []IInv
<1>1. IInv /\ [Next]_vars => IInv'
  BY TypeStep, FlowStep, FactsStep DEF IInv, Flow, Facts
<1>2. QED  BY InitIInv, <1>1, PTL DEF Spec

\* The attempt counter, the codes and the queues keep their types, whatever the
\* interleaving: the counter of rucio_download_wrapper never passes MAX_ATTEMPTS.
THEOREM TypeCorrect == Spec => []TypeOK
<1>1. IInv => TypeOK
  BY DEF IInv
<1>2. QED  BY Invariant, <1>1, PTL

\* The two queues and the two pools hold every request in flight, each once, and
\* nothing else: appending, polling and re-queueing neither copy nor drop one.
THEOREM Conservation == Spec => [](OnePlace /\ NothingLost)
<1>1. IInv => OnePlace /\ NothingLost
  BY DEF IInv
<1>2. QED  BY Invariant, <1>1, PTL

\* A request that was enqueued is held, was reported, or went with its process, also when
\* it was put back to be tried again.
THEOREM NoLoss == Spec => []NothingLost
<1>1. IInv => NothingLost
  BY DEF IInv
<1>2. QED  BY Invariant, <1>1, PTL

\* handle_output lets a request out only with its file or after MAX_ATTEMPTS runs.
THEOREM EarnedReports == Spec => []ReportsAreEarned
<1>1. IInv => ReportsAreEarned
  BY DEF IInv
<1>2. QED  BY Invariant, <1>1, PTL

\* No request names a server that rucio_download_wrapper does not know.
THEOREM LoadedServers == Spec => []OnlyLoadedServers
<1>1. IInv => OnlyLoadedServers
  BY DEF IInv
<1>2. QED  BY Invariant, <1>1, PTL

--------------------------------------------------------------------------------
(* One request for each path, where reads are served one at a time *)

OneReader == \A t, u \in Readers : t = u

\* A request in flight has its path marked, or the reader that made it is about to mark
\* it; a reader about to make one has found no mark.  No file is ever in the cache, so
\* no mark is taken off.
MarkInv ==
  /\ cache = {}
  /\ \A j \in InFlight :
       \/ info[j].path \in downloading
       \/ \E t \in Readers : rpc[t] = "mark" /\ rpath[t] = info[j].path
  /\ \A t \in Readers : rpc[t] = "append" => rpath[t] \notin downloading

PathInv == MarkInv /\ OneJobPerPath

\* Steps that no reader takes make no request and leave the marks alone.
LEMMA PathFrame ==
  ASSUME PathInv, InFlight' \subseteq InFlight,
         \A j \in InFlight : info'[j].path = info[j].path,
         UNCHANGED <<rpc, rpath, downloading, cache>>
  PROVE  PathInv'
BY DEF PathInv, MarkInv, OneJobPerPath

\* The process that goes takes its requests and its marks with it.
LEMMA PathGone ==
  ASSUME ProcessGone  PROVE PathInv'
<1>1. InFlight' = {} /\ cache' = {} /\ downloading' = {} /\ rpc' = [t \in Readers |-> "idle"]
  BY DEF ProcessGone, InFlight, Issued
<1>2. QED  BY <1>1 DEF PathInv, MarkInv, OneJobPerPath

\* A reader's steps: what the check saw still holds when the request is made, since
\* no other reader is there to make one.
LEMMA PathRead ==
  ASSUME OneReader, IInv, PathInv, NEW t \in Readers, ReadStep(t)
  PROVE  PathInv'
<1>a. /\ rpc \in [Readers -> {"idle", "lookup", "check", "append", "mark"}]
      /\ rpath \in [Readers -> Loaded \cup {None}] /\ info \in [Jobs -> Info]
      /\ \A u \in Readers : u = t
  BY DEF IInv, TypeOK, OneReader
<1>b. ~EmplaceUnderWay(t)
  BY <1>a DEF EmplaceUnderWay
<1>1. CASE \E p \in Paths : BeginRead(t, p)
  <2>1. InFlight' = InFlight /\ UNCHANGED <<info, downloading, cache>>
          /\ rpc[t] = "idle" /\ rpc'[t] = "lookup"
    BY <1>a, <1>1 DEF BeginRead, InFlight, Issued, history
  <2>2. QED  BY <1>a, <2>1 DEF PathInv, MarkInv, OneJobPerPath
<1>2. CASE LookupCache(t)
  <2>1. InFlight' = InFlight /\ UNCHANGED <<info, downloading, cache, rpath>>
          /\ rpc[t] = "lookup" /\ rpc'[t] = "check"
    BY <1>a, <1>2 DEF LookupCache, InFlight, Issued, history, PathInv, MarkInv
  <2>2. QED  BY <1>a, <2>1 DEF PathInv, MarkInv, OneJobPerPath
<1>3. CASE CheckDownloading(t)
  <2>1. InFlight' = InFlight /\ UNCHANGED <<info, downloading, cache>> /\ rpc[t] = "check"
    BY <1>3 DEF CheckDownloading, InFlight, Issued, history
  <2>2. \/ rpc'[t] = "idle"
        \/ rpc'[t] = "append" /\ rpath' = rpath /\ rpath[t] \notin downloading
    BY <1>a, <1>b, <1>3 DEF CheckDownloading, IsDownloading
  <2>3. QED  BY <1>a, <2>1, <2>2 DEF PathInv, MarkInv, OneJobPerPath
<1>4. CASE \E j \in Jobs : AppendNewDownload(t, j)
  <2>1. PICK j \in Jobs : AppendNewDownload(t, j)
    BY <1>4
  <2>2. /\ info'[j].path = rpath[t]
        /\ \A i \in Jobs \ {j} : info'[i] = info[i]
        /\ j \notin Issued /\ j \notin InFlight
        /\ UNCHANGED <<rpath, downloading, cache, notified, lost>>
        /\ rpc[t] = "append" /\ rpc'[t] = "mark"
    BY <1>a, <2>1 DEF AppendNewDownload, NewInfo, history, InFlight
  <2>3. InFlight \subseteq Jobs /\ InFlight' \subseteq InFlight \cup {j}
    BY <2>2 DEF InFlight, Issued
  <2>4. \A i \in InFlight : info'[i].path = info[i].path /\ info[i].path # rpath[t]
    BY <1>a, <2>2, <2>3 DEF PathInv, MarkInv
  <2>5. OneJobPerPath'
    BY <2>2, <2>3, <2>4 DEF PathInv, OneJobPerPath
  <2>6. MarkInv'
    BY <1>a, <2>2, <2>3, <2>4 DEF PathInv, MarkInv
  <2>7. QED  BY <2>5, <2>6 DEF PathInv
<1>5. CASE SetDownloading(t)
  <2>1. /\ InFlight' = InFlight /\ UNCHANGED <<info, cache>>
        /\ downloading' = downloading \cup {rpath[t]} /\ rpc'[t] = "idle"
    BY <1>a, <1>b, <1>5 DEF SetDownloading, InFlight, Issued, history
  <2>2. QED  BY <1>a, <2>1 DEF PathInv, MarkInv, OneJobPerPath
<1>6. QED  BY <1>1, <1>2, <1>3, <1>4, <1>5 DEF ReadStep

LEMMA PathStep ==
  ASSUME OneReader, IInv, PathInv, [Next]_vars
  PROVE  PathInv'
<1>1. CASE \E t \in Readers : ReadStep(t)
  BY <1>1, PathRead
<1>2. ASSUME NEW w \in Downloaders, DownloadStep(w)  PROVE PathInv'
  <2>1. CASE PollJob(w) \/ RunClient(w) \/ HandleOutput(w)
    BY <2>1, PathFrame DEF PollJob, RunClient, HandleOutput, reader, history, InFlight, Issued
  <2>2. CASE StartAttempt(w) \/ FileFound(w) \/ (FileMissing(w) /\ ~ProcessGone)
    <3>1. Issued' = Issued /\ \A j \in Jobs : info'[j].path = info[j].path
      BY <2>2, WrapperWrites
    <3>2. UNCHANGED <<rpc, rpath, downloading, cache, notified, lost>>
      BY <2>2 DEF StartAttempt, FileFound, FileMissing, reader, history
    <3>3. QED  BY <3>1, <3>2, PathFrame DEF InFlight, Issued
  <2>3. CASE ProcessGone
    BY <2>3, PathGone
  <2>4. QED  BY <1>2, <2>1, <2>2, <2>3 DEF DownloadStep
<1>3. ASSUME NEW n \in Notifiers, NotifyStep(n)  PROVE PathInv'
  BY <1>3, PathFrame DEF NotifyStep, PollDownloaded, Notify, reader, history, InFlight, Issued
<1>4. CASE Stop
  BY <1>4, PathGone DEF Stop
<1>5. CASE Mount \/ UNCHANGED vars
  BY <1>5, PathFrame DEF Mount, vars, reader, history, InFlight, Issued
<1>6. QED  BY <1>1, <1>2, <1>3, <1>4, <1>5 DEF Next

\* If a file is downloading its path is not enqueued again, whatever the number of
\* downloaders and notifiers, and however often requests are put back or the process
\* goes: where reads are served one at a time, since the check and the mark are apart.
THEOREM OneDownloadPerPath ==
  ASSUME OneReader  PROVE Spec => []OneJobPerPath
<1>1. Init => PathInv
  BY DEF Init, PathInv, MarkInv, OneJobPerPath, InFlight, Issued, NewInfo
<1>2. IInv /\ PathInv /\ [Next]_vars => PathInv'
  BY PathStep
<1>3. PathInv => OneJobPerPath
  BY DEF PathInv
<1>4. QED  BY <1>1, <1>2, <1>3, Invariant, PTL DEF Spec

--------------------------------------------------------------------------------
(* The pipeline implements the service *)

\* The client runs only in an attempt that was counted, and a request that was not made
\* has none.
TriedInv ==
  /\ \A w \in Downloaders : wpc[w] = "client" => info[wjob[w]].attempt > 0
  /\ \A j \in Jobs \ Issued : info[j].attempt = 0

\* The attempts of what a downloader holds are written by that downloader alone.
LEMMA TriedStep == IInv /\ TriedInv /\ [Next]_vars => TriedInv'
<1> SUFFICES ASSUME IInv, TriedInv, [Next]_vars  PROVE TriedInv'
  OBVIOUS
<1>a. TypeOK /\ OnePlace /\ NothingLost
  BY DEF IInv
<1>b. \A w \in Downloaders : wpc[w] = "client" => wjob[w] \in InFlight /\ wjob[w] \in Jobs
  BY HeldByWorker
<1>1. ASSUME NEW t \in Readers, NEW j \in Jobs, AppendNewDownload(t, j)  PROVE TriedInv'
  <2>1. /\ \A i \in Jobs \ {j} : info'[i] = info[i]
        /\ j \notin InFlight /\ UNCHANGED <<wpc, wjob>>
    BY <1>a, <1>1 DEF TypeOK, AppendNewDownload, InFlight, worker
  <2>2. Issued' = Issued \cup {j}
    BY <1>1 DEF IInv, TypeOK, Holding, AppendNewDownload, Issued, NewInfo
  <2>3. QED  BY <1>b, <2>1, <2>2 DEF TriedInv
<1>2. ASSUME NEW w \in Downloaders, StartAttempt(w)  PROVE TriedInv'
  <2> DEFINE j == wjob[w]
  <2>1. j \in Jobs /\ j # None /\ info[j] \in Info /\ info \in [Jobs -> Info]
    BY <1>a, <1>2, HeldByWorker DEF StartAttempt, TypeOK
  <2>2. /\ \A i \in Jobs \ {j} : info'[i] = info[i]
        /\ \A v \in Downloaders \ {w} : wpc'[v] = wpc[v] /\ wjob[v] # j
        /\ wjob' = wjob
    BY <1>a, <1>2, <2>1, WrapperWrites DEF StartAttempt, TypeOK, OnePlace
  <2>3. wpc'[w] = "client" => info'[j].attempt = info[j].attempt + 1
    BY <1>a, <1>2, <2>1 DEF StartAttempt, TypeOK, Info
  <2>4. wpc'[w] = "client" => info'[j].attempt > 0
    BY <2>1, <2>3 DEF Info
  <2>5. \A v \in Downloaders \ {w} : wpc[v] = "client" => info'[wjob[v]] = info[wjob[v]]
    BY <1>b, <2>2
  <2>6. Issued' = Issued /\ j \in Issued
    BY <1>2, HeldByWorker, WrapperWrites DEF StartAttempt, InFlight
  <2>7. QED  BY <2>2, <2>4, <2>5, <2>6 DEF TriedInv
<1>3. ASSUME NEW w \in Downloaders, FileFound(w) \/ (FileMissing(w) /\ ~ProcessGone)
      PROVE  TriedInv'
  <2> DEFINE j == wjob[w]
  <2>1. j \in Jobs /\ j # None
    BY <1>3, HeldByWorker DEF FileFound, FileMissing
  <2>2. /\ \A i \in Jobs \ {j} : info'[i] = info[i]
        /\ \A v \in Downloaders \ {w} : wpc'[v] = wpc[v] /\ wjob[v] # j
        /\ wpc'[w] # "client" /\ wjob' = wjob
    BY <1>a, <1>3, <2>1, WrapperWrites DEF FileFound, FileMissing, TypeOK, OnePlace
  <2>3. \A v \in Downloaders \ {w} : wpc[v] = "client" => info'[wjob[v]] = info[wjob[v]]
    BY <1>b, <2>2
  <2>4. Issued' = Issued /\ j \in Issued
    BY <1>3, HeldByWorker, WrapperWrites DEF FileFound, FileMissing, InFlight
  <2>5. QED  BY <2>2, <2>3, <2>4 DEF TriedInv
<1>4. CASE ProcessGone
  BY <1>4 DEF ProcessGone, TriedInv, Issued
<1>5. ASSUME NEW w \in Downloaders, PollJob(w) \/ RunClient(w) \/ HandleOutput(w)
      PROVE  TriedInv'
  BY <1>a, <1>5 DEF TypeOK, PollJob, RunClient, HandleOutput, TriedInv, Issued
<1>6. ASSUME UNCHANGED <<info, worker>>  PROVE TriedInv'
  BY <1>6 DEF worker, TriedInv, Issued
<1>7. ASSUME NEW t \in Readers, ReadStep(t)  PROVE TriedInv'
  <2>1. ASSUME NEW p \in Paths, BeginRead(t, p)  PROVE UNCHANGED <<info, worker>>
    BY <2>1 DEF BeginRead
  <2>2. CASE LookupCache(t) \/ CheckDownloading(t) \/ SetDownloading(t)
    BY <1>6, <2>2 DEF LookupCache, CheckDownloading, SetDownloading
  <2>3. QED  BY <1>1, <1>6, <1>7, <2>1, <2>2 DEF ReadStep
<1>8. CASE (\E n \in Notifiers : NotifyStep(n)) \/ Mount \/ UNCHANGED vars
  BY <1>6, <1>8 DEF NotifyStep, PollDownloaded, Notify, Mount, vars
<1>9. QED
  BY <1>2, <1>3, <1>4, <1>5, <1>7, <1>8 DEF Next, DownloadStep, Stop

\* The status of a request changes only with its being made, reported or lost.
LEMMA StatusFrame ==
  ASSUME Issued' = Issued, UNCHANGED <<notified, lost>>,
         \A j \in notified : info'[j].downloaded = info[j].downloaded
  PROVE  ServiceStatus' = ServiceStatus
BY DEF ServiceStatus

\* A request in flight is pending.
LEMMA InFlightPends ==
  ASSUME NEW j \in InFlight
  PROVE  j \in Jobs /\ ServiceStatus[j] = "pending"
BY DEF InFlight, Issued, ServiceStatus

\* A step that leaves requests and files as they are is none of the service.
LEMMA ServiceStutters ==
  ASSUME UNCHANGED <<info, disk, notified, lost>>
  PROVE  UNCHANGED Service!vars
BY DEF Service!vars, ServiceStatus, Issued

\* Appending to the queue makes a request.
LEMMA AppendIsRequest ==
  ASSUME IInv, TriedInv, NEW t \in Readers, NEW j \in Jobs, AppendNewDownload(t, j)
  PROVE  Service!Request(j)
<1>1. rpath[t] \in Paths /\ rpath[t] # None /\ info \in [Jobs -> Info]
  BY PathsAssumption DEF AppendNewDownload, IInv, TypeOK, Holding
<1>2. /\ info' = [info EXCEPT ![j] = NewInfo(rpath[t])]
      /\ j \notin Issued /\ UNCHANGED <<disk, notified, lost>>
  BY DEF AppendNewDownload, history
<1>3. j \notin notified \cup lost /\ info[j].path = None
  BY <1>2 DEF IInv, EndedWereIssued, Issued
<1>4. Issued' = Issued \cup {j}
  BY <1>1, <1>2 DEF Issued, NewInfo
<1>5. ServiceStatus[j] = "new"
  BY <1>2, <1>3 DEF ServiceStatus
<1>6. ServiceStatus' = [ServiceStatus EXCEPT ![j] = "pending"]
  BY <1>1, <1>2, <1>3, <1>4 DEF ServiceStatus
<1>7. [i \in Jobs |-> info'[i].path] = [[i \in Jobs |-> info[i].path] EXCEPT ![j] = rpath[t]]
  BY <1>1, <1>2 DEF NewInfo
<1>8. [i \in Jobs |-> info'[i].attempt] = [i \in Jobs |-> info[i].attempt]
  BY <1>1, <1>2 DEF TriedInv, NewInfo
<1>9. QED  BY <1>1, <1>2, <1>5, <1>6, <1>7, <1>8 DEF Service!Request

\* An attempt is a try, while attempts are left.
LEMMA AttemptIsTry ==
  ASSUME IInv, NEW w \in Downloaders, StartAttempt(w)
  PROVE  Service!Try(wjob[w]) \/ UNCHANGED Service!vars
<1> DEFINE j == wjob[w]
<1>1. j \in Jobs /\ j \in InFlight /\ info[j] \in Info /\ info \in [Jobs -> Info]
        /\ info[j].path \in Loaded
  BY HeldByWorker DEF StartAttempt, IInv, TypeOK
<1>2. /\ \A i \in Jobs : info'[i].path = info[i].path
      /\ \A i \in Jobs \ {j} : info'[i] = info[i]
      /\ Issued' = Issued /\ UNCHANGED <<disk, notified, lost>>
  BY WrapperWrites DEF StartAttempt, history
<1>3. ServiceStatus' = ServiceStatus /\ ServiceStatus[j] = "pending" /\ j \notin notified
  BY <1>1, <1>2, StatusFrame, InFlightPends DEF InFlight, IInv, TypeOK
<1>4. [i \in Jobs |-> info'[i].path] = [i \in Jobs |-> info[i].path]
  BY <1>2
<1>5. CASE AttemptsLeft(j)
  <2>1. info'[j].attempt = info[j].attempt + 1
    BY <1>1, <1>5 DEF StartAttempt, Info
  <2>2. info[j].attempt < MAX_ATTEMPTS
    BY <1>5 DEF AttemptsLeft
  <2>3. [i \in Jobs |-> info'[i].attempt]
          = [[i \in Jobs |-> info[i].attempt] EXCEPT ![j] = info[j].attempt + 1]
    BY <1>1, <1>2, <2>1
  <2>4. QED  BY <1>1, <1>2, <1>3, <1>4, <2>2, <2>3 DEF Service!Try
<1>6. CASE ~AttemptsLeft(j)
  <2>1. info'[j].attempt = info[j].attempt
    BY <1>1, <1>6 DEF StartAttempt, Info
  <2>2. [i \in Jobs |-> info'[i].attempt] = [i \in Jobs |-> info[i].attempt]
    BY <1>2, <2>1
  <2>3. QED  BY <1>2, <1>3, <1>4, <2>2 DEF Service!vars
<1>7. QED  BY <1>5, <1>6

\* What the client leaves on the disk is fetched in a try.
LEMMA ClientIsFetch ==
  ASSUME IInv, TriedInv, NEW w \in Downloaders, RunClient(w)
  PROVE  Service!Fetch(wjob[w]) \/ UNCHANGED Service!vars
<1> DEFINE j == wjob[w]
<1>1. j \in Jobs /\ j \in InFlight /\ info[j].attempt > 0
  BY HeldByWorker DEF RunClient, TriedInv
<1>2. UNCHANGED <<info, notified, lost>> /\ (disk' = disk \/ disk' = disk \cup {info[j].path})
  BY DEF RunClient, history
<1>3. ServiceStatus' = ServiceStatus /\ ServiceStatus[j] = "pending"
  BY <1>1, <1>2, StatusFrame, InFlightPends DEF Issued
<1>4. CASE disk' = disk
  BY <1>2, <1>4, ServiceStutters
<1>5. CASE disk' = disk \cup {info[j].path}
  BY <1>1, <1>2, <1>3, <1>5 DEF Service!Fetch
<1>6. QED  BY <1>2, <1>4, <1>5

\* Looking for the file answers nothing yet.
LEMMA VerifyIsSilent ==
  ASSUME IInv, NEW w \in Downloaders, FileFound(w) \/ (FileMissing(w) /\ ~ProcessGone)
  PROVE  UNCHANGED Service!vars
<1> DEFINE j == wjob[w]
<1>1. j \in Jobs /\ j \in InFlight /\ info[j] \in Info /\ info \in [Jobs -> Info]
  BY HeldByWorker DEF FileFound, FileMissing, IInv, TypeOK
<1>2. /\ \A i \in Jobs : info'[i].path = info[i].path
      /\ \A i \in Jobs \ {j} : info'[i] = info[i]
      /\ Issued' = Issued /\ UNCHANGED <<disk, notified, lost>>
  BY WrapperWrites DEF FileFound, FileMissing, history
<1>3. ServiceStatus' = ServiceStatus
  BY <1>1, <1>2, StatusFrame DEF InFlight, IInv, TypeOK
<1>4. info'[j].attempt = info[j].attempt
  BY <1>1 DEF FileFound, FileMissing, Info
<1>5. [i \in Jobs |-> info'[i].attempt] = [i \in Jobs |-> info[i].attempt]
  BY <1>2, <1>4
<1>6. [i \in Jobs |-> info'[i].path] = [i \in Jobs |-> info[i].path]
  BY <1>2
<1>7. QED  BY <1>2, <1>3, <1>5, <1>6 DEF Service!vars

\* A report is an answer, and is earned.
LEMMA NotifyIsAnswer ==
  ASSUME IInv, NEW n \in Notifiers, Notify(n)
  PROVE  Service!Answer(njob[n])
<1> DEFINE j == njob[n]
<1>1. j \in HeldByNotifier /\ j \in InFlight
  BY DEF Notify, HeldByNotifier, IInv, NothingLost
<1>2. Earned(j)
  BY <1>1 DEF IInv, ReportsAreEarned
<1>3. UNCHANGED <<info, disk, lost>> /\ notified' = notified \cup {j}
  BY DEF Notify
<1>4. j \in Jobs /\ ServiceStatus[j] = "pending" /\ j \in Issued /\ j \notin lost
  BY <1>1, InFlightPends DEF InFlight
<1>5. ServiceStatus'
        = [ServiceStatus EXCEPT ![j] = IF info[j].downloaded THEN "ok" ELSE "failed"]
  BY <1>3, <1>4 DEF ServiceStatus, Issued
<1>6. QED  BY <1>2, <1>3, <1>4, <1>5 DEF Service!Answer, Earned

\* A process that goes drops all that is pending.
LEMMA GoneIsDrop ==
  ASSUME IInv, ProcessGone  PROVE Service!Drop
<1>1. UNCHANGED <<info, disk, notified>> /\ lost' = lost \cup InFlight /\ Issued' = Issued
  BY DEF ProcessGone, Issued
<1>2. notified \cup lost \subseteq Issued
  BY DEF IInv, EndedWereIssued
<1>3. ServiceStatus'
        = [j \in Jobs |-> IF ServiceStatus[j] = "pending" THEN "lost" ELSE ServiceStatus[j]]
  BY <1>1, <1>2 DEF ServiceStatus, InFlight
<1>4. QED  BY <1>1, <1>3 DEF Service!Drop

LEMMA StepIsServices ==
  ASSUME IInv, TriedInv, [Next]_vars
  PROVE  [Service!Next]_(Service!vars)
<1>1. ASSUME NEW t \in Readers, ReadStep(t)  PROVE [Service!Next]_(Service!vars)
  <2>1. CASE \E j \in Jobs : AppendNewDownload(t, j)
    BY <2>1, AppendIsRequest DEF Service!Next
  <2>2. CASE (\E p \in Paths : BeginRead(t, p)) \/ LookupCache(t) \/ CheckDownloading(t)
             \/ SetDownloading(t)
    BY <2>2, ServiceStutters DEF BeginRead, LookupCache, CheckDownloading, SetDownloading, history
  <2>3. QED  BY <1>1, <2>1, <2>2 DEF ReadStep
<1>2. ASSUME NEW w \in Downloaders, DownloadStep(w)  PROVE [Service!Next]_(Service!vars)
  <2>1. CASE StartAttempt(w)
    <3>1. wjob[w] \in Jobs
      BY <2>1, HeldByWorker DEF StartAttempt
    <3>2. Service!Try(wjob[w]) \/ UNCHANGED Service!vars
      BY <2>1, AttemptIsTry
    <3>3. (\E j \in Jobs : Service!Try(j)) \/ UNCHANGED Service!vars
      BY <3>1, <3>2 DEF Service!Try
    <3>4. QED  BY <3>3 DEF Service!Next
  <2>2. CASE RunClient(w)
    <3>1. wjob[w] \in Jobs
      BY <2>2, HeldByWorker DEF RunClient
    <3>2. QED  BY <2>2, <3>1, ClientIsFetch DEF Service!Next
  <2>3. CASE FileFound(w) \/ (FileMissing(w) /\ ~ProcessGone)
    BY <2>3, VerifyIsSilent
  <2>4. CASE ProcessGone
    BY <2>4, GoneIsDrop DEF Service!Next
  <2>5. CASE PollJob(w) \/ HandleOutput(w)
    BY <2>5, ServiceStutters DEF PollJob, HandleOutput, history
  <2>6. QED  BY <1>2, <2>1, <2>2, <2>3, <2>4, <2>5 DEF DownloadStep
<1>3. ASSUME NEW n \in Notifiers, NotifyStep(n)  PROVE [Service!Next]_(Service!vars)
  <2>1. CASE PollDownloaded(n)
    BY <2>1, ServiceStutters DEF PollDownloaded, history
  <2>2. CASE Notify(n)
    <3>1. njob[n] \in Jobs
      BY <2>2 DEF Notify, IInv, TypeOK
    <3>2. QED  BY <2>2, <3>1, NotifyIsAnswer DEF Service!Next
  <2>3. QED  BY <1>3, <2>1, <2>2 DEF NotifyStep
<1>4. CASE Stop
  BY <1>4, GoneIsDrop DEF Stop, Service!Next
<1>5. CASE Mount \/ UNCHANGED vars
  BY <1>5, ServiceStutters DEF Mount, vars, history
<1>6. QED  BY <1>1, <1>2, <1>3, <1>4, <1>5 DEF Next

\* Every behaviour of the pipeline is one of the plain service, for any numbers of threads,
\* paths and requests: each step is a request, a try, a fetch, an answer, the loss of all
\* that is pending, or nothing.
THEOREM ServiceImplemented == Spec => ImplementsSafety
<1>1. Init => Service!Init
  BY DEF Init, Service!Init, NewInfo, ServiceStatus, Issued
<1>2. Init => TriedInv
  BY DEF Init, TriedInv, NewInfo
<1>3. IInv /\ TriedInv /\ [Next]_vars => TriedInv'
  BY TriedStep
<1>4. IInv /\ TriedInv /\ [Next]_vars => [Service!Next]_(Service!vars)
  BY StepIsServices
<1>5. QED
  BY <1>1, <1>2, <1>3, <1>4, Invariant, PTL DEF Spec, ImplementsSafety, Service!Safety

--------------------------------------------------------------------------------
(* Every hand-over brings a request nearer to its end *)

Busy == {"start", "client", "verify", "output"}

\* What a request still has before it at each place a request can be.
Places ==
  \A j \in InFlight :
    /\ AttemptsToGo(j) \in 0 .. MAX_ATTEMPTS
    /\ j \in HeldByNotifier => StepsToGo(j) = 1
    /\ j \in Range(downloaded) => StepsToGo(j) = 2
    /\ j \in Range(toDownload) => StepsToGo(j) = 5 * AttemptsToGo(j) + 5
    /\ \A w \in Downloaders : wjob[w] = j =>
         /\ wpc[w] = "start" => StepsToGo(j) = 5 * AttemptsToGo(j) + 4
         /\ wpc[w] = "client" => StepsToGo(j) = 5 * AttemptsToGo(j) + 8
         /\ wpc[w] = "verify" => StepsToGo(j) = 5 * AttemptsToGo(j) + 7
         /\ wpc[w] = "output" =>
              StepsToGo(j) = IF Finished(j) THEN 3 ELSE 5 * AttemptsToGo(j) + 6

LEMMA AtPlaces == IInv => Places
<1> SUFFICES ASSUME IInv, NEW j \in InFlight
             PROVE  /\ AttemptsToGo(j) \in 0 .. MAX_ATTEMPTS
                    /\ j \in HeldByNotifier => StepsToGo(j) = 1
                    /\ j \in Range(downloaded) => StepsToGo(j) = 2
                    /\ j \in Range(toDownload) => StepsToGo(j) = 5 * AttemptsToGo(j) + 5
                    /\ \A w \in Downloaders : wjob[w] = j =>
                         /\ wpc[w] = "start" => StepsToGo(j) = 5 * AttemptsToGo(j) + 4
                         /\ wpc[w] = "client" => StepsToGo(j) = 5 * AttemptsToGo(j) + 8
                         /\ wpc[w] = "verify" => StepsToGo(j) = 5 * AttemptsToGo(j) + 7
                         /\ wpc[w] = "output" =>
                              StepsToGo(j) = IF Finished(j) THEN 3 ELSE 5 * AttemptsToGo(j) + 6
  BY Zenon DEF Places
<1>1. OnePlace /\ j \in Jobs /\ j # None /\ info[j] \in Info
  BY JobsAssumption DEF IInv, TypeOK, InFlight, Issued
<1>2. AttemptsToGo(j) \in 0 .. MAX_ATTEMPTS
  BY <1>1 DEF AttemptsToGo, Info, MAX_ATTEMPTS
<1>3. \A w \in Downloaders : wjob[w] = j => j \in HeldByDownloader
  BY <1>1 DEF HeldByDownloader
<1>4. \A s : HeldAt(j, s) => j \in HeldByDownloader
  BY <1>3 DEF HeldAt
<1>5. ASSUME NEW w \in Downloaders, wjob[w] = j, NEW s
      PROVE  HeldAt(j, s) <=> wpc[w] = s
  BY <1>1, <1>5 DEF HeldAt, OnePlace
<1>6. /\ j \in HeldByNotifier => j \notin Range(toDownload) \cup HeldByDownloader
      /\ j \in Range(downloaded) => j \notin Range(toDownload) \cup HeldByDownloader \cup HeldByNotifier
      /\ j \in Range(toDownload) => j \notin HeldByDownloader
  BY <1>1 DEF OnePlace
<1> HIDE DEF IInv
<1>7. j \in HeldByNotifier => StepsToGo(j) = 1
  BY DEF StepsToGo
<1>8. j \in Range(downloaded) => StepsToGo(j) = 2
  BY <1>6 DEF StepsToGo
<1>9. j \in Range(toDownload) => StepsToGo(j) = 5 * AttemptsToGo(j) + 5
  BY <1>4, <1>6 DEF StepsToGo
<1>10. ASSUME NEW w \in Downloaders, wjob[w] = j
       PROVE  /\ wpc[w] = "start" => StepsToGo(j) = 5 * AttemptsToGo(j) + 4
              /\ wpc[w] = "client" => StepsToGo(j) = 5 * AttemptsToGo(j) + 8
              /\ wpc[w] = "verify" => StepsToGo(j) = 5 * AttemptsToGo(j) + 7
              /\ wpc[w] = "output" =>
                   StepsToGo(j) = IF Finished(j) THEN 3 ELSE 5 * AttemptsToGo(j) + 6
  <2>1. j \notin HeldByNotifier /\ j \notin Range(downloaded)
    BY <1>3, <1>6, <1>10
  <2>2. \A s : HeldAt(j, s) <=> wpc[w] = s
    BY <1>5, <1>10
  <2> QED  BY <2>1, <2>2 DEF StepsToGo
<1> QED  BY <1>2, <1>7, <1>8, <1>9, <1>10

Countable == \A j : StepsToGo(j) \in Nat

LEMMA StepsAreNat == IInv => Countable
<1> SUFFICES ASSUME IInv, NEW j  PROVE StepsToGo(j) \in Nat
  BY DEF Countable
<1>1. j \in InFlight => AttemptsToGo(j) \in 0 .. MAX_ATTEMPTS
  BY AtPlaces DEF Places
<1>2. QED  BY <1>1 DEF StepsToGo, MAX_ATTEMPTS

\* A request that stays where it is, and as it is, has as much before it as it had.
LEMMA StepsFrame ==
  ASSUME NEW i, info'[i] = info[i],
         i \in InFlight' <=> i \in InFlight,
         i \in HeldByNotifier' <=> i \in HeldByNotifier,
         i \in Range(downloaded)' <=> i \in Range(downloaded),
         \A s \in Busy : HeldAt(i, s)' <=> HeldAt(i, s)
  PROVE  StepsToGo(i)' = StepsToGo(i)
<1>1. /\ HeldAt(i, "start")' <=> HeldAt(i, "start")
      /\ HeldAt(i, "client")' <=> HeldAt(i, "client")
      /\ HeldAt(i, "verify")' <=> HeldAt(i, "verify")
      /\ HeldAt(i, "output")' <=> HeldAt(i, "output")
  BY DEF Busy
<1>2. (Finished(i)' <=> Finished(i)) /\ AttemptsToGo(i)' = AttemptsToGo(i)
  BY DEF Finished, AttemptsToGo
<1>3. QED  BY <1>1, <1>2 DEF StepsToGo

\* A downloader that takes, works on or hands over request j leaves the others in place.
LEMMA OthersStay ==
  ASSUME NEW w \in Downloaders, NEW j, NEW i, i # j, i # None,
         wjob[w] \in {j, None}, wjob'[w] \in {j, None},
         \A v \in Downloaders \ {w} : wjob'[v] = wjob[v] /\ wpc'[v] = wpc[v],
         info'[i] = info[i], Issued' = Issued, UNCHANGED <<njob, notified, lost>>,
         i \in Range(downloaded)' <=> i \in Range(downloaded)
  PROVE  StepsToGo(i)' = StepsToGo(i)
<1>1. \A s : HeldAt(i, s)' <=> HeldAt(i, s)
  BY DEF HeldAt
<1>2. InFlight' = InFlight /\ HeldByNotifier' = HeldByNotifier
  BY DEF InFlight, HeldByNotifier
<1>3. QED  BY <1>1, <1>2, StepsFrame

\* One request comes nearer to its end, and the others stay where they are.
Nearer(j) ==
  /\ j \in InFlight /\ StepsToGo(j)' < StepsToGo(j)
  /\ \A i \in Issued \ {j} : StepsToGo(i)' = StepsToGo(i)

LEMMA PolledIsNearer ==
  ASSUME IInv, IInv', NEW w \in Downloaders, PollJob(w), NEW j, j = Head(toDownload)
  PROVE  Nearer(j)
<1>1. j \in Range(toDownload) /\ j \in Jobs /\ j # None
  BY TakeHead, JobsAssumption DEF PollJob, IInv, TypeOK, OnePlace
<1>2. /\ wjob[w] = None /\ wjob'[w] = j /\ wpc'[w] = "start"
      /\ \A v \in Downloaders \ {w} : wjob'[v] = wjob[v] /\ wpc'[v] = wpc[v]
      /\ info' = info /\ downloaded' = downloaded /\ UNCHANGED <<njob, notified, lost>>
  BY DEF PollJob, IInv, TypeOK, Holding, history
<1>3. Issued' = Issued /\ InFlight' = InFlight /\ j \in InFlight
  BY <1>1, <1>2 DEF Issued, InFlight, IInv, NothingLost
<1>4. StepsToGo(j) = 5 * AttemptsToGo(j) + 5 /\ AttemptsToGo(j) \in 0 .. MAX_ATTEMPTS
  BY <1>1, <1>3, AtPlaces DEF Places
<1>5. Places'
  BY AtPlaces, PTL
<1>6. StepsToGo(j)' = 5 * AttemptsToGo(j)' + 4
  BY <1>2, <1>3, <1>5 DEF Places
<1>7. AttemptsToGo(j)' = AttemptsToGo(j)
  BY <1>2 DEF AttemptsToGo
<1>8. StepsToGo(j)' < StepsToGo(j)
  BY <1>4, <1>6, <1>7 DEF MAX_ATTEMPTS
<1>9. ASSUME NEW i \in Issued \ {j}  PROVE StepsToGo(i)' = StepsToGo(i)
  <2>1. i \in Jobs /\ i # None /\ i # j
    BY JobsAssumption DEF Issued
  <2>2. QED  BY <1>2, <1>3, <2>1, OthersStay
<1>10. QED  BY <1>3, <1>8, <1>9 DEF Nearer

\* In an attempt: from each stage of the wrapper to the next.
LEMMA WrappedIsNearer ==
  ASSUME IInv, IInv', NEW w \in Downloaders, NEW j, j = wjob[w],
         \/ StartAttempt(w)
         \/ RunClient(w)
         \/ FileFound(w)
         \/ FileMissing(w) /\ ~ProcessGone
  PROVE  Nearer(j)
<1>1. /\ j \in Jobs /\ j # None /\ j \in InFlight /\ info[j].path \in Loaded
      /\ info[j] \in Info /\ info \in [Jobs -> Info]
  BY HeldByWorker DEF StartAttempt, RunClient, FileFound, FileMissing, IInv, TypeOK
<1>2. /\ wjob' = wjob /\ downloaded' = downloaded /\ UNCHANGED <<njob, notified, lost>>
      /\ \A v \in Downloaders \ {w} : wpc'[v] = wpc[v]
  BY DEF StartAttempt, RunClient, FileFound, FileMissing, history, IInv, TypeOK
<1>3. Issued' = Issued /\ \A i \in Jobs \ {j} : info'[i] = info[i]
  <2>1. CASE RunClient(w)
    BY <2>1 DEF RunClient, Issued
  <2>2. CASE ~RunClient(w)
    BY <2>2, WrapperWrites
  <2>3. QED  BY <2>1, <2>2
<1>4. InFlight' = InFlight
  BY <1>2, <1>3 DEF InFlight
<1>5. ASSUME NEW i \in Issued \ {j}  PROVE StepsToGo(i)' = StepsToGo(i)
  <2>1. i \in Jobs /\ i # None /\ i # j
    BY JobsAssumption DEF Issued
  <2>2. QED  BY <1>2, <1>3, <2>1, OthersStay
<1>6. Places /\ Places'
  BY AtPlaces, PTL
<1>7. AttemptsToGo(j) \in 0 .. MAX_ATTEMPTS /\ AttemptsToGo(j)' \in 0 .. MAX_ATTEMPTS
  BY <1>1, <1>4, <1>6 DEF Places
<1>8. StepsToGo(j)' < StepsToGo(j)
  <2>1. CASE StartAttempt(w)
    <3>1. wpc[w] = "start" /\ Waiting(j)
      BY <2>1 DEF StartAttempt, IInv, StageFacts
    <3>2. StepsToGo(j) = 5 * AttemptsToGo(j) + 4
      BY <1>1, <1>6, <3>1 DEF Places
    <3>3. AttemptsLeft(j) <=> info[j].attempt < MAX_ATTEMPTS
      BY <3>1 DEF AttemptsLeft, Waiting, FILE_NOT_FOUND, SETTINGS_NOT_FOUND
    <3>4. CASE AttemptsLeft(j)
      <4>1. wpc'[w] = "client" /\ info'[j].attempt = info[j].attempt + 1
        BY <1>1, <2>1, <3>4 DEF StartAttempt, IInv, TypeOK, Info
      <4>2. AttemptsToGo(j)' = AttemptsToGo(j) - 1
        BY <1>1, <4>1 DEF AttemptsToGo, Info, MAX_ATTEMPTS
      <4>3. StepsToGo(j)' = 5 * AttemptsToGo(j)' + 8
        BY <1>1, <1>2, <1>4, <1>6, <4>1 DEF Places
      <4>4. QED  BY <1>7, <3>2, <4>2, <4>3 DEF MAX_ATTEMPTS
    <3>5. CASE ~AttemptsLeft(j)
      <4>1. wpc'[w] = "output" /\ info'[j].code = TOO_MANY_ATTEMPTS
        BY <1>1, <2>1, <3>5 DEF StartAttempt, IInv, TypeOK, Info
      <4>2. Finished(j)'
        BY <4>1 DEF Finished
      <4>3. StepsToGo(j)' = 3
        BY <1>1, <1>2, <1>4, <1>6, <4>1, <4>2 DEF Places
      <4>4. QED  BY <1>7, <3>2, <4>3 DEF MAX_ATTEMPTS
    <3>6. QED  BY <3>4, <3>5
  <2>2. CASE RunClient(w)
    <3>1. wpc[w] = "client" /\ wpc'[w] = "verify" /\ info' = info
      BY <2>2 DEF RunClient, IInv, TypeOK
    <3>2. StepsToGo(j) = 5 * AttemptsToGo(j) + 8
      BY <1>1, <1>6, <3>1 DEF Places
    <3>3. StepsToGo(j)' = 5 * AttemptsToGo(j)' + 7
      BY <1>1, <1>2, <1>4, <1>6, <3>1 DEF Places
    <3>4. AttemptsToGo(j)' = AttemptsToGo(j)
      BY <1>2, <3>1 DEF AttemptsToGo
    <3>5. QED  BY <1>7, <3>2, <3>3, <3>4 DEF MAX_ATTEMPTS
  <2>3. CASE FileFound(w)
    <3>1. wpc[w] = "verify" /\ wpc'[w] = "output" /\ info'[j].downloaded
      BY <1>1, <2>3 DEF FileFound, IInv, TypeOK, Info
    <3>2. StepsToGo(j) = 5 * AttemptsToGo(j) + 7
      BY <1>1, <1>6, <3>1 DEF Places
    <3>3. Finished(j)'
      BY <1>2, <3>1 DEF Finished
    <3>4. StepsToGo(j)' = 3
      BY <1>1, <1>2, <1>4, <1>6, <3>1, <3>3 DEF Places
    <3>5. QED  BY <1>7, <3>2, <3>4 DEF MAX_ATTEMPTS
  <2>4. CASE FileMissing(w) /\ ~ProcessGone
    <3>a. info' = [info EXCEPT ![j].code = FILE_NOT_FOUND, ![j].downloaded = FALSE]
      BY <2>4 DEF FileMissing
    <3>1. /\ wpc[w] = "verify" /\ wpc'[w] = "output"
          /\ ~info'[j].downloaded /\ info'[j].code = FILE_NOT_FOUND
          /\ info'[j].attempt = info[j].attempt
      <4>1. wpc[w] = "verify" /\ wpc'[w] = "output"
        BY <2>4 DEF FileMissing, IInv, TypeOK
      <4>2. QED  BY <1>1, <3>a, <4>1 DEF Info
    <3>2. StepsToGo(j) = 5 * AttemptsToGo(j) + 7
      BY <1>1, <1>6, <3>1 DEF Places
    <3>3. ~Finished(j)'
      BY <1>2, <3>1 DEF Finished, FILE_NOT_FOUND, TOO_MANY_ATTEMPTS
    <3>4. StepsToGo(j)' = 5 * AttemptsToGo(j)' + 6
      BY <1>1, <1>2, <1>4, <1>6, <3>1, <3>3 DEF Places
    <3>5. AttemptsToGo(j)' = AttemptsToGo(j)
      BY <1>2, <3>1 DEF AttemptsToGo
    <3>6. QED  BY <1>7, <3>2, <3>4, <3>5 DEF MAX_ATTEMPTS
  <2>5. QED  BY <2>1, <2>2, <2>3, <2>4
<1>9. QED  BY <1>1, <1>5, <1>8 DEF Nearer

\* handle_output: on to the notifiers, or round again with an attempt less.
LEMMA HandedOverIsNearer ==
  ASSUME IInv, IInv', NEW w \in Downloaders, HandleOutput(w), NEW j, j = wjob[w]
  PROVE  Nearer(j)
<1>1. /\ j \in Jobs /\ j # None /\ j \in InFlight
      /\ j \notin Range(toDownload) /\ j \notin Range(downloaded)
      /\ IsInjective(toDownload) /\ IsInjective(downloaded)
      /\ toDownload \in Seq(Jobs) /\ downloaded \in Seq(Jobs)
  <2>1. j \in HeldByDownloader /\ j \in Jobs /\ j # None /\ j \in InFlight
    BY HeldByWorker DEF HandleOutput
  <2>2. QED  BY <2>1 DEF IInv, TypeOK, OnePlace
<1>2. /\ wpc[w] = "output" /\ wjob'[w] = None /\ info' = info
      /\ \A v \in Downloaders \ {w} : wjob'[v] = wjob[v] /\ wpc'[v] = wpc[v]
      /\ UNCHANGED <<njob, notified, lost>>
  BY DEF HandleOutput, history, IInv, TypeOK
<1>3. Issued' = Issued /\ InFlight' = InFlight
  BY <1>2 DEF Issued, InFlight
<1>4. Places /\ Places'
  BY AtPlaces, PTL
<1>5. AttemptsToGo(j) \in 0 .. MAX_ATTEMPTS /\ AttemptsToGo(j)' = AttemptsToGo(j)
  <2>1. AttemptsToGo(j)' = AttemptsToGo(j)
    BY <1>2 DEF AttemptsToGo
  <2>2. QED  BY <1>1, <1>4, <2>1 DEF Places
<1>6. \/ /\ Finished(j) /\ Range(downloaded)' = Range(downloaded) \cup {j}
      \/ /\ ~Finished(j) /\ Range(toDownload)' = Range(toDownload) \cup {j}
         /\ downloaded' = downloaded
  <2>1. CASE Finished(j)
    <3>1. downloaded' = Append(downloaded, j)
      BY <2>1 DEF HandleOutput, Route
    <3>2. QED  BY <1>1, <2>1, <3>1, AppendFresh
  <2>2. CASE ~Finished(j)
    <3>1. toDownload' = Append(toDownload, j) /\ downloaded' = downloaded
      BY <2>2 DEF HandleOutput, Route
    <3>2. QED  BY <1>1, <2>2, <3>1, AppendFresh
  <2>3. QED  BY <2>1, <2>2
<1>7. StepsToGo(j) = IF Finished(j) THEN 3 ELSE 5 * AttemptsToGo(j) + 6
  BY <1>1, <1>2, <1>4 DEF Places
<1>8. StepsToGo(j)' < StepsToGo(j)
  <2>1. CASE Finished(j)
    <3>1. StepsToGo(j)' = 2
      BY <1>1, <1>3, <1>4, <1>6, <2>1 DEF Places
    <3>2. QED  BY <1>7, <2>1, <3>1
  <2>2. CASE ~Finished(j)
    <3>1. StepsToGo(j)' = 5 * AttemptsToGo(j)' + 5
      BY <1>1, <1>3, <1>4, <1>6, <2>2 DEF Places
    <3>2. QED  BY <1>5, <1>7, <2>2, <3>1 DEF MAX_ATTEMPTS
  <2>3. QED  BY <2>1, <2>2
<1>9. ASSUME NEW i \in Issued \ {j}  PROVE StepsToGo(i)' = StepsToGo(i)
  <2>1. i \in Jobs /\ i # None /\ i # j
    BY JobsAssumption DEF Issued
  <2>2. i \in Range(downloaded)' <=> i \in Range(downloaded)
    BY <1>6, <2>1
  <2>3. wjob[w] \in {j, None} /\ wjob'[w] \in {j, None} /\ info'[i] = info[i]
    BY <1>2
  <2>4. QED  BY <1>2, <1>3, <2>1, <2>2, <2>3, OthersStay
<1>10. QED  BY <1>1, <1>8, <1>9 DEF Nearer

\* A notifier takes a request, and reports it.
LEMMA ReportedIsNearer ==
  ASSUME IInv, IInv', NEW n \in Notifiers, NEW j,
         \/ PollDownloaded(n) /\ j = Head(downloaded)
         \/ Notify(n) /\ j = njob[n]
  PROVE  Nearer(j)
<1>1. /\ UNCHANGED <<info, wpc, wjob, lost>>
      /\ \A m \in Notifiers \ {n} : njob'[m] = njob[m]
      /\ njob \in [Notifiers -> Jobs \cup {None}]
  BY DEF PollDownloaded, Notify, worker, history, IInv, TypeOK
<1>2. Issued' = Issued /\ \A i, s : HeldAt(i, s)' <=> HeldAt(i, s)
  BY <1>1 DEF Issued, HeldAt
<1>3. Places /\ Places'
  BY AtPlaces, PTL
<1>4. CASE PollDownloaded(n) /\ j = Head(downloaded)
  <2>1. /\ j \in Range(downloaded) /\ j \in Jobs /\ j # None
        /\ Range(downloaded') = Range(downloaded) \ {j}
    BY <1>4, TakeHead, JobsAssumption DEF PollDownloaded, IInv, TypeOK, OnePlace
  <2>2. njob[n] = None /\ njob'[n] = j /\ notified' = notified
    BY <1>1, <1>4 DEF PollDownloaded, history
  <2>3. HeldByNotifier' = HeldByNotifier \cup {j}
    BY <1>1, <2>1, <2>2 DEF HeldByNotifier
  <2>4. InFlight' = InFlight /\ j \in InFlight
    BY <1>1, <1>2, <2>1, <2>2 DEF InFlight, IInv, NothingLost
  <2>5. StepsToGo(j) = 2 /\ StepsToGo(j)' = 1
    BY <1>3, <2>1, <2>3, <2>4 DEF Places
  <2>6. ASSUME NEW i \in Issued \ {j}  PROVE StepsToGo(i)' = StepsToGo(i)
    <3>1. i \in Range(downloaded)' <=> i \in Range(downloaded)
      BY <2>1
    <3>2. info'[i] = info[i] /\ (i \in InFlight' <=> i \in InFlight)
            /\ (i \in HeldByNotifier' <=> i \in HeldByNotifier)
      BY <1>1, <2>3, <2>4
    <3>3. QED  BY <1>2, <3>1, <3>2, StepsFrame
  <2>7. QED  BY <2>4, <2>5, <2>6 DEF Nearer
<1>5. CASE Notify(n) /\ j = njob[n]
  <2>1. /\ j \in HeldByNotifier /\ njob'[n] = None /\ notified' = notified \cup {j}
        /\ downloaded' = downloaded
    BY <1>1, <1>5 DEF Notify, HeldByNotifier
  <2>2. j \in InFlight /\ InFlight' = InFlight \ {j}
    BY <1>1, <1>2, <2>1 DEF InFlight, IInv, NothingLost
  <2>3. HeldByNotifier' = HeldByNotifier \ {j}
    <3>1. \A m \in Notifiers \ {n} : njob[m] # j
      BY <1>5, <2>1 DEF IInv, OnePlace, HeldByNotifier
    <3>2. QED  BY <1>1, <1>5, <2>1, <3>1 DEF HeldByNotifier
  <2>4. StepsToGo(j) = 1
    BY <1>3, <2>1, <2>2 DEF Places
  <2>5. StepsToGo(j)' = 0
    BY <2>2 DEF StepsToGo
  <2>6. ASSUME NEW i \in Issued \ {j}  PROVE StepsToGo(i)' = StepsToGo(i)
    <3>1. i \in Range(downloaded)' <=> i \in Range(downloaded)
      BY <2>1
    <3>2. info'[i] = info[i] /\ (i \in InFlight' <=> i \in InFlight)
            /\ (i \in HeldByNotifier' <=> i \in HeldByNotifier)
      BY <1>1, <2>2, <2>3
    <3>3. QED  BY <1>2, <3>1, <3>2, StepsFrame
  <2>7. QED  BY <2>2, <2>4, <2>5, <2>6 DEF Nearer
<1>6. QED  BY <1>4, <1>5

\* Everything is at its end once the process is gone.
LEMMA GoneIsNearer ==
  ASSUME IInv, ProcessGone
  PROVE  \A j : StepsToGo(j)' = 0 /\ StepsToGo(j)' <= StepsToGo(j)
<1>1. InFlight' = {}
  BY DEF ProcessGone, InFlight, Issued
<1>2. \A j : StepsToGo(j)' = 0
  BY <1>1 DEF StepsToGo
<1>3. QED  BY <1>2, StepsAreNat DEF Countable

\* A reader leaves the requests there are as they are, whether it makes one or not.
LEMMA ReadingStays ==
  ASSUME IInv, NEW t \in Readers, ReadStep(t), NEW i \in Issued
  PROVE  StepsToGo(i)' = StepsToGo(i)
<1>1. UNCHANGED <<downloaded, wpc, wjob, njob, notified, lost>> /\ info'[i] = info[i]
  <2>1. ASSUME NEW j \in Jobs, AppendNewDownload(t, j)
        PROVE  /\ UNCHANGED <<downloaded, wpc, wjob, njob, notified, lost>>
               /\ info'[i] = info[i]
    <3>1. i # j /\ i \in Jobs
      BY <2>1 DEF AppendNewDownload, Issued
    <3>2. QED  BY <2>1, <3>1 DEF AppendNewDownload, worker, history, IInv, TypeOK
  <2>2. ASSUME NEW p \in Paths, BeginRead(t, p)
        PROVE  UNCHANGED <<downloaded, wpc, wjob, njob, notified, lost, info>>
    BY <2>2 DEF BeginRead, worker, history
  <2>3. CASE LookupCache(t) \/ CheckDownloading(t) \/ SetDownloading(t)
    BY <2>3 DEF LookupCache, CheckDownloading, SetDownloading, worker, history
  <2>4. QED  BY <2>1, <2>2, <2>3 DEF ReadStep
<1>2. i \in Jobs /\ i \in Issued'
  BY <1>1 DEF Issued
<1>3. (i \in InFlight' <=> i \in InFlight) /\ HeldByNotifier' = HeldByNotifier
  BY <1>1, <1>2 DEF InFlight, HeldByNotifier
<1>4. \A s : HeldAt(i, s)' <=> HeldAt(i, s)
  BY <1>1 DEF HeldAt
<1>5. QED  BY <1>1, <1>3, <1>4, StepsFrame

Falls ==
  /\ \A j \in Issued : StepsToGo(j)' <= StepsToGo(j)
  /\ PipelineStep => \E j \in InFlight : StepsToGo(j)' < StepsToGo(j)

LEMMA NearerFalls ==
  ASSUME IInv, IInv', NEW j, Nearer(j)  PROVE Falls
<1>1. \A i : StepsToGo(i) \in Nat
  BY StepsAreNat DEF Countable
<1>2. \A i : StepsToGo(i)' \in Nat
  <2>1. Countable'
    BY StepsAreNat, PTL
  <2>2. QED  BY <2>1 DEF Countable
<1>3. ASSUME NEW i \in Issued  PROVE StepsToGo(i)' <= StepsToGo(i)
  <2>1. CASE i = j
    BY <1>1, <1>2, <2>1 DEF Nearer
  <2>2. CASE i # j
    BY <1>1, <1>2, <2>2 DEF Nearer
  <2>3. QED  BY <2>1, <2>2
<1>4. QED  BY <1>3 DEF Nearer, Falls

LEMMA StepFalls ==
  ASSUME IInv, IInv', [Next]_vars
  PROVE  Falls
<1>1. ASSUME NEW w \in Downloaders, DownloadStep(w)  PROVE Falls
  <2>1. CASE PollJob(w)
    BY <2>1, PolledIsNearer, NearerFalls
  <2>2. CASE StartAttempt(w) \/ RunClient(w) \/ FileFound(w) \/ (FileMissing(w) /\ ~ProcessGone)
    BY <2>2, WrappedIsNearer, NearerFalls
  <2>3. CASE FileMissing(w) /\ ProcessGone
    <3>1. wpc[w] = "verify" /\ wjob[w] \in InFlight
      BY <2>3, HeldByWorker DEF FileMissing
    <3>2. PICK j \in InFlight : j = wjob[w]
      BY <3>1
    <3>3. StepsToGo(j) = 5 * AttemptsToGo(j) + 7 /\ AttemptsToGo(j) \in 0 .. MAX_ATTEMPTS
      BY <3>1, <3>2, AtPlaces DEF Places
    <3>4. StepsToGo(j) > 0
      BY <3>3 DEF MAX_ATTEMPTS
    <3>5. StepsToGo(j)' < StepsToGo(j)
      BY <2>3, <3>3, <3>4, GoneIsNearer DEF MAX_ATTEMPTS
    <3>6. QED  BY <2>3, <3>5, GoneIsNearer DEF Falls
  <2>4. CASE HandleOutput(w)
    BY <2>4, HandedOverIsNearer, NearerFalls
  <2>5. QED  BY <1>1, <2>1, <2>2, <2>3, <2>4 DEF DownloadStep
<1>2. ASSUME NEW n \in Notifiers, NotifyStep(n)  PROVE Falls
  BY <1>2, ReportedIsNearer, NearerFalls DEF NotifyStep
<1>3. CASE ~PipelineStep
  <2>1. ASSUME NEW i \in Issued  PROVE StepsToGo(i)' <= StepsToGo(i)
    <3>1. StepsToGo(i) \in Nat
      BY StepsAreNat DEF Countable
    <3>2. CASE \E t \in Readers : ReadStep(t)
      BY <3>1, <3>2, ReadingStays
    <3>3. CASE Stop
      BY <3>3, GoneIsNearer DEF Stop
    <3>4. CASE Mount \/ UNCHANGED vars
      <4>1. UNCHANGED <<downloaded, wpc, wjob, njob, notified, lost, info>>
        BY <3>4 DEF Mount, vars, worker, history
      <4>2. /\ InFlight' = InFlight /\ HeldByNotifier' = HeldByNotifier
            /\ \A s : HeldAt(i, s)' <=> HeldAt(i, s)
        BY <4>1 DEF InFlight, Issued, HeldByNotifier, HeldAt
      <4>3. StepsToGo(i)' = StepsToGo(i)
        BY <4>1, <4>2, StepsFrame
      <4>4. QED  BY <3>1, <4>3
    <3>5. QED  BY <1>3, <3>2, <3>3, <3>4 DEF Next, PipelineStep
  <2>2. QED  BY <1>3, <2>1 DEF Falls
<1>4. QED  BY <1>1, <1>2, <1>3 DEF PipelineStep

\* No step takes a request further from its end, and each step of a pool takes one nearer,
\* for any numbers of threads, paths and requests (the loops of both stages, the wrapper's
\* attempts, handle_output).
THEOREM WorkIsNotRepeated == Spec => StepsFall
<1>1. IInv /\ IInv' /\ [Next]_vars => Falls
  BY StepFalls
<1>2. IInv /\ IInv' /\ [Next]_vars => [Falls]_vars
  BY <1>1
<1>3. QED  BY <1>2, Invariant, PTL DEF Spec, StepsFall, Falls

\* A request is handed on twenty-five times at the most.
BoundedWork == \A j \in Jobs : StepsToGo(j) \in 0 .. 5 * MAX_ATTEMPTS + 5

\* A request is made by appending it to the queue, and in no other way.
LEMMA MadeIsQueued ==
  ASSUME IInv, [Next]_vars, NEW i \in Jobs, i \notin Issued, i \in Issued'
  PROVE  i \in Range(toDownload)'
<1>1. PICK t \in Readers : ReadStep(t)
  <2>1. ASSUME NEW w \in Downloaders, DownloadStep(w)  PROVE Issued' = Issued
    <3>1. CASE StartAttempt(w) \/ FileFound(w) \/ (FileMissing(w) /\ ~ProcessGone)
      BY <3>1, WrapperWrites
    <3>2. CASE PollJob(w) \/ RunClient(w) \/ HandleOutput(w) \/ ProcessGone
      BY <3>2 DEF PollJob, RunClient, HandleOutput, ProcessGone, Issued
    <3>3. QED  BY <2>1, <3>1, <3>2 DEF DownloadStep
  <2>2. ASSUME NEW n \in Notifiers, NotifyStep(n)  PROVE Issued' = Issued
    BY <2>2 DEF NotifyStep, PollDownloaded, Notify, Issued
  <2>3. ASSUME Stop \/ Mount \/ UNCHANGED vars  PROVE Issued' = Issued
    BY <2>3 DEF Stop, ProcessGone, Mount, vars, Issued
  <2>4. QED  BY <2>1, <2>2, <2>3 DEF Next
<1>2. PICK j \in Jobs : AppendNewDownload(t, j)
  <2>1. ASSUME NEW p \in Paths, BeginRead(t, p)  PROVE Issued' = Issued
    BY <2>1 DEF BeginRead, Issued
  <2>2. ASSUME LookupCache(t) \/ CheckDownloading(t) \/ SetDownloading(t)
        PROVE  Issued' = Issued
    BY <2>2 DEF LookupCache, CheckDownloading, SetDownloading, Issued
  <2>3. QED  BY <1>1, <2>1, <2>2 DEF ReadStep
<1>3. i = j
  BY <1>2 DEF AppendNewDownload, Issued, IInv, TypeOK
<1>4. i \notin InFlight /\ toDownload \in Seq(Jobs) /\ IsInjective(toDownload)
  BY DEF IInv, TypeOK, OnePlace, InFlight
<1>5. i \notin Range(toDownload)
  BY <1>4 DEF IInv, NothingLost
<1>6. QED  BY <1>2, <1>3, <1>4, <1>5, AppendFresh DEF AppendNewDownload

\* However often it is put back, a request has a bounded number of hand-overs before it
\* from the moment it is made (append_new_download, handle_output).
THEOREM WorkIsBounded == Spec => []BoundedWork
<1>1. Init => BoundedWork
  BY DEF Init, BoundedWork, StepsToGo, InFlight, Issued, NewInfo, MAX_ATTEMPTS
<1>2. ASSUME IInv, IInv', [Next]_vars, BoundedWork  PROVE BoundedWork'
  <2> SUFFICES ASSUME NEW i \in Jobs
               PROVE  StepsToGo(i)' \in 0 .. 5 * MAX_ATTEMPTS + 5
    BY DEF BoundedWork
  <2>1. StepsToGo(i)' \in Nat /\ StepsToGo(i) \in 0 .. 5 * MAX_ATTEMPTS + 5
    <3>1. Countable'
      BY <1>2, StepsAreNat, PTL
    <3>2. QED  BY <1>2, <3>1 DEF BoundedWork, Countable
  <2>2. CASE i \in Issued
    <3>1. StepsToGo(i)' <= StepsToGo(i)
      BY <1>2, <2>2, StepFalls DEF Falls
    <3>2. QED  BY <2>1, <3>1 DEF MAX_ATTEMPTS
  <2>3. CASE i \notin Issued
    <3>1. CASE i \notin InFlight'
      BY <3>1 DEF StepsToGo, MAX_ATTEMPTS
    <3>2. CASE i \in InFlight'
      <4>1. (Places)'
        BY <1>2, AtPlaces, PTL
      <4>2. i \in Issued' /\ AttemptsToGo(i)' \in 0 .. MAX_ATTEMPTS
        BY <3>2, <4>1 DEF Places, InFlight
      <4>3. i \in Range(toDownload)'
        BY <1>2, <2>3, <4>2, MadeIsQueued
      <4>4. StepsToGo(i)' = 5 * AttemptsToGo(i)' + 5
        BY <3>2, <4>1, <4>3 DEF Places
      <4>5. QED  BY <4>2, <4>4 DEF MAX_ATTEMPTS
    <3>3. QED  BY <3>1, <3>2
  <2>4. QED  BY <2>2, <2>3
<1>3. QED  BY <1>1, <1>2, Invariant, PTL DEF Spec
================================================================================
