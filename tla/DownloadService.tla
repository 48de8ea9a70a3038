---------------------------- MODULE DownloadService ----------------------------
(******************************************************************************)
(* What the download pipeline promises to the file system above it, with no   *)
(* queues and no threads: an accepted request is tried at most MaxTries       *)
(* times, is answered at most once, is answered "ok" only when the file is in *)
(* the local cache, is answered "failed" only when every try has been used,   *)
(* and is dropped unanswered only when the process goes away.                 *)
(******************************************************************************)
EXTENDS Naturals

CONSTANTS
  Jobs,       \* identities of download requests
  Paths,      \* the files that can be asked for
  None,       \* the target of a request that was not made
  MaxTries    \* tries a request is given

VARIABLES
  target,     \* the path a request asks for
  tries,      \* tries used by a request
  status,     \* "new", "pending", "ok", "failed" or "lost"
  files       \* paths that have a file in the local cache directory

vars == <<target, tries, status, files>>

Init ==
  /\ target = [j \in Jobs |-> None]
  /\ tries = [j \in Jobs |-> 0]
  /\ status = [j \in Jobs |-> "new"]
  /\ files = {}

Request(j) ==
  /\ status[j] = "new"
  /\ \E p \in Paths : target' = [target EXCEPT ![j] = p]
  /\ status' = [status EXCEPT ![j] = "pending"]
  /\ UNCHANGED <<tries, files>>

Try(j) ==
  /\ status[j] = "pending"
  /\ tries[j] < MaxTries
  /\ tries' = [tries EXCEPT ![j] = @ + 1]
  /\ UNCHANGED <<target, status, files>>

\* A file appears only on behalf of a request that is being tried.
Fetch(j) ==
  /\ status[j] = "pending"
  /\ tries[j] > 0
  /\ files' = files \cup {target[j]}
  /\ UNCHANGED <<target, tries, status>>

Answer(j) ==
  /\ status[j] = "pending"
  /\ \/ /\ target[j] \in files
        /\ status' = [status EXCEPT ![j] = "ok"]
     \/ /\ tries[j] = MaxTries
        /\ status' = [status EXCEPT ![j] = "failed"]
  /\ UNCHANGED <<target, tries, files>>

\* The process is unmounted, killed or crashes: every open request goes with it.
Drop ==
  /\ status' = [j \in Jobs |-> IF status[j] = "pending" THEN "lost" ELSE status[j]]
  /\ UNCHANGED <<target, tries, files>>

Next ==
  \/ \E j \in Jobs : Request(j) \/ Try(j) \/ Fetch(j) \/ Answer(j)
  \/ Drop

Fairness == \A j \in Jobs : WF_vars(Try(j)) /\ WF_vars(Answer(j))

\* What the service never does, and what it does in the end.
Safety == Init /\ [][Next]_vars

Spec == Safety /\ Fairness
================================================================================
