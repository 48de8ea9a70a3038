-------------------------- MODULE MCDownloadPipeline --------------------------
(******************************************************************************)
(* Small instances of the download pipeline for TLC: two files of a loaded    *)
(* server and one of a server that is not loaded.                             *)
(******************************************************************************)
EXTENDS DownloadPipeline, TLC

CONSTANTS t1, t2, w1, w2, n1, f1, f2, g, j1, j2

OneReader == {t1}
TwoReaders == {t1, t2}
OneDownloader == {w1}
TwoDownloaders == {w1, w2}
OneNotifier == {n1}
SomePaths == {f1, f2, g}
LoadedPaths == {f1, f2}
TwoJobs == {j1, j2}

EitherOutcome == {"crash", "survive"}

Symmetry ==
  Permutations({t1, t2}) \cup Permutations({w1, w2}) \cup Permutations({j1, j2})
    \cup Permutations({f1, f2})
================================================================================
