-------------------------- MODULE MCProjectWorker --------------------------
(* Small instances of ProjectWorker for TLC.                               *)
EXTENDS ProjectWorker, TLC

CONSTANTS t1, t2, d1, d2, d3, d4

MCRank == t1 :> 1 @@ t2 :> 2

\* The seven kinds of content, spread over the runs.
PackPlain    == d1 :> "applies"
PackAuto     == d1 :> "applies" @@ d2 :> "corrupt"
PackManual   == d1 :> "applies" @@ d2 :> "strays" @@ d3 :> "empty"
PackRecovery == d1 :> "conflicts" @@ d2 :> "corrupt" @@ d3 :> "malformed"
                @@ d4 :> "unusable"
=============================================================================
