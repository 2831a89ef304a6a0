--------------------------- MODULE MCExpiryQueue ----------------------------
(***************************************************************************)
(* Instances of ExpiryQueue for TLC.                                       *)
(***************************************************************************)
EXTENDS ExpiryQueue, TLC

CONSTANTS p1, p2

MCProfiles == {p1, p2}
MCJobs == 1..2

(* The enterprise of p1 posted job 1, the one of p2 job 2.                 *)
MCEmployer == [j \in MCJobs |-> IF j = 1 THEN p1 ELSE p2]

(* What meets in a row of the database or in the queue.                    *)
MCMixes == {{"apply", "uploadCv", "updateCv", "deleteCv"},
            {"apply", "decide", "markRead", "markAll"},
            {"round", "markAll"}}
MCDecisions == {{"decide"}}

MCSymmetry == Permutations(Requests) \cup Permutations(Cvs) \cup Permutations(Processors)
=============================================================================
