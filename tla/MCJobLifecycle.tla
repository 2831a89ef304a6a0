--------------------------- MODULE MCJobLifecycle ---------------------------
(***************************************************************************)
(* Instances of JobLifecycle for TLC.                                      *)
(***************************************************************************)
EXTENDS JobLifecycle, TLC

CONSTANTS j1, j2, t1, t2, other

(* Everything names job j1, except the calls in other.                     *)
MCTarget == [r \in Requests |-> IF r \in other THEN j2 ELSE j1]

(* The relations an update replaces those of the start by.                 *)
MCFirst == {t1}
MCChoices == {{t2}, {t1, t2}}
MCOneChoice == {{t2}}

(* A deadline that is over soon and one after the last day.                *)
MCDeadlines == {0, 3}

(* A deadline of today.                                                    *)
MCToday == {0}

(* Updates of the same job are interchangeable.                            *)
MCSymmetry == Permutations(Updates)
=============================================================================
