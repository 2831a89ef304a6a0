--------------------------- MODULE MCEnterprises ----------------------------
(***************************************************************************)
(* Instances of Enterprises for TLC.                                       *)
(***************************************************************************)
EXTENDS Enterprises, TLC

(* Requests differ in what they choose to do only.                         *)
MCSymmetry == Permutations(Requests)

AccountKinds == {"register", "verify", "resend", "login", "confirm", "refresh", "logout",
                 "forget", "reset", "status", "oauth"}
EnterpriseKinds == {"enroll", "cancel", "remove", "amend", "patch", "review"}
MCKinds == AccountKinds \cup EnterpriseKinds
=============================================================================
