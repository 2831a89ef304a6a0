---------------------------- MODULE EnterpriseRow ----------------------------
(***************************************************************************)
(* One row of the table "enterprises" and the way TypeORM's               *)
(* Repository.save writes it.  save does not send an increment: it SELECTs *)
(* the row again, keeps the columns whose value in the entity differs from *)
(* that fresh copy, runs the @BeforeUpdate hook of a class instance, and   *)
(* then UPDATEs the remaining columns with the absolute values of the      *)
(* entity.  The SELECT and the UPDATE are two round trips, so other        *)
(* handlers may write the row between them.                                *)
(*                                                                         *)
(* Only the columns the handlers of this system read back are kept.        *)
(* is_trial is left out: the code only ever writes FALSE to it.            *)
(***************************************************************************)
EXTENDS Integers

(* EnterpriseStatus, common/enums/enterprise-status.enum.ts *)
Statuses == {"PENDING", "ACTIVE", "REJECTED", "BLOCKED"}

Columns == {"totalPoints", "isPremium", "status"}

Row == [totalPoints : Int, isPremium : BOOLEAN, status : Statuses]

(* What save is given: the columns the object carries, with their values.  *)
Entity == [cols : SUBSET Columns, val : Row]

(* A class instance or a spread of one, read with every column.            *)
WholeRow(r) == [cols |-> Columns, val |-> r]

(* The instance findOneById selects: of these columns, total_points only.  *)
PointsOnly(r) == [cols |-> {"totalPoints"}, val |-> r]

Changed(e, db) == {c \in e.cols : e.val[c] # db[c]}

(* checkPremiumStatus: an instance saved with 0 points is no longer premium. *)
MutNoHook(e) == e
CheckPremiumStatus(e) ==
    IF e.val.totalPoints = 0
      THEN [cols |-> e.cols \cup {"isPremium"}, val |-> [e.val EXCEPT !.isPremium = FALSE]]
      ELSE e

(* The UPDATE save issues for e when its SELECT returned db.  The hook runs *)
(* only when something has to be written, and the difference is then       *)
(* computed once more.                                                     *)
UpdateOf(e, db, hooked) ==
    LET h == IF hooked /\ Changed(e, db) # {} THEN CheckPremiumStatus(e) ELSE e
    IN  [cols |-> Changed(h, db), val |-> h.val]

(* The row after the UPDATE u.                                             *)
Updated(db, u) ==
    [totalPoints |-> IF "totalPoints" \in u.cols THEN u.val.totalPoints ELSE db.totalPoints,
     isPremium   |-> IF "isPremium" \in u.cols THEN u.val.isPremium ELSE db.isPremium,
     status      |-> IF "status" \in u.cols THEN u.val.status ELSE db.status]
=============================================================================
