----------------------------- MODULE PointLedger -----------------------------
(***************************************************************************)
(* What the points of an enterprise promise, without handlers, rows or     *)
(* stale reads: an account with an opening balance to which every purchase *)
(* and every boost is posted at most once, for exactly its amount; a boost *)
(* is posted only once the job has been boosted, and a purchase leaves a   *)
(* transaction and then a history entry only once it has been posted.      *)
(***************************************************************************)
EXTENDS Integers

CONSTANTS Purchases, Charges, Opening

VARIABLES
    amount,     \* [Purchases \cup Charges -> Int], fixed
    balance,
    posted,     \* entries whose amount is in the balance
    backed,     \* charges whose job has been boosted
    recorded,   \* purchases with a transaction
    journaled   \* purchases with a history entry

ledger == <<amount, balance, posted, backed, recorded, journaled>>

Entries == Purchases \cup Charges

Init ==
    /\ amount \in [Entries -> Int]
    /\ balance = Opening
    /\ posted = {} /\ backed = {} /\ recorded = {} /\ journaled = {}

Back(c) ==
    /\ backed' = backed \cup {c}
    /\ UNCHANGED <<amount, balance, posted, recorded, journaled>>

Post(e) ==
    /\ e \notin posted
    /\ e \in Charges => e \in backed
    /\ posted' = posted \cup {e}
    /\ balance' = balance + amount[e]
    /\ UNCHANGED <<amount, backed, recorded, journaled>>

Record(p) ==
    /\ p \in posted
    /\ recorded' = recorded \cup {p}
    /\ UNCHANGED <<amount, balance, posted, backed, journaled>>

Journal(p) ==
    /\ p \in recorded
    /\ journaled' = journaled \cup {p}
    /\ UNCHANGED <<amount, balance, posted, backed, recorded>>

Next ==
    \/ \E c \in Charges : Back(c)
    \/ \E e \in Entries : Post(e)
    \/ \E p \in Purchases : Record(p) \/ Journal(p)

Spec == Init /\ [][Next]_ledger
=============================================================================
