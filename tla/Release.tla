------------------------------ MODULE Release ------------------------------
(* What the repay watcher promises a borrower: a release is put on chain only *)
(* for a loan that was repaid in full, and once there it stays there.         *)
EXTENDS FiniteSets

CONSTANT Txids

VARIABLES owed,     \* loans repaid in full
          released  \* loans whose co-signed release the contract shows

Init == owed = {} /\ released = {}

RepayInFull(t) == t \notin owed /\ owed' = owed \union {t} /\ UNCHANGED released

Publish(t) == t \in owed \ released /\ released' = released \union {t} /\ UNCHANGED owed

Next == \E t \in Txids : RepayInFull(t) \/ Publish(t)

Spec == Init /\ [][Next]_<<owed, released>>
============================================================================
