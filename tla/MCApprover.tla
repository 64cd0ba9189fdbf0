----------------------------- MODULE MCApprover -----------------------------
(* Instances of Approver for TLC. *)
EXTENDS Approver

CONSTANTS r1, r2, r3, m1, m2, m3, chatA, chatB

\* r1, r2 and the messages share a chat; r3 is in another.
KeyOfMC == [r \in Requests |-> IF r = r3 THEN chatB ELSE chatA]
ChatOfMC == [m \in Messages |-> chatA]
=============================================================================
