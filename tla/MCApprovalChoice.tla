--------------------------- MODULE MCApprovalChoice ---------------------------
(* ApprovalChoice on batches on both sides of the eight a prompt lists, with *)
(* lists that are valid, repeat, or leave the batch.                         *)
EXTENDS ApprovalChoice

Written == {<<i>> : i \in 0 .. 11} \cup ((0 .. 4) \X (0 .. 4)) \cup {<<1, 3, 5>>, <<1, 9, 10>>, <<3, 2, 3>>}
=============================================================================
