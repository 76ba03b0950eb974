--------------------------- MODULE MCQueueSender ----------------------------
(***************************************************************************)
(* QueueSender with two senders in one process and two accounts.           *)
(***************************************************************************)
EXTENDS QueueSender, TLC

CONSTANTS q1, q2, a1, a2

TwoQueues   == {q1, q2}
TwoAccounts == {a1, a2}
=============================================================================
