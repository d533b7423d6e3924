------------------------------ MODULE MCInbox -------------------------------
(* Instances of Inbox for TLC.                                             *)
EXTENDS Inbox

CONSTANTS d1, q1, q2, w1, none
=============================================================================
