------------------------------ MODULE MCPolling ------------------------------
(* An instance of Polling for TLC: two controllers in the list.              *)
EXTENDS Polling
CONSTANTS c1, c2
MCPollId == {c1, c2}
=============================================================================
