---------------------------- MODULE MCP2PServer ----------------------------
(***************************************************************************)
(* Two client requests against a queue of one slot, so that one stream   *)
(* can be dropped by TryAcquire while the other waits on the queue or     *)
(* runs, and each client's hard timeout can race its server's answer.     *)
(***************************************************************************)
EXTENDS P2PServer

CONSTANTS s1, s2

MCStreams == {s1, s2}
MCQueueSize == 1
=============================================================================
