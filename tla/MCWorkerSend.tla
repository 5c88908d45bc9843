---------------------------- MODULE MCWorkerSend ----------------------------
(* Two processes of one connection that overlap, a media command and a       *)
(* reaction.                                                                 *)
EXTENDS WorkerSend

CONSTANTS w1, w2
=============================================================================
