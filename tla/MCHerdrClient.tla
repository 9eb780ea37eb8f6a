---------------------------- MODULE MCHerdrClient ----------------------------
(***************************************************************************)
(* One pane whose agent has two states, queues of one message, three moves *)
(* of the host: changes, lost streams, restarts, refused requests.         *)
(***************************************************************************)
EXTENDS HerdrClient

=============================================================================
