------------------------------ MODULE MCWatcher ------------------------------
(* One root, a repository or a watched folder, for TLC.                    *)
EXTENDS Watcher, TLC

=============================================================================
