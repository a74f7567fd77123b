----------------------------- MODULE MCFeedRouter ------------------------------
(* Small instances of FeedRouter for TLC. *)
EXTENDS FeedRouter, TLC

Symmetric == Permutations(Session)

================================================================================
