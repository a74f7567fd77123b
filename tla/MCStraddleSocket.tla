---------------------------- MODULE MCStraddleSocket ---------------------------
(* Small instances of StraddleSocket for TLC. *)
EXTENDS StraddleSocket

================================================================================
