------------------------------ MODULE MCSession -------------------------------
(* A tab in which an account logs in and out that is given any role, in an RT *)
(* or its RW; beside it an RT the account never belongs to.                  *)
EXTENDS Session

CONSTANTS rw, rt, rt2

Groups == {rw, rt, rt2}
Parents == [g \in Groups |-> IF g = rw THEN NoGroup ELSE rw]
=============================================================================
