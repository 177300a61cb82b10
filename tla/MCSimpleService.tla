-------------------------- MODULE MCSimpleService --------------------------
(* The instance of SimpleService for TLC: one connection object per side,  *)
(* and the values 0 and 1 of a button and one other byte.                  *)
EXTENDS SimpleService

Bytes == {0, 1, 2}
=============================================================================
