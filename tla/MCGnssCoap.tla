----------------------------- MODULE MCGnssCoap -----------------------------
(* The tracker with a token of a few values.                               *)
EXTENDS GnssCoap

\* Requests are built while main() receives, as in the common case.
OnlyWhileReceiving == wq = "idle" \/ pc \in {"recv", "parse", "token"}
=============================================================================
