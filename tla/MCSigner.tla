------------------------------ MODULE MCSigner ------------------------------
(***************************************************************************)
(* Signer on a small instance: two calls, which is what a race takes, and  *)
(* blocks for both operations.                                             *)
(***************************************************************************)
EXTENDS Signer, TLC

CONSTANTS c1, c2

TwoCalls == {c1, c2}
=============================================================================
