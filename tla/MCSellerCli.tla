----------------------------- MODULE MCSellerCli -----------------------------
(***************************************************************************)
(* Two processes, two sellers, two logins.                                 *)
(***************************************************************************)
EXTENDS SellerCli
=============================================================================
