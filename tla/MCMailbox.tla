------------------------------ MODULE MCMailbox ------------------------------
(* Mailbox for TLC. *)
EXTENDS Mailbox
=============================================================================
