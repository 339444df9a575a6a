---------------------------- MODULE MCMailWorker ----------------------------
(***************************************************************************)
(* A few mails for TLC: one the handler is at, and some behind it that may *)
(* fail in their turn.                                                     *)
(***************************************************************************)
EXTENDS MailWorker
=============================================================================
