--------------------------- MODULE MCMailSendQueue ---------------------------
(* An instance of the send queue for TLC.                                  *)
EXTENDS MailSendQueue
=============================================================================
