------------------------------ MODULE MCMailer ------------------------------
(* Small instances of Mailer for TLC.                                        *)
EXTENDS Mailer
=============================================================================
