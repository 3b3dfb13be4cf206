---------------------------- MODULE MCEventPipeline ----------------------------
(* Small instances of EventPipeline for TLC.                               *)
EXTENDS EventPipeline

CONSTANTS MailAttempts, LogAttempts

MCAttempts == [mail |-> MailAttempts, log |-> LogAttempts]
=============================================================================
