----------------------------- MODULE MCSipLogs -----------------------------
(* An instance of SipLogs for TLC with one direction of the log.           *)
EXTENDS SipLogs
MCTopics == <<"receive">>
=============================================================================
