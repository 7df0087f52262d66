------------------------ MODULE MCRemediationJournal ------------------------
(***************************************************************************)
(* The journal on a small instance: enough transactions for one to follow  *)
(* each way of closing, and enough crashes for two rows in a row to be     *)
(* lost or torn.                                                           *)
(***************************************************************************)
EXTENDS RemediationJournal
=============================================================================
