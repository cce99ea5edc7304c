---------------------------- MODULE MCStoredCase ----------------------------
(* The instances of MCRiggingCase with the tables of the store.            *)
EXTENDS MCRiggingCase, StoredCase
=============================================================================
