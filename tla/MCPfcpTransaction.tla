------------------------- MODULE MCPfcpTransaction -------------------------
(* Instances of PfcpTransaction.                                             *)
EXTENDS PfcpTransaction
=============================================================================
