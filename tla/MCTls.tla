-------------------------------- MODULE MCTls --------------------------------
EXTENDS Tls

MCRequestLengths == <<2, 1, 3>>
MCSent == <<[byte |-> 1, last |-> TRUE]>>
=============================================================================
