------------------------------ MODULE MCHelper ------------------------------
(* Three of the offsets the getters read: 0x480, 0x4A0 and 0x520.           *)
EXTENDS Helper

MCOffsets == {"QAF", "UPDATE_MODE", "ACTIVATION"}
=============================================================================
