---------------------------- MODULE MCIpamBytes ----------------------------
(* A small instance of IpamBytes.                                          *)
EXTENDS IpamBytes
MCBlocks == {{ip \in IP : ip[1] = d} : d \in Digit} \cup {IP}
=============================================================================
