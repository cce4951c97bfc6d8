---------------------------- MODULE MCCertStore ----------------------------
(* A small instance of CertStore: two lives of the program, three           *)
(* handshakes for two names, and a cache of one entry, so that one evicts    *)
(* the other.  The users' keys are in each of the formats; only the first    *)
(* has a certificate that can be parsed, so that a CA of its own and one     *)
(* whose key and certificate do not belong together can be loaded.           *)
EXTENDS CertStore

CONSTANTS u1, u2, u3, u4

MCUsers == {u1, u2, u3, u4}

MCKeyFormat == [u \in MCUsers |-> CASE u = u1 -> "PKCS1"
                                    [] u = u2 -> "PKCS8"
                                    [] u = u3 -> "notRSA"
                                    [] u = u4 -> "unknown"]
=============================================================================
