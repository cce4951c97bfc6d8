------------------------------ MODULE MCTunnel ------------------------------
(* A small instance of Tunnel: a client connection that makes plain requests  *)
(* to two hosts, or a CONNECT.                                                *)
EXTENDS Tunnel
=============================================================================
