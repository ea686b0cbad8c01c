---------------------------- MODULE MCSealedRoom ----------------------------
(* An instance of SealedRoom: two guests, and a host that may reload once. *)
EXTENDS SealedRoom

CONSTANTS h1, h2, g1, g2

MCHosts == <<h1, h2>>
MCArrivals == <<g1, g2>>
=============================================================================
