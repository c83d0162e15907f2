------------------------------- MODULE MCDhcp -------------------------------
(***************************************************************************)
(* Two servers for Dhcp: one on the client's network, one behind a relay.  *)
(* The first one's identifier shares an octet with the relay's address;    *)
(* the second one's shares none with any sender, its own relay's included. *)
(***************************************************************************)
EXTENDS Dhcp, TLC

CONSTANTS near, far

MCServers == {near, far}
MCIdentifier == near :> <<10, 0, 0, 1>> @@ far :> <<172, 16, 9, 2>>
MCSender     == near :> <<10, 0, 0, 1>> @@ far :> <<10, 0, 7, 3>>
=============================================================================
