--------------------------- MODULE MCRecoveryLan ---------------------------
(***************************************************************************)
(* The recovery network for TLC: Dhcpd and RecoveryNetwork.  They share no *)
(* variable, so one of them rests in an initial state while the other one  *)
(* is explored.                                                            *)
(*                                                                         *)
(* RecoveryNetwork has 7-bit addresses: /24 has 32 addresses, the pool     *)
(* spans 12 and falls back to 3, so every clipping and wrapping happens.   *)
(* Clients of the DHCP server are told apart only by equality, and so are  *)
(* the addresses of its pool.                                              *)
(***************************************************************************)
EXTENDS Dhcpd, RecoveryNetwork, TLC

PowersOfTwo == {1, 2, 4, 8, 16, 32, 64, 128}

Interchangeable == Permutations(Mac) \cup Permutations(Pool)

lanVars == <<vars, netVars>>

\* The network that rests while the DHCP server is explored.
AtRest == NetInit /\ env.ip = 0 /\ env.size = Size24

LanInit == Init /\ NetInit

LanNext ==
    \/ AtRest /\ Next /\ UNCHANGED netVars
    \/ Init /\ NetNext /\ UNCHANGED vars

LanSpec == LanInit /\ [][LanNext]_lanVars
=============================================================================
