-------------------------- MODULE MCRecoveryEntry --------------------------
(* The boards of the runs of RecoveryEntry. *)
EXTENDS RecoveryEntry

Board(platforms, delays, commands) ==
    {[platform |-> p, bootdelay |-> d, commands |-> commands] :
        p \in platforms, d \in delays}

(* Every platform; IPQ6018 without a second bootipq, IPQ5332 not started   *)
(* by hand, and no server stopped and started again.                       *)
Boards ==
    Board(Platforms, {-1, 0}, {"net", "stop"})
        \cup Board(Platforms \ {"ipq6018"}, {0}, {"net", "bootipq"})
        \cup Board(Platforms \ {"ipq5332"}, {-1}, {"httpd", "net"})
=============================================================================
