-------------------------- MODULE RecoveryNetwork --------------------------
(***************************************************************************)
(* The addresses of the recovery network: do_httpd and                     *)
(* httpd_set_recovery_network (net/httpd.c), and the pool that             *)
(* dhcpd_ip_settings (net/dhcpd.c) derives from ipaddr and netmask.        *)
(*                                                                         *)
(* Addresses are numbers below 2^w, in host order; sums wrap as uint32_t   *)
(* does.  A contiguous netmask is the number of addresses of its subnets.  *)
(***************************************************************************)
EXTENDS Integers

CONSTANTS
    Top,        \* 2^32: addresses are 0..Top-1
    Size24,     \* addresses of a subnet of netmask 255.255.255.0
    Sizes,      \* subnet sizes of the netmasks a saved environment may hold
    SPAN,       \* the pool ends SPAN addresses after the server
    FALLBACK    \* its length when there is no room after the server

ASSUME NetworkAssumption ==
    /\ {Top, Size24, SPAN, FALLBACK} \subseteq Nat
    /\ Size24 \in Sizes
    /\ Sizes \subseteq {n \in Nat : n >= 1 /\ n <= Top}
    /\ SPAN >= 2 /\ SPAN <= Top

VARIABLES
    env,        \* ipaddr, netmask and serverip of the environment
    cfg,        \* dhcpd_svr_cfg
    webip       \* the address the Web server was started on, or none

netVars == <<env, cfg, webip>>

Address == 0..(Top - 1)
None == -1

network(ip, size) == ip - (ip % size)
broadcast(ip, size) == network(ip, size) + size - 1

\* No subnet goes beyond the end of the address space.
ASSUME SubnetAssumption ==
    \A ip \in Address, size \in Sizes : broadcast(ip, size) < Top

\* The range of the pool, before it is stored.  -1 wraps to Top - 1.
PoolStart(ip, size) ==
    LET start == (ip + 1) % Top
    IN IF start <= network(ip, size) THEN network(ip, size) + 1 ELSE start

PoolEnd(ip, size) ==
    LET end == (ip + SPAN) % Top
    IN IF end >= broadcast(ip, size)
       THEN (broadcast(ip, size) - 1) % Top ELSE end

FallbackStart(ip, size) == (network(ip, size) + 1) % Top

FallbackEnd(ip, size) ==
    LET end == (FallbackStart(ip, size) + FALLBACK) % Top
        last == (broadcast(ip, size) - 1) % Top
    IN IF end < broadcast(ip, size) /\ end <= last THEN end ELSE last

\* Mutant: the pool starts at the server itself.
SettingsFromServer(ip, size) ==
    IF ip > PoolEnd(ip, size)
    THEN [server |-> ip, size |-> size, start |-> FallbackStart(ip, size),
          end |-> FallbackEnd(ip, size)]
    ELSE [server |-> ip, size |-> size, start |-> ip, end |-> PoolEnd(ip, size)]

dhcpd_ip_settings(ip, size) ==
    IF PoolStart(ip, size) > PoolEnd(ip, size)
    THEN [server |-> ip, size |-> size, start |-> FallbackStart(ip, size),
          end |-> FallbackEnd(ip, size)]
    ELSE [server |-> ip, size |-> size, start |-> PoolStart(ip, size),
          end |-> PoolEnd(ip, size)]

httpd_make_serverip(ip) ==
    network(ip, Size24) + (IF ip % Size24 = 1 THEN 2 ELSE 1)

\* httpd_parse_ipv4 refuses 0.0.0.0 and a last octet of 0 or 255.
httpd_parse_ipv4(ip) == ip # 0 /\ ip % Size24 \notin {0, Size24 - 1}

\* The command httpd [address]; it first stores its own network.
do_httpd ==
    /\ webip = None
    /\ \E ip \in Address :
         /\ httpd_parse_ipv4(ip)
         /\ env' = [ip |-> ip, size |-> Size24, server |-> httpd_make_serverip(ip)]
         /\ cfg' = dhcpd_ip_settings(ip, Size24)
         /\ webip' = ip

StopHttpd ==
    /\ webip # None
    /\ webip' = None
    /\ UNCHANGED <<env, cfg>>

\* The command dhcpd, on whatever the environment holds.
do_dhcpd ==
    /\ cfg' = dhcpd_ip_settings(env.ip, env.size)
    /\ UNCHANGED <<env, webip>>

\* The saved environment may hold any address and netmask.
NetInit ==
    /\ env \in [ip : Address, size : Sizes, server : {0}]
    /\ cfg = [server |-> 0, size |-> Size24, start |-> 0, end |-> 0]
    /\ webip = None

NetNext == do_httpd \/ StopHttpd \/ do_dhcpd

NetSpec == NetInit /\ [][NetNext]_netVars

(***************************************************************************)
(* Properties.                                                             *)
(***************************************************************************)
\* The server is at a host address of its subnet.
HostAddress(ip, size) ==
    ip \in (network(ip, size) + 1)..(broadcast(ip, size) - 1)

\* A server at a host address of a subnet gets a pool that is not empty, lies
\* in that subnet, and contains neither the network nor the broadcast address,
\* also where ip + 1 or ip + SPAN wraps.  Left out: a subnet so small and so
\* close to the end of the address space that the fallback range wraps too.
PoolInSubnet ==
    /\ HostAddress(cfg.server, cfg.size)
    /\ network(cfg.server, cfg.size) + 1 + FALLBACK < Top
    =>
        /\ cfg.start <= cfg.end
        /\ cfg.start > network(cfg.server, cfg.size)
        /\ cfg.end < broadcast(cfg.server, cfg.size)

\* In a subnet with room for a pool on either side of the server, the server's
\* own address is never in the pool.
PoolSparesServer ==
    HostAddress(cfg.server, cfg.size) /\ cfg.size > SPAN + FALLBACK + 1 =>
        cfg.server \notin cfg.start..cfg.end

\* Every pool dhcpd_ip_settings hands out is usable: both of the above.
PoolUsable == PoolInSubnet /\ PoolSparesServer

=============================================================================
