------------------------------- MODULE Dhcpd -------------------------------
(***************************************************************************)
(* The DHCP server of net/dhcpd.c: its lease table, the answers to         *)
(* DISCOVER and REQUEST, and the way it puts itself in front of the UDP    *)
(* handler of net/net.c when HttpdStart or the dhcpd command starts it.    *)
(*                                                                         *)
(* dhcpd_expire_leases is called again by nearly every helper, so one      *)
(* packet may see the clock at two instants: `clock` for the first call    *)
(* and u >= clock for the later ones (TickInHandler).  Replies may be      *)
(* lost.  acked is what each client was last granted and still relies on.  *)
(***************************************************************************)
EXTENDS Integers, FiniteSets

CONSTANTS
    Mac,            \* hardware addresses of the clients
    Pool,           \* addresses from start_ip to end_ip
    Foreign,        \* requested addresses outside the subnet or the pool
    NULL,           \* the zero address, no handler, a cleared mac_addr
    MAX_LEASES,     \* slots of dhcpd_leases
    LEASE_TIME,     \* 3600 * CONFIG_SYS_HZ
    MaxTime,        \* bound: largest clock
    MaxStarts,      \* bound: servers started and net_loop commands run
    TickInHandler,  \* the clock may advance while a packet is handled
    Overlap         \* a server may be started while another one runs

ASSUME AddressAssumption ==
    /\ NULL \notin Mac
    /\ NULL \notin Pool
    /\ NULL \notin {"dummy", "dhcpd"}
    /\ Pool \cap Foreign = {}
ASSUME NumberAssumption ==
    /\ {MAX_LEASES, LEASE_TIME, MaxTime, MaxStarts} \subseteq Nat
    /\ {TickInHandler, Overlap} \subseteq BOOLEAN

VARIABLES
    leases,                 \* dhcpd_leases
    clock,                  \* get_timer(0)
    udp_packet_handler,     \* the handler net.c gives UDP packets to
    original_udp_handler,   \* the handler dhcpd.c forwards to
    dhcpd_state,            \* DHCPD_STATE_STOPPED or DHCPD_STATE_RUNNING
    httpd,                  \* webfailsafe_is_running
    blocking,               \* the loop of dhcpd_request runs
    starts,                 \* bounds the commands of a behaviour
    reply,                  \* the last reply sent
    acked                   \* history: what each client relies on

leaseVars == <<leases, clock, acked>>
serverVars == <<udp_packet_handler, original_udp_handler, dhcpd_state, httpd,
                blocking, starts>>
vars == <<leases, clock, udp_packet_handler, original_udp_handler,
          dhcpd_state, httpd, blocking, starts, reply, acked>>

Slot == 1..MAX_LEASES
Handler == {"dummy", "dhcpd"}

(***************************************************************************)
(* The lease table.                                                        *)
(***************************************************************************)
FreeLease == [used |-> FALSE, mac |-> NULL, ip |-> NULL, start |-> 0]
NoLeases == [i \in Slot |-> FreeLease]
NewLease(m, ip, t) == [used |-> TRUE, mac |-> m, ip |-> ip, start |-> t]
NoGrant == [ip |-> NULL, until |-> 0]
NoReply == [type |-> "none", mac |-> NULL, ip |-> NULL]

dhcpd_expire_leases(ls, t) ==
    [i \in Slot |-> [ls[i] EXCEPT
        !.used = ls[i].used /\ t - ls[i].start <= LEASE_TIME]]

Leased(ls, i, m) == ls[i].used /\ ls[i].mac = m

\* The loop returns the first slot; LeaseTable says there is only one.
dhcpd_find_lease(ls, m) == {i \in Slot : Leased(ls, i, m)}

dhcpd_ip_is_allocated(ls, ip) == \E i \in Slot : ls[i].used /\ ls[i].ip = ip

dhcpd_ip_allocated_to_mac(ls, ip, m) ==
    \E i \in Slot : Leased(ls, i, m) /\ ls[i].ip = ip

dhcpd_get_available_lease_slot(ls) ==
    {i \in Slot : ~ls[i].used /\ \A j \in 1..(i - 1) : ls[j].used}

AllocTrustsCaller(ls, m, t) ==
    LET now == dhcpd_expire_leases(ls, t)
        slots == dhcpd_get_available_lease_slot(now)
    IN IF slots = {}
       THEN {[leases |-> now, ip |-> NULL]}
       ELSE {[leases |-> [now EXCEPT ![i] = NewLease(m, ip, t)], ip |-> ip] :
                 i \in slots, ip \in Pool}

\* The outcomes of dhcpd_alloc_ip at time t: the client's lease, unexpired or
\* not, refreshed; or any free address (the order of the attempts depends on
\* the timer) in the first free slot; or none.
dhcpd_alloc_ip(ls, m, t) ==
    LET now == dhcpd_expire_leases(ls, t)
        unused == {ip \in Pool : ~dhcpd_ip_is_allocated(now, ip)}
        slots == dhcpd_get_available_lease_slot(now)
    IN IF dhcpd_find_lease(ls, m) # {}
       THEN {[leases |-> [ls EXCEPT ![i].start = t], ip |-> ls[i].ip] :
                 i \in dhcpd_find_lease(ls, m)}
       ELSE IF unused = {} \/ slots = {}
       THEN {[leases |-> now, ip |-> NULL]}
       ELSE {[leases |-> [now EXCEPT ![i] = NewLease(m, ip, t)], ip |-> ip] :
                 i \in slots, ip \in unused}

ProcessUnchecked(ls, m, ip, t) ==
    LET now == dhcpd_expire_leases(ls, clock)
        slots == dhcpd_find_lease(now, m) \cup dhcpd_get_available_lease_slot(now)
    IN {[leases |-> [now EXCEPT ![i] = NewLease(m, ip, t)], ip |-> ip] : i \in slots}

\* The outcomes of dhcpd_process_lease for a requested address of the pool.
\* The lease was looked up at clock; the later checks are made at time t.
dhcpd_process_lease(ls, m, ip, t) ==
    LET found == dhcpd_expire_leases(ls, clock)
        now == dhcpd_expire_leases(found, t)
        lease == dhcpd_find_lease(found, m)
        slots == dhcpd_get_available_lease_slot(now)
    IN IF /\ dhcpd_ip_is_allocated(now, ip)
          /\ ~dhcpd_ip_allocated_to_mac(now, ip, m)
       THEN dhcpd_alloc_ip(now, m, t)
       ELSE IF lease # {}
       THEN {[leases |-> [now EXCEPT ![i].ip = ip, ![i].start = t], ip |-> ip] :
                 i \in lease}
       ELSE IF slots = {}
       THEN {[leases |-> now, ip |-> NULL]}
       ELSE {[leases |-> [now EXCEPT ![i] = NewLease(m, ip, t)], ip |-> ip] :
                 i \in slots}

\* The outcomes of dhcpd_handle_discover.
dhcpd_handle_discover(ls, m, t) ==
    LET found == dhcpd_expire_leases(ls, clock)
        now == dhcpd_expire_leases(found, t)
        lease == dhcpd_find_lease(found, m)
        kept == {i \in lease : \/ ~dhcpd_ip_is_allocated(now, now[i].ip)
                               \/ dhcpd_ip_allocated_to_mac(now, now[i].ip, m)}
        dropped == [i \in Slot |-> IF i \in lease
                                   THEN [now[i] EXCEPT !.used = FALSE, !.mac = NULL]
                                   ELSE now[i]]
    IN IF kept # {}
       THEN {[leases |-> now, ip |-> now[i].ip] : i \in kept}
       ELSE dhcpd_alloc_ip(dropped, m, t)

(***************************************************************************)
(* Packets.  They reach the server while its handler is installed.         *)
(***************************************************************************)
Instant == {t \in {clock, clock + 1} : t = clock \/ (TickInHandler /\ t <= MaxTime)}

\* The client relies on what an acknowledgement that reaches it says;
\* before that, on `before`.
Granted(m, ip, t, heard, before) ==
    [acked EXCEPT ![m] =
        IF heard THEN [ip |-> ip, until |-> t + LEASE_TIME] ELSE before]

\* An OFFER goes out whatever dhcpd_handle_discover returned.
Discover ==
    /\ udp_packet_handler = "dhcpd"
    /\ \E m \in Mac, t \in Instant :
         \E o \in dhcpd_handle_discover(leases, m, t) :
            /\ leases' = o.leases
            /\ clock' = t
            /\ reply' = [type |-> "OFFER", mac |-> m, ip |-> o.ip]
    /\ UNCHANGED <<acked, serverVars>>

\* A REQUEST that names an address: the client has no address while it asks
\* (it selects an offer, or reboots).
RequestAddress ==
    /\ udp_packet_handler = "dhcpd"
    /\ \E m \in Mac, ip \in Pool, t \in Instant, heard \in BOOLEAN :
         \E o \in dhcpd_process_lease(leases, m, ip, t) :
            /\ leases' = o.leases
            /\ clock' = t
            /\ IF o.ip = NULL
               THEN reply' = NoReply /\ acked' = [acked EXCEPT ![m] = NoGrant]
               ELSE /\ reply' = [type |-> "ACK", mac |-> m, ip |-> o.ip]
                    /\ acked' = Granted(m, o.ip, t, heard, NoGrant)
    /\ UNCHANGED serverVars

\* A REQUEST without an address: a client renews, and keeps its address when
\* the answer is lost.
RequestRenew ==
    /\ udp_packet_handler = "dhcpd"
    /\ \E m \in Mac, t \in Instant, heard \in BOOLEAN :
         \E o \in dhcpd_alloc_ip(leases, m, t) :
            /\ leases' = o.leases
            /\ clock' = t
            /\ IF o.ip = NULL
               THEN reply' = NoReply /\ acked' = acked
               ELSE /\ reply' = [type |-> "ACK", mac |-> m, ip |-> o.ip]
                    /\ acked' = Granted(m, o.ip, t, heard, acked[m])
    /\ UNCHANGED serverVars

\* dhcpd_validate_request refuses the address.
RequestRefused ==
    /\ udp_packet_handler = "dhcpd"
    /\ \E m \in Mac, ip \in Foreign :
         /\ reply' = [type |-> "NAK", mac |-> m, ip |-> NULL]
         /\ acked' = [acked EXCEPT ![m] = NoGrant]
    /\ UNCHANGED <<leases, clock, serverVars>>

\* Everything else (RELEASE and DECLINE, other ports), and a REQUEST to
\* another server, changes nothing here.
Forwarded ==
    /\ udp_packet_handler = "dhcpd"
    /\ reply' = NoReply
    /\ UNCHANGED <<leaseVars, serverVars>>

Tick ==
    /\ clock < MaxTime
    /\ clock' = clock + 1
    /\ UNCHANGED <<leases, acked, reply, serverVars>>

(***************************************************************************)
(* Starting and stopping.                                                  *)
(***************************************************************************)
dhcpd_init_server ==
    /\ Overlap \/ dhcpd_state = "STOPPED"
    /\ starts < MaxStarts
    /\ starts' = starts + 1
    /\ leases' = NoLeases
    /\ acked' = [m \in Mac |-> NoGrant]
    /\ original_udp_handler' = udp_packet_handler
    /\ udp_packet_handler' = "dhcpd"
    /\ dhcpd_state' = "RUNNING"
    /\ reply' = NoReply
    /\ UNCHANGED clock

DeinitKeepsHandler ==
    /\ original_udp_handler' = NULL
    /\ dhcpd_state' = "STOPPED"
    /\ UNCHANGED udp_packet_handler

dhcpd_deinit_server ==
    /\ udp_packet_handler' = IF original_udp_handler # NULL
                             THEN original_udp_handler ELSE udp_packet_handler
    /\ original_udp_handler' = NULL
    /\ dhcpd_state' = "STOPPED"

\* HttpdStart, called by do_httpd when the Web server is not running.
HttpdStart ==
    /\ ~httpd /\ ~blocking
    /\ dhcpd_init_server
    /\ httpd' = TRUE
    /\ UNCHANGED blocking

HttpdStop ==
    /\ httpd /\ ~blocking
    /\ dhcpd_deinit_server
    /\ httpd' = FALSE
    /\ UNCHANGED <<blocking, starts, leaseVars, reply>>

\* The command dhcpd -nb, whether or not a server runs.
dhcpd_request_nonblocking ==
    /\ ~blocking
    /\ dhcpd_init_server
    /\ UNCHANGED <<httpd, blocking>>

\* The command dhcpd, which serves until Ctrl-C.
dhcpd_request ==
    /\ ~blocking
    /\ dhcpd_init_server
    /\ blocking' = TRUE
    /\ UNCHANGED httpd

\* Ctrl-C, in the loop of dhcpd_request or in dhcpd_poll_server.
dhcpd_stop_server ==
    /\ dhcpd_state # "STOPPED"
    /\ blocking \/ httpd
    /\ dhcpd_deinit_server
    /\ blocking' = FALSE
    /\ UNCHANGED <<httpd, starts, leaseVars, reply>>

\* A command such as ping or tftpboot: net_cleanup_loop clears the handler.
net_loop ==
    /\ ~blocking
    /\ starts < MaxStarts
    /\ starts' = starts + 1
    /\ udp_packet_handler' = "dummy"
    /\ UNCHANGED <<original_udp_handler, dhcpd_state, httpd, blocking,
                   leaseVars, reply>>

Init ==
    /\ leases = NoLeases
    /\ clock = 0
    /\ udp_packet_handler = "dummy"
    /\ original_udp_handler = NULL
    /\ dhcpd_state = "STOPPED"
    /\ httpd = FALSE
    /\ blocking = FALSE
    /\ starts = 0
    /\ reply = NoReply
    /\ acked = [m \in Mac |-> NoGrant]

Next ==
    \/ Discover
    \/ RequestAddress
    \/ RequestRenew
    \/ RequestRefused
    \/ Forwarded
    \/ Tick
    \/ HttpdStart
    \/ HttpdStop
    \/ dhcpd_request_nonblocking
    \/ dhcpd_request
    \/ dhcpd_stop_server
    \/ net_loop

Spec == Init /\ [][Next]_vars

(***************************************************************************)
(* Properties.                                                             *)
(***************************************************************************)
Lease == [used : BOOLEAN, mac : Mac \cup {NULL}, ip : Pool \cup {NULL}, start : Nat]
Grant == [ip : Pool \cup {NULL}, until : Nat]
Reply == [type : {"none", "OFFER", "ACK", "NAK"}, mac : Mac \cup {NULL},
          ip : Pool \cup {NULL}]

\* Only addresses of the pool are ever leased or sent: dhcpd_validate_request
\* and the two searches of dhcpd_alloc_ip stay inside it.
TypeOK ==
    /\ leases \in [Slot -> Lease]
    /\ clock \in Nat
    /\ udp_packet_handler \in Handler
    /\ original_udp_handler \in Handler \cup {NULL}
    /\ dhcpd_state \in {"STOPPED", "RUNNING"}
    /\ {httpd, blocking} \subseteq BOOLEAN
    /\ starts \in Nat
    /\ reply \in Reply
    /\ acked \in [Mac -> Grant]

Matching(ls) ==
    /\ \A i \in Slot : ls[i].used => ls[i].mac \in Mac /\ ls[i].ip \in Pool
    /\ \A i, j \in Slot : i # j /\ ls[i].used /\ ls[j].used =>
           ls[i].mac # ls[j].mac /\ ls[i].ip # ls[j].ip

\* The lease table is a matching: no client has two leases and no address has
\* two, although alloc_ip, process_lease and handle_discover each write slots
\* after a look-up of their own.
LeaseTable == Matching(leases)

Holds(m) == acked[m].ip # NULL /\ clock <= acked[m].until

\* Two clients never rely on the same address at the same time, whatever
\* replies are lost and however leases are refreshed, moved and expired.
NoConflict ==
    \A m, n \in Mac : m # n /\ Holds(m) /\ Holds(n) => acked[m].ip # acked[n].ip

Covers(ls, m, ip, until) ==
    \E i \in Slot : /\ Leased(ls, i, m)
                    /\ ls[i].ip = ip
                    /\ until <= ls[i].start + LEASE_TIME

\* A grant a client still relies on is backed by a lease that lasts as long
\* as the client was told: the server cannot forget it before the client does.
Backed ==
    \A m \in Mac : Holds(m) => Covers(leases, m, acked[m].ip, acked[m].until)

\* An address just offered or acknowledged is leased to that client:
\* dhcpd_process_lease creates or updates a lease for the client.
ReplyBacked ==
    reply.type \in {"OFFER", "ACK"} /\ reply.ip # NULL =>
        dhcpd_ip_allocated_to_mac(leases, reply.ip, reply.mac)

\* The same for acknowledgements alone, when the clock may advance between
\* the look-up of the lease and the checks that follow it.
AckLeased ==
    reply.type = "ACK" => dhcpd_ip_allocated_to_mac(leases, reply.ip, reply.mac)

\* Only a NAK carries the zero address (dhcpd_send_reply).
OfferCarriesAddress == reply.type \in {"OFFER", "ACK"} => reply.ip # NULL

\* A stopped server has given the UDP handler back (dhcpd_deinit_server).
HandlerRestored == dhcpd_state = "STOPPED" => udp_packet_handler # "dhcpd"

\* Packets that are not for the server go to the handler that was there
\* before, never back to the server's own handler, which would call itself
\* for ever (dhcpd_handler_with_fallback).
ForwardsElsewhere == original_udp_handler # "dhcpd"

=============================================================================
