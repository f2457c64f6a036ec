--------------------------- MODULE RecoveryEntry ---------------------------
(***************************************************************************)
(* How a device gets into recovery and stays reachable: the reset button,  *)
(* autoboot and its failures start the Web server, and the server's poll   *)
(* brings Ethernet up, follows the links of the ports and repairs what a   *)
(* console command did to the device.                                      *)
(*                                                                         *)
(* The Ethernet driver is the one of the PPE platforms: it configures the  *)
(* MAC of every port that has a link, and all of them but IPQ807x skip a   *)
(* port whose speed is the one they configured last.                       *)
(***************************************************************************)
EXTENDS Integers, FiniteSets

CONSTANTS Cases,      \* boards: [platform, bootdelay, commands]
          Ports,      \* ports in the order the link check reads them
          Speeds,     \* link speeds
          MaxChanges  \* bound on link changes and console commands

Down == 0
NoPort == -1
Platforms == {"ipq5332", "ipq6018", "ipq807x", "ipq9574"}

ASSUME EntryAssumption ==
    /\ Ports \subseteq Nat /\ IsFiniteSet(Ports)
    /\ Speeds \subseteq Nat \ {Down}
    /\ MaxChanges \in Nat
    /\ \A c \in Cases :
          /\ c.platform \in Platforms /\ c.bootdelay \in {-1, 0}
          /\ c.commands \subseteq {"net", "bootipq", "httpd", "stop"}

VARIABLES
    board,     \* the board and its environment
    pc,        \* where main_loop, autoboot_command or the poll is
    held,      \* seconds the button has been held
    asked,     \* recovery was asked for: button, key press, or a failed boot
    running,   \* webfailsafe_is_running
    eth,       \* eth_current and its state
    link,      \* the speed of each port's link
    old_speed, \* the driver's memory of the speeds it configured
    mac,       \* the speed each MAC is enabled with
    link_port_prev, link_first_check,
    retry,     \* 2 s have passed since eth_retry_timer
    seen,      \* the poll has looked at the links since the last change
    changes    \* link changes and commands so far

ethVars == <<eth, old_speed, mac>>
linkVars == <<link_port_prev, link_first_check>>
vars == <<board, pc, held, asked, running, eth, link, old_speed, mac,
          link_port_prev, link_first_check, retry, seen, changes>>

Linked == {p \in Ports : link[p] # Down}

(* The first port with a link. *)
link_port ==
    IF Linked = {} THEN NoPort ELSE CHOOSE p \in Linked : \A q \in Linked : p <= q
-----------------------------------------------------------------------------
(* eth_initialize registers a new device and disables every MAC; what the  *)
(* driver remembers is static and stays.                                   *)
eth_initialize ==
    eth' = "passive" /\ mac' = [p \in Ports |-> Down] /\ UNCHANGED old_speed

InitializeIf(b) == IF b THEN eth_initialize ELSE UNCHANGED ethVars

DriverForgets(p) == board.platform = "ipq807x" \/ old_speed[p] # link[p]

(* The driver's init: ports with a link are configured, others are left    *)
(* alone.                                                                  *)
Configure ==
    /\ old_speed' = [p \in Ports |-> IF p \in Linked THEN link[p] ELSE old_speed[p]]
    /\ mac' = [p \in Ports |-> IF p \in Linked /\ DriverForgets(p) THEN link[p] ELSE mac[p]]

(* Without any link the driver fails, and the state stays what it was. *)
eth_init ==
    IF eth = "none" \/ Linked = {} THEN UNCHANGED ethVars
    ELSE eth' = "active" /\ Configure

(* do_httpd *)
httpd == running' = TRUE
-----------------------------------------------------------------------------
Init ==
    /\ board \in Cases
    /\ pc = "button" /\ held = 0 /\ asked = FALSE
    /\ running = FALSE
    /\ eth = "none"
    /\ link \in [Ports -> Speeds \cup {Down}]
    /\ old_speed = [p \in Ports |-> Down]
    /\ mac = [p \in Ports |-> Down]
    /\ link_port_prev = NoPort /\ link_first_check = FALSE
    /\ retry = TRUE /\ seen = TRUE /\ changes = 0

(* btn_check_press: one more second with the button down. *)
ButtonHeld ==
    /\ pc = "button" /\ held < 3
    /\ held' = held + 1
    /\ IF held' = 3
       THEN /\ eth_initialize /\ httpd /\ asked' = TRUE /\ pc' = "main"
       ELSE UNCHANGED <<eth, old_speed, mac, running, asked, pc>>
    /\ UNCHANGED <<board, link, linkVars, retry, seen, changes>>

ButtonReleased ==
    /\ pc = "button"
    /\ pc' = "main"
    /\ UNCHANGED <<board, held, asked, running, ethVars, link, linkVars, retry, seen, changes>>

MainAlwaysBoots ==
    /\ pc = "main"
    /\ pc' = "autoboot"
    /\ UNCHANGED <<board, held, asked, running, ethVars, link, linkVars, retry, seen, changes>>

(* main_loop: no autoboot when the button started the server. *)
main_loop ==
    /\ pc = "main"
    /\ pc' = IF running THEN "console" ELSE "autoboot"
    /\ UNCHANGED <<board, held, asked, running, ethVars, link, linkVars, retry, seen, changes>>

(* autoboot_command after a crash with crash dumps disabled: the server    *)
(* instead of the crash dump. IPQ807x has no such state.                   *)
AutobootCrashed ==
    /\ pc = "autoboot" /\ board.platform # "ipq807x"
    /\ eth_initialize /\ httpd
    /\ asked' = TRUE /\ pc' = "console"
    /\ UNCHANGED <<board, held, link, linkVars, retry, seen, changes>>

(* autoboot_command: a key during the delay, or no bootcmd. *)
AutobootStopped ==
    /\ pc = "autoboot" /\ board.bootdelay # -1
    /\ eth_initialize /\ httpd
    /\ asked' = TRUE /\ pc' = "console"
    /\ UNCHANGED <<board, held, link, linkVars, retry, seen, changes>>

AutobootDisabled ==
    /\ pc = "autoboot" /\ board.bootdelay = -1
    /\ pc' = "tail"
    /\ UNCHANGED <<board, held, asked, running, ethVars, link, linkVars, retry, seen, changes>>

AutobootRuns ==
    /\ pc = "autoboot" /\ board.bootdelay # -1
    /\ InitializeIf(board.platform = "ipq5332")
    /\ pc' = "boot"
    /\ UNCHANGED <<board, held, asked, running, link, linkVars, retry, seen, changes>>

(* do_bootipq: the system starts, the boot fails and the server is         *)
(* started, or it ends with another error and is not.                      *)
BootSucceeds ==
    /\ pc = "boot"
    /\ pc' = "system"
    /\ UNCHANGED <<board, held, asked, running, ethVars, link, linkVars, retry, seen, changes>>

BootipqInitializes == board.platform \notin {"ipq5332", "ipq9574"}

BootFails ==
    /\ pc = "boot"
    /\ InitializeIf(BootipqInitializes)
    /\ httpd /\ asked' = TRUE /\ pc' = "tail"
    /\ UNCHANGED <<board, held, link, linkVars, retry, seen, changes>>

BootErrs ==
    /\ pc = "boot"
    /\ pc' = "tail"
    /\ UNCHANGED <<board, held, asked, running, ethVars, link, linkVars, retry, seen, changes>>

(* The end of autoboot_command initializes Ethernet where that is deferred *)
(* (all of these platforms but IPQ5332).                                   *)
AutobootTail ==
    /\ pc = "tail"
    /\ InitializeIf(board.platform # "ipq5332")
    /\ pc' = "console"
    /\ UNCHANGED <<board, held, asked, running, link, linkVars, retry, seen, changes>>
-----------------------------------------------------------------------------
LinkCheckIgnoresLoss ==
    /\ pc = "console" /\ running
    /\ IF eth = "none" \/ link_port = NoPort
       THEN pc' = "retry" /\ UNCHANGED linkVars
       ELSE /\ link_first_check' = TRUE /\ link_port_prev' = link_port
            /\ pc' = IF link_first_check /\ link_port # link_port_prev THEN "changed" ELSE "retry"
    /\ seen' = TRUE
    /\ UNCHANGED <<board, held, asked, running, ethVars, link, retry, changes>>

(* eth_check_link_change, at the start of a poll: a change of the first    *)
(* port with a link is a reason to initialize the device again. Before     *)
(* eth_initialize there is no MDIO bus to read.                            *)
eth_check_link_change ==
    /\ pc = "console" /\ running
    /\ IF eth = "none"
       THEN pc' = "retry" /\ UNCHANGED linkVars
       ELSE /\ link_first_check' = TRUE /\ link_port_prev' = link_port
            /\ pc' = IF link_first_check /\ link_port \notin {link_port_prev, NoPort}
                     THEN "changed" ELSE "retry"
    /\ seen' = TRUE
    /\ UNCHANGED <<board, held, asked, running, ethVars, link, retry, changes>>

LinkChanged ==
    /\ pc = "changed"
    /\ eth_init
    /\ pc' = "retry"
    /\ UNCHANGED <<board, held, asked, running, link, linkVars, retry, seen, changes>>

(* The rest of the poll: a device that is not active is halted and         *)
(* initialized again, every 2 s; an active one starts the 2 s again.       *)
PollRetries ==
    /\ pc = "retry"
    /\ IF eth # "active" /\ retry THEN eth_init ELSE UNCHANGED ethVars
    /\ retry' = FALSE
    /\ pc' = "console"
    /\ UNCHANGED <<board, held, asked, running, link, linkVars, seen, changes>>

TwoSeconds ==
    /\ ~retry
    /\ retry' = TRUE
    /\ UNCHANGED <<board, pc, held, asked, running, ethVars, link, linkVars, seen, changes>>
-----------------------------------------------------------------------------
Command(c) ==
    /\ pc = "console" /\ c \in board.commands /\ changes < MaxChanges
    /\ changes' = changes + 1

(* A network command (ping, tftp) initializes the device for net_loop,     *)
(* which ends with eth_halt.                                               *)
NetCommand ==
    /\ Command("net")
    /\ IF eth = "none" THEN UNCHANGED ethVars ELSE eth' = "passive" /\ Configure
    /\ UNCHANGED <<board, pc, held, asked, running, link, linkVars, retry, seen>>

(* bootipq at the console or in the Web terminal, and the boot fails. *)
BootCommand ==
    /\ Command("bootipq")
    /\ InitializeIf(BootipqInitializes)
    /\ httpd
    /\ UNCHANGED <<board, pc, held, asked, link, linkVars, retry, seen>>

HttpdCommand ==
    /\ Command("httpd")
    /\ httpd
    /\ UNCHANGED <<board, pc, held, asked, ethVars, link, linkVars, retry, seen>>

(* httpd s: failsafe_httpd_stop clears the timer, so that the next poll    *)
(* may retry at once.                                                      *)
HttpdStop ==
    /\ Command("stop") /\ running
    /\ running' = FALSE /\ retry' = TRUE
    /\ UNCHANGED <<board, pc, held, asked, ethVars, link, linkVars, seen>>

(* A cable is plugged in or pulled. Negotiating a link takes longer than   *)
(* the 100 ms between two looks at the links.                              *)
LinkUp(p, v) ==
    /\ changes < MaxChanges /\ pc # "system"
    /\ link[p] = Down /\ (running => seen)
    /\ link' = [link EXCEPT ![p] = v]
    /\ changes' = changes + 1 /\ seen' = FALSE
    /\ UNCHANGED <<board, pc, held, asked, running, ethVars, linkVars, retry>>

LinkDown(p) ==
    /\ changes < MaxChanges /\ pc # "system"
    /\ link[p] # Down
    /\ link' = [link EXCEPT ![p] = Down]
    /\ changes' = changes + 1 /\ seen' = FALSE
    /\ UNCHANGED <<board, pc, held, asked, running, ethVars, linkVars, retry>>

Boot ==
    \/ ButtonHeld \/ ButtonReleased \/ main_loop
    \/ AutobootCrashed \/ AutobootStopped \/ AutobootDisabled \/ AutobootRuns
    \/ BootSucceeds \/ BootFails \/ BootErrs \/ AutobootTail

Poll == eth_check_link_change \/ LinkChanged \/ PollRetries

Environment ==
    \/ NetCommand \/ BootCommand \/ HttpdCommand \/ HttpdStop
    \/ \E p \in Ports : LinkDown(p) \/ \E v \in Speeds : LinkUp(p, v)

Next == Boot \/ Poll \/ TwoSeconds \/ Environment

Spec == Init /\ [][Next]_vars

(* The boot goes on, the console loop polls, and time passes. *)
FairSpec == Spec /\ WF_vars(Boot) /\ WF_vars(Poll) /\ WF_vars(TwoSeconds)
-----------------------------------------------------------------------------
(* A port is served: the server runs, the device is active, and the MAC of *)
(* the port is enabled with the speed of its link.                         *)
Served(p) ==
    running /\ eth = "active" /\ link[p] # Down /\ mac[p] = link[p]

(* The poll keeps the server reachable: when some port has a link, then    *)
(* one is served after a while, whatever unplugging, network commands and  *)
(* repeated initialization did before (eth_check_link_change and the retry *)
(* in failsafe_httpd_poll).                                                *)
LinkServed ==
    (pc = "console" /\ running /\ Linked # {})
        ~> ((\E p \in Ports : Served(p)) \/ Linked = {} \/ ~running)

(* A device asked to recover does so: after the button was held for three  *)
(* seconds, autoboot was stopped, or the boot failed, the server runs and  *)
(* a port with a link is served, on each platform's order of initializing  *)
(* Ethernet and starting the server.                                       *)
RecoveryReached ==
    asked ~> ((\E p \in Ports : Served(p)) \/ Linked = {} \/ changes > 0)

=============================================================================
