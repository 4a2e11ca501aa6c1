----------------------------- MODULE BacnetNetwork -----------------------------
(***************************************************************************)
(* backnet-sever: the event task starts and stops BACnet as the network    *)
(* comes and goes (wifi_init.c or eth_init.c), while BACnetTask (main.c),  *)
(* which waits for CONNECTED_BIT in every round, runs its timers and       *)
(* receives from the socket the event task opens and closes.               *)
(*                                                                         *)
(* Events are handled one at a time, in the order they were posted.        *)
(***************************************************************************)
EXTENDS Integers, Sequences

CONSTANTS
    Ip,         \* addresses the network gives
    None,       \* -1 for a socket, 0.0.0.0 for an address
    Sockets,    \* the descriptors of the stack, numbers
    Rate,       \* configTICK_RATE_HZ
    Wrap,       \* 2^32, the ticks a uint32_t counts
    Changes     \* bound of the model: links lost and addresses given

ASSUME BacnetAssumption ==
    /\ None \notin Ip \cup Sockets
    /\ Sockets \subseteq Nat
    /\ {Rate, Changes} \subseteq Nat \ {0}
    /\ Wrap \in Nat /\ Wrap > 2 * Rate

VARIABLES
    medium,     \* which of the two network_init()s is built
    link,       \* the station or the Ethernet link
    ip,         \* address of the netif
    queue,      \* events posted and not yet handled
    changes,    \* see Changes
    handler,    \* where the event task is
    bit,        \* CONNECTED_BIT
    sock,       \* bip_socket()
    open,       \* open descriptors
    addr,       \* what bip_set_addr() was told
    unmade,     \* socket() gave -1 when BACnet was started last (history)
    task,       \* where BACnetTask is
    using,      \* the descriptor datalink_receive() took
    tick,       \* xTaskGetTickCount()
    tickcount,  \* the task's local
    since,      \* ticks since the timers ran, up to Rate (history)
    wrapped,    \* the tick count has wrapped since (history)
    last        \* since and wrapped when the timers ran last (history)

network == <<medium, link, ip, queue, changes>>
events == <<handler, bit, sock, open, addr, unmade>>
clock == <<tick, since, wrapped>>
bacnetVars == <<network, events, task, using, clock, tickcount, last>>

BacnetTypeOK ==
    /\ medium \in {"wifi", "eth"}
    /\ link \in {"off", "idle", "trying", "up", "ip"}
    /\ ip \in Ip \cup {None}
    /\ queue \in Seq({"start", "disconnected", "got_ip"})
    /\ changes \in 0..Changes
    /\ handler \in {"idle", "close", "unset", "start", "announce"}
    /\ bit \in BOOLEAN
    /\ sock \in Sockets \cup {None}
    /\ open \subseteq Sockets
    /\ addr \in Ip \cup {None}
    /\ unmade \in BOOLEAN
    /\ task \in {"setup", "init", "delay", "wait", "timers", "receive", "received"}
    /\ using \in Sockets \cup {None}
    /\ {tick, tickcount} \subseteq 0..Wrap - 1
    /\ since \in 0..Rate
    /\ wrapped \in BOOLEAN
    /\ last \in [since : 0..Rate, wrapped : BOOLEAN]

BacnetInit ==
    /\ medium \in {"wifi", "eth"}
    /\ link = "off"
    /\ ip = None
    /\ queue = <<>>
    /\ changes = 0
    /\ handler = "idle"
    /\ bit = FALSE
    /\ sock = None
    /\ open = {}
    /\ addr = None
    /\ unmade = FALSE
    /\ task = "setup"
    /\ using = None
    /\ tick = 0
    /\ tickcount = 0
    /\ since = 0
    /\ wrapped = FALSE
    /\ last = [since |-> Rate, wrapped |-> FALSE]

----------------------------------------------------------------------------
\* The drivers and the stack.

LinkUp ==
    /\ link = "trying"
    /\ link' = "up"
    /\ UNCHANGED <<medium, ip, queue, changes, events, task, using, clock, tickcount, last>>

\* DHCP gives an address, or another one.
GetIp ==
    /\ link \in {"up", "ip"}
    /\ changes < Changes
    /\ ip' \in Ip
    /\ link' = "ip"
    /\ queue' = Append(queue, "got_ip")
    /\ changes' = changes + 1
    /\ UNCHANGED <<medium, events, task, using, clock, tickcount, last>>

\* The link is lost, or the station's attempt fails.  A cable may be plugged in
\* again at any time; a station waits to be told to connect.
LinkDown ==
    /\ link \in {"up", "ip"} \/ (link = "trying" /\ medium = "wifi")
    /\ changes < Changes
    /\ link' = IF medium = "wifi" THEN "idle" ELSE "trying"
    /\ ip' = None
    /\ queue' = Append(queue, "disconnected")
    /\ changes' = changes + 1
    /\ UNCHANGED <<medium, events, task, using, clock, tickcount, last>>

Network == LinkUp \/ GetIp \/ LinkDown

----------------------------------------------------------------------------
\* The event task.

Dispatch(e) == handler = "idle" /\ queue # <<>> /\ Head(queue) = e /\ queue' = Tail(queue)

\* WIFI_EVENT_STA_START: esp_wifi_connect().
OnStart ==
    /\ Dispatch("start")
    /\ link' = "trying"
    /\ UNCHANGED <<medium, ip, changes, events, task, using, clock, tickcount, last>>

ClearBit == bit' = FALSE

\* The station tries again at once; then the bit is cleared.
OnDisconnected ==
    /\ Dispatch("disconnected")
    /\ link' = IF medium = "wifi" THEN "trying" ELSE link
    /\ ClearBit
    /\ handler' = "close"
    /\ UNCHANGED <<medium, ip, changes, sock, open, addr, unmade,
                   task, using, clock, tickcount, last>>

\* bip_cleanup(): the descriptor is closed, then forgotten.
CleanupClose ==
    /\ handler = "close"
    /\ open' = open \ {sock}
    /\ handler' = "unset"
    /\ UNCHANGED <<network, bit, sock, addr, unmade,
                   task, using, clock, tickcount, last>>

CleanupUnset ==
    /\ handler = "unset"
    /\ sock' = None
    /\ handler' = "idle"
    /\ UNCHANGED <<network, bit, open, addr, unmade,
                   task, using, clock, tickcount, last>>

\* Whether an address starts BACnet.  Mutant: always.
StartsAlways == TRUE
Starts == ~bit

\* IP_EVENT_STA_GOT_IP, IP_EVENT_ETH_GOT_IP: the bit is set before StartBACnet().
OnGotIp ==
    /\ Dispatch("got_ip")
    /\ bit' = (bit \/ Starts)
    /\ handler' = IF Starts THEN "start" ELSE "idle"
    /\ UNCHANGED <<medium, link, ip, changes, sock, open, addr, unmade,
                   task, using, clock, tickcount, last>>

\* socket() gives the lowest free descriptor, or fails.
OpenSocket(s) == s \in Sockets \ open /\ \A t \in Sockets \ open : s <= t

\* StartBACnet() up to bip_init()'s return: the netif's address of this moment, and
\* what socket() returned, which nobody looks at.
StartBACnet ==
    /\ handler = "start"
    /\ addr' = ip
    /\ \/ \E s \in Sockets :
            /\ OpenSocket(s)
            /\ sock' = s
            /\ open' = open \cup {s}
            /\ unmade' = FALSE
       \/ /\ sock' = None
          /\ unmade' = TRUE
          /\ UNCHANGED open
    /\ handler' = "announce"
    /\ UNCHANGED <<network, bit, task, using, clock, tickcount, last>>

\* Send_I_Am().
Announce ==
    /\ handler = "announce"
    /\ handler' = "idle"
    /\ UNCHANGED <<network, bit, sock, open, addr, unmade,
                   task, using, clock, tickcount, last>>

EventTask ==
    \/ OnStart \/ OnDisconnected \/ CleanupClose \/ CleanupUnset
    \/ OnGotIp \/ StartBACnet \/ Announce

----------------------------------------------------------------------------
\* BACnetTask.

Pass(d) ==
    /\ tick' = (tick + d) % Wrap
    /\ since' = IF since + d > Rate THEN Rate ELSE since + d
    /\ wrapped' = (wrapped \/ tick' < tick)

\* setup(): network_init() registers the handlers, starts the driver...
Setup ==
    /\ task = "setup"
    /\ task' = "init"
    /\ IF medium = "wifi"
       THEN link' = "idle" /\ queue' = Append(queue, "start")
       ELSE link' = "trying" /\ UNCHANGED queue
    /\ UNCHANGED <<medium, ip, changes, events, using, clock, tickcount, last>>

\* ... and waits for the bit.
NetworkUp ==
    /\ task = "init"
    /\ bit
    /\ task' = "delay"
    /\ tickcount' = tick
    /\ since' = 0
    /\ UNCHANGED <<network, events, using, tick, wrapped, last>>

\* vTaskDelay(): a tick.
Delay ==
    /\ task = "delay"
    /\ task' = "wait"
    /\ Pass(1)
    /\ UNCHANGED <<network, events, using, tickcount, last>>

\* xEventGroupWaitBits() in the loop: time passes while there is no network.
StillWaiting ==
    /\ task \in {"init", "wait"}
    /\ ~bit
    /\ Pass(1)
    /\ UNCHANGED <<network, events, task, using, tickcount, last>>

Connected ==
    /\ task = "wait"
    /\ bit
    /\ task' = "timers"
    /\ UNCHANGED <<network, events, using, clock, tickcount, last>>

\* A second is over, in the arithmetic of uint32_t.  Mutants: one tick early; no
\* test for the wrap, and signed.
SecondOverEarly == tick < tickcount \/ tick - tickcount >= Rate - 1
SecondOverSigned == tick - tickcount >= Rate
SecondOver == tick < tickcount \/ tick - tickcount >= Rate

RunTimers ==
    /\ task = "timers"
    /\ IF SecondOver
       THEN /\ tickcount' = tick
            /\ last' = [since |-> since, wrapped |-> wrapped]
            /\ since' = 0
            /\ wrapped' = FALSE
       ELSE UNCHANGED <<tickcount, last, since, wrapped>>
    /\ task' = "receive"
    /\ UNCHANGED <<network, events, using, tick>>

\* datalink_receive() takes the descriptor, and returns at its time-out, with a
\* packet, or because the descriptor is closed or -1; then the handlers run.
Receive ==
    /\ task = "receive"
    /\ using' = sock
    /\ task' = "received"
    /\ UNCHANGED <<network, events, clock, tickcount, last>>

Received ==
    /\ task = "received"
    /\ IF using \in open THEN \E d \in 0..1 : Pass(d) ELSE UNCHANGED clock
    /\ using' = None
    /\ task' = "delay"
    /\ UNCHANGED <<network, events, tickcount, last>>

BACnetTask ==
    \/ Setup \/ NetworkUp \/ Delay \/ StillWaiting \/ Connected
    \/ RunTimers \/ Receive \/ Received

BacnetNext == Network \/ EventTask \/ BACnetTask

\* Both tasks are scheduled; nothing is assumed of the network.
BacnetSpec ==
    /\ BacnetInit /\ [][BacnetNext]_bacnetVars
    /\ WF_bacnetVars(EventTask) /\ WF_bacnetVars(BACnetTask)

----------------------------------------------------------------------------

\* Between events BACnet has its socket exactly when the bit is set, unless socket()
\* failed for the address that set it, and no other socket is open: addresses
\* that come twice, losses that come twice and starts that fail neither leak a socket
\* nor take one away.  With no event left the bit is set exactly if the network is up.
StartedOnce ==
    handler = "idle" =>
        /\ sock # None <=> bit /\ ~unmade
        /\ open = {sock} \ {None}
        /\ queue = <<>> => (bit <=> link = "ip")

\* The timers, which count seconds, run a second apart at least; but for the one
\* time after the tick count has wrapped.
SecondsApartUnlessWrapped == last.since >= Rate \/ last.wrapped

\* A network that stays keeps the timers running, and BACnetTask receiving on the socket
\* that the event task opened last: a descriptor it took before the bit's socket was
\* there, or that was closed under it, is given up again, whichever addresses and
\* losses it met.  Only a socket() that failed leaves it without one.
ServesOn == <>[](link = "ip") =>
    /\ []<>(task = "receive" /\ since = 0)
    /\ []<>(unmade \/ (task = "received" /\ using \in open /\ using = sock))

----------------------------------------------------------------------------
(* The inductive invariant of the proofs.                                  *)

Unhandled(e) == \E i \in 1..Len(queue) : queue[i] = e

\* Nothing happens before setup() has started the driver.
NotSetUp ==
    /\ task = "setup" => link = "off" /\ queue = <<>>
    /\ task # "setup" => link # "off"
    /\ link = "off" => ~bit /\ handler = "idle"
    /\ Unhandled("start") => queue = <<"start">> /\ ~bit /\ link = "idle"

\* A station that has been told nothing yet sees no other event; the last event
\* says whether there is an address, and with none left the bit does.
Ordered ==
    /\ link = "idle" => medium = "wifi"
    /\ medium = "wifi" =>
          \A i \in 1..Len(queue) : queue[i] = "disconnected" => i = Len(queue) /\ link = "idle"
    /\ queue # <<>> => (queue[Len(queue)] = "got_ip" <=> link = "ip")
    /\ queue = <<>> => (bit <=> link = "ip")

\* What is open at each step of the event task.
Opened ==
    CASE handler \in {"idle", "close"} -> open = {sock} \ {None}
      [] handler \in {"unset", "start"} -> open = {}
      [] handler = "announce" -> open = {sock} \ {None}

Matched ==
    CASE handler = "idle" -> sock # None <=> bit /\ ~unmade
      [] handler \in {"close", "unset"} -> ~bit
      [] handler = "start" -> bit /\ sock = None
      [] handler = "announce" -> bit /\ (sock # None <=> ~unmade)

\* Unless the count has wrapped, it tells the time since the timers ran.
Timed ==
    task \notin {"setup", "init"} /\ ~wrapped =>
        /\ tickcount <= tick
        /\ since = tick - tickcount \/ (since = Rate /\ tick - tickcount >= Rate)

BacnetInv ==
    /\ BacnetTypeOK /\ NotSetUp /\ Ordered /\ Opened /\ Matched /\ Timed
    /\ SecondsApartUnlessWrapped

=============================================================================
