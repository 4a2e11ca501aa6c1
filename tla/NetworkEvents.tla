----------------------------- MODULE NetworkEvents -----------------------------
(***************************************************************************)
(* Programs whose event handlers bring the network up while app_main waits *)
(* for their bits.                                                         *)
(*                                                                         *)
(*   reflection  a station that retries a number of times and then fails   *)
(*   sta_to_eth  demo_2_netifs: a station that retries for ever            *)
(*   two_netifs  demo_2_netifs: a station and an access point that asks    *)
(*               for an address; app_main picks the one to send by         *)
(*                                                                         *)
(* Events are handled one at a time, in the order they were posted.        *)
(***************************************************************************)
EXTENDS Integers, Sequences

CONSTANTS
    Program,        \* the programs looked at
    MaxRetry,       \* EXAMPLE_ESP_MAXIMUM_RETRY
    MaxIncidents    \* bound of the model: what befalls the network

ASSUME EventsAssumption ==
    /\ Program \subseteq {"reflection", "sta_to_eth", "two_netifs"}
    /\ {MaxRetry, MaxIncidents} \subseteq Nat

VARIABLES
    prog,       \* the program that runs
    main,       \* where app_main is
    station,    \* the station
    posted,     \* events posted and not yet handled
    bits,       \* the event group
    s_retry_num,
    verdict,    \* what wifi_init_sta() of reflection reports
    dns,        \* the DNS server that sta_to_eth hands on
    ap,         \* two_netifs: ap has an address, asks for one, its link is up
    default,    \* the default netif
    seen,       \* what app_main has read: ap has an address
    fails,      \* disconnections since the last address (history)
    overtaken,  \* ap's address came while app_main acted on a reading without
                \* one (history)
    incidents   \* see MaxIncidents

stationVars == <<station, s_retry_num, fails>>
reports == <<verdict, dns>>
access == <<ap, default, seen, overtaken>>
eventsVars == <<prog, main, posted, bits, stationVars, reports, access, incidents>>

EventsTypeOK ==
    /\ prog \in Program
    /\ main \in {"boot", "wait", "read", "act", "down", "done"}
    /\ station \in {"off", "idle", "trying", "up", "ip"}
    /\ posted \in Seq({"start", "disconnected", "sta_ip", "assigned",
                      "ap_joined", "ap_ip", "ap_lost"})
    /\ bits \subseteq {"connected", "fail", "got_ip", "sta_joined"}
    /\ s_retry_num \in 0..MaxRetry
    /\ verdict \in {"none", "connected", "failed"}
    /\ dns \in {"none", "unset", "ethernet"}
    /\ ap \in [ip : BOOLEAN, asks : BOOLEAN, link : BOOLEAN]
    /\ default \in {"sta", "ap"}
    /\ seen \in BOOLEAN
    /\ fails \in 0..MaxIncidents
    /\ overtaken \in BOOLEAN
    /\ incidents \in 0..MaxIncidents

EventsInit ==
    /\ prog \in Program
    /\ main = "boot"
    /\ station = "off"
    /\ posted = <<>>
    /\ bits = {}
    /\ s_retry_num = 0
    /\ verdict = "none"
    /\ dns = "none"
    /\ ap = [ip |-> FALSE, asks |-> FALSE, link |-> FALSE]
    /\ default = "sta"
    /\ seen = FALSE
    /\ fails = 0
    /\ overtaken = FALSE
    /\ incidents = 0

Post(e) == posted' = Append(posted, e)

----------------------------------------------------------------------------
\* The network, the drivers and esp_netif.

Befalls == incidents < MaxIncidents /\ incidents' = incidents + 1

Associate ==
    /\ station = "trying"
    /\ station' = "up"
    /\ UNCHANGED <<prog, main, posted, bits, s_retry_num, fails, reports, access, incidents>>

StaGetIp ==
    /\ station = "up"
    /\ Befalls
    /\ station' = "ip"
    /\ Post("sta_ip")
    /\ UNCHANGED <<prog, main, bits, s_retry_num, fails, reports, access>>

\* The access point is lost, or not found: the station waits to be told.
Disconnect ==
    /\ station \in {"trying", "up", "ip"}
    /\ Befalls
    /\ station' = "idle"
    /\ Post("disconnected")
    /\ UNCHANGED <<prog, main, bits, s_retry_num, fails, reports, access>>

\* sta_to_eth: the netif's DHCP server has given an address.
Assign ==
    /\ prog = "sta_to_eth" /\ station \in {"up", "ip"}
    /\ Befalls
    /\ Post("assigned")
    /\ UNCHANGED <<prog, main, bits, stationVars, reports, access>>

\* two_netifs: a station joins ap.
Join ==
    /\ prog = "two_netifs" /\ station # "off"
    /\ Befalls
    /\ Post("ap_joined")
    /\ UNCHANGED <<prog, main, bits, stationVars, reports, access>>

\* The loop of two_netifs has read that ap has no address, and acts on it.
ActsWithout == main \in {"act", "down"} /\ ~seen

\* The DHCP client of ap gets an address, which makes it the default, or loses it.
Lease ==
    /\ ap.asks /\ ~ap.ip
    /\ Befalls
    /\ ap' = [ap EXCEPT !.ip = TRUE]
    /\ default' = "ap"
    /\ Post("ap_ip")
    /\ overtaken' = ActsWithout
    /\ UNCHANGED <<prog, main, bits, stationVars, reports, seen>>

Expire ==
    /\ ap.ip
    /\ Befalls
    /\ ap' = [ap EXCEPT !.ip = FALSE]
    /\ default' = "sta"
    /\ Post("ap_lost")
    /\ UNCHANGED <<prog, main, bits, stationVars, reports, seen, overtaken>>

Environment == Associate \/ StaGetIp \/ Disconnect \/ Assign \/ Join \/ Lease \/ Expire

----------------------------------------------------------------------------
\* The handlers.

Take(e) == posted # <<>> /\ Head(posted) = e /\ posted' = Tail(posted)

\* WIFI_EVENT_STA_START: esp_wifi_connect(); two_netifs has no such handler.
OnStaStart ==
    /\ Take("start")
    /\ station' = IF prog = "two_netifs" THEN station ELSE "trying"
    /\ UNCHANGED <<prog, main, bits, s_retry_num, fails, reports, access, incidents>>

\* Whether a station that was disconnected tries again; two_netifs does not.
\* Mutant: one time less than it counts.
RetriesLess == prog = "sta_to_eth" \/ (prog = "reflection" /\ s_retry_num < MaxRetry - 1)
Retries == prog = "sta_to_eth" \/ (prog = "reflection" /\ s_retry_num < MaxRetry)

\* WIFI_EVENT_STA_DISCONNECTED.  Mutant: the last failure is not reported.
ReconnectQuiet(again) ==
    /\ station' = IF again THEN "trying" ELSE station
    /\ s_retry_num' = IF again /\ prog = "reflection" THEN s_retry_num + 1 ELSE s_retry_num
    /\ UNCHANGED bits
Reconnect(again) ==
    /\ station' = IF again THEN "trying" ELSE station
    /\ s_retry_num' = IF again /\ prog = "reflection" THEN s_retry_num + 1 ELSE s_retry_num
    /\ bits' = IF again \/ prog = "two_netifs" THEN bits ELSE bits \cup {"fail"}

OnStaDisconnected ==
    /\ Take("disconnected")
    /\ Reconnect(Retries)
    /\ fails' = fails + 1
    /\ UNCHANGED <<prog, main, reports, access, incidents>>

\* IP_EVENT_STA_GOT_IP of the station.
OnStaIp ==
    /\ Take("sta_ip")
    /\ s_retry_num' = 0
    /\ fails' = 0
    /\ bits' = bits \cup (CASE prog = "reflection" -> {"connected"}
                            [] prog = "two_netifs" -> {"got_ip"}
                            [] OTHER -> {})
    /\ UNCHANGED <<prog, main, station, reports, access, incidents>>

\* IP_EVENT_AP_STAIPASSIGNED.
OnAssigned ==
    /\ Take("assigned")
    /\ bits' = bits \cup {"connected"}
    /\ UNCHANGED <<prog, main, stationVars, reports, access, incidents>>

\* WIFI_EVENT_AP_STACONNECTED: ap forgets its address and asks again.
OnApJoined ==
    /\ Take("ap_joined")
    /\ bits' = bits \cup {"sta_joined"}
    /\ ap' = [ip |-> FALSE, asks |-> TRUE, link |-> TRUE]
    /\ UNCHANGED <<prog, main, stationVars, reports, default, seen, overtaken, incidents>>

\* IP_EVENT_STA_GOT_IP of ap: esp_netif_action_connected().  Mutant: not called.
StaysAsItIs == UNCHANGED ap
ActionConnected == ap' = [ap EXCEPT !.link = TRUE]

OnApIp ==
    /\ Take("ap_ip")
    /\ bits' = bits \cup {"got_ip"}
    /\ ActionConnected
    /\ UNCHANGED <<prog, main, stationVars, reports, default, seen, overtaken, incidents>>

\* IP_EVENT_STA_LOST_IP of ap: esp_netif_action_disconnected() stops its client.
OnApLost ==
    /\ Take("ap_lost")
    /\ ap' = [ip |-> FALSE, asks |-> FALSE, link |-> FALSE]
    /\ UNCHANGED <<prog, main, bits, stationVars, reports, default, seen, overtaken, incidents>>

Handler ==
    \/ OnStaStart \/ OnStaDisconnected \/ OnStaIp \/ OnAssigned
    \/ OnApJoined \/ OnApIp \/ OnApLost

----------------------------------------------------------------------------
\* app_main.

\* Up to esp_wifi_start().  sta_to_eth reads the DNS server of the Ethernet five
\* seconds after it was started; two_netifs calls esp_wifi_connect() itself.
Start ==
    /\ main = "boot"
    /\ main' = "wait"
    /\ Post("start")
    /\ station' = IF prog = "two_netifs" THEN "trying" ELSE "idle"
    /\ IF prog = "sta_to_eth" THEN dns' \in {"unset", "ethernet"} ELSE UNCHANGED dns
    /\ UNCHANGED <<prog, bits, s_retry_num, fails, verdict, access, incidents>>

\* xEventGroupWaitBits(): two_netifs clears the bit.
Awaited == IF prog = "two_netifs" THEN {"got_ip"} ELSE {"connected", "fail"}

Waited ==
    /\ main = "wait"
    /\ bits \cap Awaited # {}
    /\ IF prog = "two_netifs"
       THEN main' = "read" /\ bits' = bits \ {"got_ip"} /\ UNCHANGED verdict
       ELSE /\ main' = "done"
            /\ verdict' = IF "connected" \in bits THEN "connected" ELSE "failed"
            /\ UNCHANGED bits
    /\ UNCHANGED <<prog, posted, stationVars, dns, access, incidents>>

\* The loop of two_netifs: it reads the address of ap, and without one takes its
\* link down and sends by the station.
ReadAddress ==
    /\ main = "read"
    /\ seen' = ap.ip
    /\ main' = "act"
    /\ UNCHANGED <<prog, posted, bits, stationVars, reports, ap, default, overtaken, incidents>>

KeepNetif ==
    /\ main = "act" /\ seen
    /\ main' = "read"
    /\ UNCHANGED <<prog, posted, bits, stationVars, reports, access, incidents>>

\* netif_set_link_down(), then netif_set_default().
TakeLinkDown ==
    /\ main = "act" /\ ~seen
    /\ main' = "down"
    /\ ap' = [ap EXCEPT !.link = FALSE]
    /\ UNCHANGED <<prog, posted, bits, stationVars, reports, default, seen, overtaken, incidents>>

SendByStation ==
    /\ main = "down"
    /\ main' = "read"
    /\ default' = "sta"
    /\ UNCHANGED <<prog, posted, bits, stationVars, reports, ap, seen, overtaken, incidents>>

Main == Start \/ Waited \/ ReadAddress \/ KeepNetif \/ TakeLinkDown \/ SendByStation

EventsNext == Environment \/ Handler \/ Main

EventsSpec == EventsInit /\ [][EventsNext]_eventsVars

----------------------------------------------------------------------------

\* A station that retries never waits in silence: once its events are handled it
\* is connected, or tries, or has reported that it failed, however the losses and
\* the addresses follow each other.
NeverSilent ==
    prog \in {"reflection", "sta_to_eth"} /\ posted = <<>> /\ main # "boot" =>
        station # "idle" \/ "fail" \in bits

\* It has failed only after so many losses in a row, and for good: no attempt is
\* going on behind the report, and none will come to contradict it.
FailsForGood ==
    "fail" \in bits =>
        /\ fails = MaxRetry + 1
        /\ station = "idle" /\ posted = <<>>

\* An access point that has an address, and whose events are handled, is in use,
\* whatever app_main did before the address came or does after it, and however
\* many were lost.  Excepted is an address that comes between app_main's reading
\* that there is none and its last call on account of it: it stays unused, with
\* its link down or the station as the default.
ApInUse ==
    prog = "two_netifs" /\ posted = <<>> /\ ap.ip /\ ~overtaken =>
        ap.link /\ default = "ap"

----------------------------------------------------------------------------
(* The inductive invariant of the proofs.                                  *)

Awaits(e) == \E i \in 1..Len(posted) : posted[i] = e

\* A loss is handled before the next can happen, and a station that retries sees
\* nothing else behind it, nor behind its start.
EventsOrdered ==
    /\ main = "boot" => station = "off" /\ posted = <<>>
    /\ main # "boot" => station # "off"
    /\ Awaits("disconnected") => station = "idle"
    /\ \A i, j \in 1..Len(posted) :
          posted[i] = "disconnected" /\ posted[j] = "disconnected" => i = j
    /\ prog # "two_netifs" =>
          \A i \in 1..Len(posted) :
              /\ posted[i] \in {"start", "disconnected", "sta_ip", "assigned"}
              /\ posted[i] \in {"start", "disconnected"} => i = Len(posted) /\ station = "idle"

\* An idle station that retries is about to be told, or has failed.
Told ==
    prog # "two_netifs" /\ station = "idle" =>
        "fail" \in bits \/ Awaits("start") \/ Awaits("disconnected")

\* Until it has failed, reflection has retried each time since the last address.
Retried ==
    /\ prog = "reflection" /\ "fail" \notin bits => fails = s_retry_num
    /\ prog # "reflection" => "fail" \notin bits
    /\ prog # "reflection" => s_retry_num = 0
    /\ fails + (IF Awaits("disconnected") THEN 1 ELSE 0) <= incidents

\* Only two_netifs has an access point; an address comes with its event, and
\* app_main sees it.
Leased ==
    /\ prog # "two_netifs" \/ main = "boot" => ~ap.ip /\ ~ap.asks
    /\ main = "down" => ~seen
    /\ ap.ip /\ ~overtaken =>
          default = "ap" /\ (ap.link \/ Awaits("ap_ip")) /\ ~ActsWithout

EventsInv == EventsTypeOK /\ EventsOrdered /\ Told /\ Retried /\ Leased /\ FailsForGood

=============================================================================
