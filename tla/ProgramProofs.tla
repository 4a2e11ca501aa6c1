---------------------------- MODULE ProgramProofs ----------------------------
(***************************************************************************)
(* The safety of the programs that are one module each: the events of the  *)
(* Wi-Fi and netif demos, the BACnet server, the AEAD channel, the SSH     *)
(* server and the socket tests.  For each an invariant stated in its       *)
(* module is inductive, and the properties follow from it, for every value *)
(* of its constants.                                                       *)
(*                                                                         *)
(* The programs have nothing to do with each other: each theorem is about  *)
(* the specification of one of them, and cites the assumption on its       *)
(* constants only.                                                         *)
(***************************************************************************)
EXTENDS NetworkEvents, BacnetNetwork, AeadChannel, SshServer, SocketTests,
        SequenceTheorems, TLAPS

----------------------------------------------------------------------------
(* What NetworkEvents and BacnetNetwork do with their queue of events.     *)

\* A queue with another event at its end.
LEMMA Posted ==
    ASSUME NEW T, NEW q \in Seq(T), NEW e \in T, NEW r, r = Append(q, e)
    PROVE  /\ r \in Seq(T) /\ r # <<>>
           /\ Len(q) \in Nat /\ Len(r) = Len(q) + 1
           /\ r[Len(r)] = e
           /\ \A i \in 1..Len(q) : r[i] = q[i]
OBVIOUS

\* A queue without its first event.
LEMMA Handled ==
    ASSUME NEW T, NEW q \in Seq(T), q # <<>>, NEW r, r = Tail(q)
    PROVE  /\ r \in Seq(T)
           /\ Len(r) \in Nat /\ Len(q) = Len(r) + 1
           /\ q[1] = Head(q)
           /\ \A i \in 1..Len(r) : r[i] = q[i + 1]
OBVIOUS

----------------------------------------------------------------------------
(* NetworkEvents.                                                          *)

NetifEvent ==
    {"start", "disconnected", "sta_ip", "assigned", "ap_joined", "ap_ip", "ap_lost"}

Netif == [ip : BOOLEAN, asks : BOOLEAN, link : BOOLEAN]

\* The fields of a netif change one by one.
LEMMA IpSet ==
    ASSUME NEW r \in Netif, NEW s, s = [r EXCEPT !.ip = TRUE]
    PROVE  s \in Netif /\ s.ip /\ (s.asks <=> r.asks) /\ (s.link <=> r.link)
<1>1. s \in Netif BY DEF Netif
<1>2. s.ip BY DEF Netif
<1>3. s.asks <=> r.asks BY DEF Netif
<1>4. s.link <=> r.link BY DEF Netif
<1> QED BY <1>1, <1>2, <1>3, <1>4

\* The same, of an address that is lost.
LEMMA IpCleared ==
    ASSUME NEW r \in Netif, NEW s, s = [r EXCEPT !.ip = FALSE]
    PROVE  s \in Netif /\ ~s.ip /\ (s.asks <=> r.asks) /\ (s.link <=> r.link)
<1>1. s \in Netif BY DEF Netif
<1>2. ~s.ip BY DEF Netif
<1>3. s.asks <=> r.asks BY DEF Netif
<1>4. s.link <=> r.link BY DEF Netif
<1> QED BY <1>1, <1>2, <1>3, <1>4

\* The same, of the link.
LEMMA LinkSet ==
    ASSUME NEW r \in Netif, NEW b \in BOOLEAN, NEW s, s = [r EXCEPT !.link = b]
    PROVE  s \in Netif /\ (s.ip <=> r.ip) /\ (s.asks <=> r.asks) /\ (s.link <=> b)
<1>1. s \in Netif BY DEF Netif
<1>2. s.ip <=> r.ip BY DEF Netif
<1>3. s.asks <=> r.asks BY DEF Netif
<1>4. s.link <=> b BY DEF Netif
<1> QED BY <1>1, <1>2, <1>3, <1>4

\* The invariant holds at first.
LEMMA EventsInitially ==
    EventsInit => EventsInv
<1> SUFFICES ASSUME EventsInit PROVE EventsInv
  OBVIOUS
<1> USE EventsAssumption DEF EventsInit
<1>1. EventsTypeOK
  <2>1. ap \in [ip : BOOLEAN, asks : BOOLEAN, link : BOOLEAN]
    BY Zenon
  <2>2. posted \in Seq({"start", "disconnected", "sta_ip", "assigned",
                        "ap_joined", "ap_ip", "ap_lost"})
    BY DEF EventsInit
  <2>3. /\ {s_retry_num, fails, incidents} \subseteq {0}
        /\ 0 \in 0..MaxRetry /\ 0 \in 0..MaxIncidents
    OBVIOUS
  <2> QED
    BY <2>1, <2>2, <2>3, Zenon DEF EventsTypeOK
<1>2. EventsOrdered /\ Told /\ Retried /\ Leased /\ FailsForGood
  <2>1. Len(posted) = 0 /\ ~ \E i \in 1..0 : TRUE
    OBVIOUS
  <2> QED
    BY <2>1 DEF EventsOrdered, Told, Retried, Leased, ActsWithout, FailsForGood, Awaits
<1> QED
  BY <1>1, <1>2 DEF EventsInv

\* What befalls the network.
LEMMA EventsNetworkStep ==
    EventsInv /\ Environment => EventsInv'
<1> SUFFICES ASSUME EventsInv, Environment PROVE EventsInv'
  OBVIOUS
<1> USE EventsAssumption DEF EventsInv, EventsTypeOK, EventsOrdered, Told, Retried,
                             Leased, ActsWithout, FailsForGood, stationVars, reports, access, Befalls
<1>0. posted \in Seq(NetifEvent) /\ Len(posted) \in Nat
  BY DEF NetifEvent
<1>1. CASE Associate
  BY <1>1 DEF Associate, Awaits
<1>2. ASSUME NEW e \in NetifEvent, Post(e)
      PROVE  /\ posted' \in Seq(NetifEvent)
             /\ Len(posted') = Len(posted) + 1
             /\ posted'[Len(posted')] = e
             /\ \A i \in 1..Len(posted) : posted'[i] = posted[i]
             /\ \A f : Awaits(f)' <=> Awaits(f) \/ f = e
  <2>1. /\ posted' \in Seq(NetifEvent)
        /\ Len(posted') = Len(posted) + 1
        /\ posted'[Len(posted')] = e
        /\ \A i \in 1..Len(posted) : posted'[i] = posted[i]
    BY <1>0, <1>2, Posted DEF Post
  <2> HIDE DEF EventsInv
  <2> QED
    BY <1>0, <2>1 DEF Awaits
<1>3. CASE StaGetIp
  <2>1. Post("sta_ip")
    BY <1>3 DEF StaGetIp
  <2>2. EventsTypeOK' /\ FailsForGood'
    BY <1>0, <1>2, <1>3, <2>1 DEF StaGetIp, NetifEvent
  <2>5. /\ station = "up" /\ station' = "ip" /\ incidents' = incidents + 1
        /\ UNCHANGED <<prog, main, bits, s_retry_num, fails, ap, default, seen, overtaken>>
    BY <1>3 DEF StaGetIp
  <2>3. EventsOrdered'
    <3> HIDE DEF EventsTypeOK, Leased, Retried, FailsForGood
    <3> QED
      BY <1>0, <1>2, <2>1, <2>5 DEF NetifEvent
  <2>4. Told' /\ Retried' /\ Leased'
    <3> HIDE DEF EventsOrdered
    <3> QED
      BY <1>0, <1>2, <2>1, <2>5 DEF NetifEvent
  <2> QED
    BY <2>2, <2>3, <2>4
<1>4. CASE Disconnect
  <2>1. Post("disconnected")
    BY <1>4 DEF Disconnect
  <2>2. ~Awaits("disconnected") /\ "fail" \notin bits
    BY <1>4 DEF Disconnect
  <2>3. EventsTypeOK' /\ FailsForGood'
    BY <1>0, <1>2, <1>4, <2>1, <2>2 DEF Disconnect, NetifEvent
  <2>4. EventsOrdered'
    <3>1. \A i \in 1..Len(posted) : posted[i] # "disconnected"
      BY <2>2 DEF Awaits
    <3>2. \A i \in 1..Len(posted') : posted'[i] = "disconnected" => i = Len(posted')
      BY <1>0, <1>2, <2>1, <3>1 DEF NetifEvent
    <3>3. /\ station # "idle" /\ station # "off"
          /\ station' = "idle" /\ UNCHANGED <<main, prog>>
      BY <1>4 DEF Disconnect
    <3>4. prog # "two_netifs" =>
              \A i \in 1..Len(posted) : posted[i] \in {"sta_ip", "assigned"}
      BY <3>3
    <3> QED
      BY <1>0, <1>2, <2>1, <3>2, <3>3, <3>4 DEF NetifEvent
  <2>5. Told' /\ Retried' /\ Leased'
    BY <1>0, <1>2, <1>4, <2>1, <2>2 DEF Disconnect, NetifEvent
  <2> QED
    BY <2>3, <2>4, <2>5
<1>5. CASE Assign
  <2>1. Post("assigned")
    BY <1>5 DEF Assign
  <2>2. EventsTypeOK' /\ FailsForGood'
    BY <1>0, <1>2, <1>5, <2>1 DEF Assign, NetifEvent
  <2>3. /\ prog = "sta_to_eth" /\ station \in {"up", "ip"} /\ incidents' = incidents + 1
        /\ UNCHANGED <<prog, main, station, bits, s_retry_num, fails>>
        /\ UNCHANGED <<ap, default, seen, overtaken>>
    BY <1>5 DEF Assign
  <2>4. EventsOrdered'
    <3> HIDE DEF EventsTypeOK, Leased, Retried, FailsForGood
    <3> QED
      BY <1>0, <1>2, <2>1, <2>3 DEF NetifEvent
  <2>5. Told' /\ Retried' /\ Leased'
    <3> HIDE DEF EventsOrdered
    <3> QED
      BY <1>0, <1>2, <2>1, <2>3 DEF NetifEvent
  <2> QED
    BY <2>2, <2>4, <2>5
<1>6. CASE Join
  <2>1. Post("ap_joined")
    BY <1>6 DEF Join
  <2> QED
    BY <1>0, <1>2, <1>6, <2>1 DEF Join, NetifEvent
<1>7. CASE Lease
  <2>1. Post("ap_ip")
    BY <1>7 DEF Lease
  <2>2. ap' \in Netif /\ ap'.ip /\ (ap'.asks <=> ap.asks) /\ (ap'.link <=> ap.link)
    BY <1>7, IpSet DEF Lease, Netif
  <2>7. overtaken' \in BOOLEAN /\ (overtaken' <=> ActsWithout) /\ UNCHANGED <<main, seen>>
    BY <1>7 DEF Lease
  <2>3. EventsTypeOK' /\ FailsForGood'
    BY <1>0, <1>2, <1>7, <2>1, <2>2, <2>7 DEF Lease, NetifEvent, Netif
  <2>6. /\ prog = "two_netifs" /\ main # "boot"
        /\ incidents \in Nat /\ incidents' = incidents + 1 /\ fails \in Nat
        /\ UNCHANGED <<prog, main, bits, station, s_retry_num, fails>>
    BY <1>7 DEF Lease
  <2>4. EventsOrdered' /\ Told' /\ Retried'
    <3> HIDE DEF EventsTypeOK, Leased
    <3> QED
      BY <1>0, <1>2, <2>1, <2>6 DEF NetifEvent
  <2>5. Leased'
    BY <1>0, <1>2, <1>7, <2>1, <2>2, <2>6, <2>7 DEF Lease, NetifEvent, Netif
  <2> QED
    BY <2>3, <2>4, <2>5
<1>8. CASE Expire
  <2>1. Post("ap_lost")
    BY <1>8 DEF Expire
  <2>2. ap' \in Netif /\ ~ap'.ip /\ (ap'.asks <=> ap.asks) /\ (ap'.link <=> ap.link)
    BY <1>8, IpCleared DEF Expire, Netif
  <2>3. EventsTypeOK' /\ FailsForGood'
    BY <1>0, <1>2, <1>8, <2>1, <2>2 DEF Expire, NetifEvent, Netif
  <2>6. /\ prog = "two_netifs" /\ main # "boot"
        /\ incidents \in Nat /\ incidents' = incidents + 1 /\ fails \in Nat
        /\ UNCHANGED <<prog, main, bits, station, s_retry_num, fails>>
    BY <1>8 DEF Expire
  <2>4. EventsOrdered' /\ Told' /\ Retried'
    <3> HIDE DEF EventsTypeOK, Leased
    <3> QED
      BY <1>0, <1>2, <2>1, <2>6 DEF NetifEvent
  <2>5. Leased'
    BY <1>0, <1>2, <1>8, <2>1, <2>2 DEF Expire, NetifEvent, Netif
  <2> QED
    BY <2>3, <2>4, <2>5
<1> QED
  BY <1>1, <1>3, <1>4, <1>5, <1>6, <1>7, <1>8 DEF Environment

\* The handlers take the events in turn.
LEMMA HandlerStep ==
    EventsInv /\ Handler => EventsInv'
<1> SUFFICES ASSUME EventsInv, Handler PROVE EventsInv'
  OBVIOUS
<1> USE EventsAssumption DEF EventsInv, EventsTypeOK, EventsOrdered, Told, Retried,
                             Leased, ActsWithout, FailsForGood, stationVars, reports, access
<1>0. posted \in Seq(NetifEvent) /\ Len(posted) \in Nat
  BY DEF NetifEvent
<1>1. ASSUME NEW e, Take(e)
      PROVE  /\ posted' \in Seq(NetifEvent) /\ Len(posted') \in Nat
             /\ Len(posted) = Len(posted') + 1
             /\ posted[1] = e /\ posted # <<>>
             /\ \A i \in 1..Len(posted') : posted'[i] = posted[i + 1]
             /\ Awaits(e)
             /\ \A f : Awaits(f)' => Awaits(f)
             /\ \A f : f # e /\ Awaits(f) => Awaits(f)'
  <2>1. /\ posted' \in Seq(NetifEvent) /\ Len(posted') \in Nat
        /\ Len(posted) = Len(posted') + 1
        /\ posted[1] = e /\ posted # <<>>
        /\ \A i \in 1..Len(posted') : posted'[i] = posted[i + 1]
    BY <1>0, <1>1, Handled DEF Take
  <2>2. Awaits(e)
    BY <2>1 DEF Awaits
  <2>3. ASSUME NEW f, Awaits(f)' PROVE Awaits(f)
    <3>1. PICK i \in 1..Len(posted') : posted'[i] = f
      BY <2>3 DEF Awaits
    <3>2. i + 1 \in 1..Len(posted) /\ posted[i + 1] = f
      BY <2>1, <3>1
    <3> QED
      BY <3>2 DEF Awaits
  <2>4. ASSUME NEW f, f # e, Awaits(f) PROVE Awaits(f)'
    <3>1. PICK i \in 1..Len(posted) : posted[i] = f
      BY <2>4 DEF Awaits
    <3> HIDE DEF EventsInv
    <3>2. i # 1 /\ i \in 1..(Len(posted') + 1)
      BY <2>1, <2>4, <3>1
    <3>3. i - 1 \in 1..Len(posted') /\ posted'[i - 1] = posted[(i - 1) + 1]
      BY <2>1, <3>2
    <3>4. i - 1 \in 1..Len(posted') /\ posted'[i - 1] = f
      BY <3>1, <3>3
    <3> QED
      BY <3>4 DEF Awaits
  <2> QED
    BY <2>1, <2>2, <2>3, <2>4
<1>2. ASSUME NEW e, Take(e), station' = station \/ e = "start" \/ e = "disconnected",
             UNCHANGED <<main, prog>>, prog = "two_netifs" => station' = station,
             station' # "off" \/ main = "boot"
      PROVE  EventsOrdered'
  <2> HIDE DEF EventsTypeOK, Told, Retried, Leased, FailsForGood
  <2>1. main # "boot" /\ main' # "boot" /\ station' # "off"
    BY <1>1, <1>2
  <2>2. \A i, j \in 1..Len(posted') :
            posted'[i] = "disconnected" /\ posted'[j] = "disconnected" => i = j
    <3> TAKE i, j \in 1..Len(posted')
    <3>1. i + 1 \in 1..Len(posted) /\ j + 1 \in 1..Len(posted)
      BY <1>1, <1>2
    <3> QED
      BY <1>1, <1>2, <3>1
  <2>3. prog # "two_netifs" =>
            \A i \in 1..Len(posted') :
                /\ posted'[i] \in {"start", "disconnected", "sta_ip", "assigned"}
                /\ posted'[i] \in {"start", "disconnected"} =>
                        i = Len(posted') /\ station' = "idle"
    BY <1>1, <1>2
  <2>4. Awaits("disconnected")' => station' = "idle"
    BY <1>1, <1>2 DEF Awaits
  <2> QED
    BY <1>2, <2>1, <2>2, <2>3, <2>4
<1>3. CASE OnStaStart
  <2>1. Take("start")
    BY <1>3 DEF OnStaStart
  <2>2. EventsOrdered'
    BY <1>1, <1>2, <1>3, <2>1 DEF OnStaStart
  <2> QED
    BY <1>1, <1>3, <2>1, <2>2 DEF OnStaStart, NetifEvent
<1>4. CASE OnStaDisconnected
  <2>1. Take("disconnected")
    BY <1>4 DEF OnStaDisconnected
  <2>2. EventsOrdered'
    BY <1>1, <1>2, <1>4, <2>1 DEF OnStaDisconnected, Reconnect, Retries
  <2>3. ~Awaits("disconnected")'
    <3> SUFFICES ASSUME NEW i \in 1..Len(posted'), posted'[i] = "disconnected" PROVE FALSE
      BY DEF Awaits
    <3>1. i + 1 \in 1..Len(posted) /\ 1 \in 1..Len(posted)
      BY <1>1, <2>1
    <3>2. posted[i + 1] = "disconnected" /\ posted[1] = "disconnected"
      BY <1>1, <2>1
    <3>3. i + 1 = 1
      BY <3>1, <3>2
    <3> QED
      BY <3>3
  <2>4. station = "idle" /\ "fail" \notin bits
    BY <1>1, <2>1
  <2>5. prog # "two_netifs" => posted' = <<>>
    BY <1>1, <2>1
  <2>6. fails + 1 <= incidents /\ fails' = fails + 1 /\ incidents' = incidents
    BY <1>1, <1>4, <2>1 DEF OnStaDisconnected
  <2>7. s_retry_num' \in 0..MaxRetry
    BY <1>4 DEF OnStaDisconnected, Reconnect, Retries
  <2>8. EventsTypeOK'
    BY <1>1, <1>4, <2>1, <2>6, <2>7 DEF OnStaDisconnected, Reconnect, NetifEvent
  <2>9. Told' /\ Retried' /\ Leased'
    BY <1>1, <1>4, <2>1, <2>3, <2>4, <2>6 DEF OnStaDisconnected, Reconnect, Retries
  <2>10. FailsForGood'
    BY <1>4, <2>4, <2>5, <2>6 DEF OnStaDisconnected, Reconnect, Retries
  <2> QED
    BY <2>2, <2>8, <2>9, <2>10
<1>5. CASE OnStaIp
  <2>1. Take("sta_ip")
    BY <1>5 DEF OnStaIp
  <2>2. EventsOrdered'
    BY <1>1, <1>2, <1>5, <2>1 DEF OnStaIp
  <2> QED
    BY <1>1, <1>5, <2>1, <2>2 DEF OnStaIp, NetifEvent
<1>6. CASE OnAssigned
  <2>1. Take("assigned")
    BY <1>6 DEF OnAssigned
  <2>2. EventsOrdered'
    BY <1>1, <1>2, <1>6, <2>1 DEF OnAssigned
  <2> QED
    BY <1>1, <1>6, <2>1, <2>2 DEF OnAssigned, NetifEvent
<1>7. CASE OnApJoined
  <2>1. Take("ap_joined")
    BY <1>7 DEF OnApJoined
  <2>2. EventsOrdered'
    BY <1>1, <1>2, <1>7, <2>1 DEF OnApJoined
  <2> QED
    BY <1>1, <1>7, <2>1, <2>2 DEF OnApJoined, NetifEvent
<1>8. CASE OnApIp
  <2>1. Take("ap_ip")
    BY <1>8 DEF OnApIp
  <2>2. EventsOrdered'
    BY <1>1, <1>2, <1>8, <2>1 DEF OnApIp
  <2>3. ap' \in Netif /\ (ap'.ip <=> ap.ip) /\ (ap'.asks <=> ap.asks) /\ ap'.link
    BY <1>8, LinkSet DEF OnApIp, ActionConnected, Netif
  <2>4. EventsTypeOK'
    BY <1>1, <1>8, <2>1, <2>3 DEF OnApIp, NetifEvent, Netif
  <2>5. Told' /\ Retried' /\ FailsForGood'
    BY <1>1, <1>8, <2>1 DEF OnApIp
  <2>6. Leased'
    BY <1>8, <2>3 DEF OnApIp
  <2> QED
    BY <2>2, <2>4, <2>5, <2>6
<1>9. CASE OnApLost
  <2>1. Take("ap_lost")
    BY <1>9 DEF OnApLost
  <2>2. EventsOrdered'
    BY <1>1, <1>2, <1>9, <2>1 DEF OnApLost
  <2> QED
    BY <1>1, <1>9, <2>1, <2>2 DEF OnApLost, NetifEvent
<1> QED
  BY <1>3, <1>4, <1>5, <1>6, <1>7, <1>8, <1>9 DEF Handler

\* app_main starts, waits and picks an interface.
LEMMA MainStep ==
    EventsInv /\ Main => EventsInv'
<1> SUFFICES ASSUME EventsInv, Main PROVE EventsInv'
  OBVIOUS
<1> USE EventsAssumption DEF EventsInv, EventsTypeOK, EventsOrdered, Told, Retried,
                             Leased, ActsWithout, FailsForGood, stationVars, reports, access
<1>1. CASE Start
  <2>1. posted = <<>> /\ posted' = <<"start">>
    BY <1>1 DEF Start, Post
  <2> QED
    BY <1>1, <2>1 DEF Start, Awaits
<1>2. CASE Waited
  <2>1. /\ main' # "boot" /\ main # "boot"
        /\ "fail" \in bits' <=> "fail" \in bits
        /\ UNCHANGED <<prog, posted, station, s_retry_num, fails, incidents>>
        /\ UNCHANGED <<ap, default, overtaken, seen>>
        /\ main \notin {"act", "down"} /\ main' \notin {"act", "down"}
    BY <1>2 DEF Waited
  <2>5. /\ main' \in {"read", "done"} /\ bits' \subseteq bits
        /\ verdict' \in {"none", "connected", "failed"} /\ UNCHANGED dns
    BY <1>2 DEF Waited
  <2>2. EventsTypeOK'
    BY <2>1, <2>5
  <2>3. EventsOrdered' /\ Told' /\ Retried' /\ FailsForGood'
    BY <2>1 DEF Awaits
  <2>4. Leased'
    BY <2>1 DEF Awaits
  <2> QED
    BY <2>2, <2>3, <2>4
<1>3. CASE ReadAddress
  <2>1. /\ main = "read" /\ main' = "act" /\ seen' = ap.ip
        /\ UNCHANGED <<prog, posted, bits, station, s_retry_num, fails, verdict, dns>>
        /\ UNCHANGED <<ap, default, overtaken, incidents>>
    BY <1>3 DEF ReadAddress
  <2>2. EventsTypeOK'
    BY <2>1
  <2>3. EventsOrdered' /\ Told' /\ Retried' /\ FailsForGood'
    BY <2>1 DEF Awaits
  <2>4. Leased'
    BY <2>1 DEF Awaits
  <2> QED
    BY <2>2, <2>3, <2>4
<1>4. CASE KeepNetif
  <2>1. /\ main = "act" /\ main' = "read" /\ seen
        /\ UNCHANGED <<prog, posted, bits, station, s_retry_num, fails, verdict, dns>>
        /\ UNCHANGED <<ap, default, seen, overtaken, incidents>>
    BY <1>4 DEF KeepNetif
  <2>2. EventsTypeOK'
    BY <2>1
  <2>3. EventsOrdered' /\ Told' /\ Retried' /\ FailsForGood'
    BY <2>1 DEF Awaits
  <2>4. Leased'
    BY <2>1 DEF Awaits
  <2> QED
    BY <2>2, <2>3, <2>4
<1>5. CASE TakeLinkDown
  <2>1. /\ main = "act" /\ main' = "down" /\ ~seen
        /\ UNCHANGED <<prog, posted, bits, station, s_retry_num, fails, verdict, dns>>
        /\ UNCHANGED <<default, seen, overtaken, incidents>>
    BY <1>5 DEF TakeLinkDown
  <2>2. ap' \in Netif /\ (ap'.ip <=> ap.ip) /\ (ap'.asks <=> ap.asks)
    BY <1>5, LinkSet DEF TakeLinkDown, Netif
  <2>3. EventsTypeOK'
    BY <2>1, <2>2 DEF Netif
  <2>4. EventsOrdered' /\ Told' /\ Retried' /\ FailsForGood'
    BY <2>1 DEF Awaits
  <2>5. Leased'
    BY <2>1, <2>2 DEF Awaits
  <2> QED
    BY <2>3, <2>4, <2>5
<1>6. CASE SendByStation
  <2>1. /\ main = "down" /\ main' = "read" /\ default' = "sta"
        /\ UNCHANGED <<prog, posted, bits, station, s_retry_num, fails, verdict, dns>>
        /\ UNCHANGED <<ap, seen, overtaken, incidents>>
    BY <1>6 DEF SendByStation
  <2>2. EventsTypeOK'
    BY <2>1
  <2>3. EventsOrdered' /\ Told' /\ Retried' /\ FailsForGood'
    BY <2>1 DEF Awaits
  <2>4. Leased'
    BY <2>1 DEF Awaits
  <2> QED
    BY <2>2, <2>3, <2>4
<1> QED
  BY <1>1, <1>2, <1>3, <1>4, <1>5, <1>6 DEF Main

\* It holds in every reachable state of the three programs.
LEMMA EventsInvariant ==
    EventsSpec => []EventsInv
<1>1. EventsInv /\ [EventsNext]_eventsVars => EventsInv'
  <2>1. EventsInv /\ UNCHANGED eventsVars => EventsInv'
    BY DEF eventsVars, stationVars, reports, access, EventsInv, EventsTypeOK,
           EventsOrdered, Told, Retried, Leased, FailsForGood, Awaits, ActsWithout
  <2> QED
    BY <2>1, EventsNetworkStep, HandlerStep, MainStep DEF EventsNext
<1> QED
  BY EventsInitially, <1>1, PTL DEF EventsSpec

\* The event group, the retry count and the netifs of the demos keep their types.
THEOREM EventsTypes ==
    EventsSpec => []EventsTypeOK
<1>1. EventsInv => EventsTypeOK
  BY DEF EventsInv
<1> QED
  BY <1>1, EventsInvariant, PTL

\* A station of reflection or sta_to_eth that has handled its events is connected,
\* tries, or has reported its failure, for any number of retries.
THEOREM EndsInRetryOrFail ==
    EventsSpec => []NeverSilent
<1>1. EventsInv => NeverSilent
  BY EventsAssumption DEF EventsInv, EventsTypeOK, Told, Awaits, NeverSilent
<1> QED
  BY <1>1, EventsInvariant, PTL

\* The FAIL bit of reflection is set after MaxRetry + 1 losses in a row, not
\* before, and no attempt is going on behind it.
THEOREM FailedForGood ==
    EventsSpec => []FailsForGood
<1>1. EventsInv => FailsForGood
  BY DEF EventsInv
<1> QED
  BY <1>1, EventsInvariant, PTL

\* An address that the access point of two_netifs leases is in use once its events
\* are handled, before, between and after the rounds of app_main's loop; excepted
\* is one that comes between its reading that there is none and the two calls that
\* follow from it.
THEOREM ApStaysInUse ==
    EventsSpec => []ApInUse
<1>1. EventsInv => ApInUse
  BY DEF EventsInv, Leased, ApInUse, Awaits
<1> QED
  BY <1>1, EventsInvariant, PTL

----------------------------------------------------------------------------
(* BacnetNetwork.                                                          *)

BacnetEvent == {"start", "disconnected", "got_ip"}

\* The invariant holds at first.
LEMMA BacnetInitially ==
    BacnetInit => BacnetInv
<1> SUFFICES ASSUME BacnetInit PROVE BacnetInv
  OBVIOUS
<1> USE BacnetAssumption DEF BacnetInit
<1>1. BacnetTypeOK
  <2>1. last \in [since : 0..Rate, wrapped : BOOLEAN] /\ since \in 0..Rate
    <3>1. Rate \in 0..Rate /\ 0 \in 0..Rate
      OBVIOUS
    <3> QED
      BY <3>1, Zenon
  <2>2. queue \in Seq({"start", "disconnected", "got_ip"})
    OBVIOUS
  <2>3. {tick, tickcount} \subseteq 0..Wrap - 1 /\ changes \in 0..Changes
    OBVIOUS
  <2> QED
    BY <2>1, <2>2, <2>3, Zenon DEF BacnetTypeOK
<1>2. NotSetUp /\ Ordered /\ Opened /\ Matched
  BY DEF NotSetUp, Ordered, Opened, Matched, Unhandled
<1>3. Timed /\ SecondsApartUnlessWrapped
  BY DEF Timed, SecondsApartUnlessWrapped
<1> QED
  BY <1>1, <1>2, <1>3 DEF BacnetInv

\* The network: only the link, the address and the queue change.
LEMMA BacnetNetworkStep ==
    BacnetInv /\ Network => BacnetInv'
<1> SUFFICES ASSUME BacnetInv, Network PROVE BacnetInv'
  OBVIOUS
<1> USE BacnetAssumption DEF BacnetInv
<1>1. queue \in Seq(BacnetEvent) /\ Len(queue) \in Nat
  BY DEF BacnetEvent, BacnetTypeOK
<1>2. /\ UNCHANGED <<medium, handler, bit, sock, open, addr, unmade, task, using>>
      /\ UNCHANGED <<tick, since, wrapped, tickcount, last>>
      /\ link \in {"trying", "up", "ip"} /\ link' \in {"idle", "trying", "up", "ip"}
  BY DEF Network, LinkUp, GetIp, LinkDown, events, clock
<1>3. BacnetTypeOK'
  <2>1. queue' \in Seq(BacnetEvent) /\ changes' \in 0..Changes /\ ip' \in Ip \cup {None}
    <3>1. CASE LinkUp
      BY <1>1, <3>1 DEF LinkUp, BacnetTypeOK
    <3>2. CASE GetIp
      BY <1>1, <3>2, Posted DEF GetIp, BacnetTypeOK, BacnetEvent
    <3>3. CASE LinkDown
      BY <1>1, <3>3, Posted DEF LinkDown, BacnetTypeOK, BacnetEvent
    <3> QED
      BY <3>1, <3>2, <3>3 DEF Network
  <2> QED
    BY <1>2, <2>1 DEF BacnetTypeOK, BacnetEvent
<1>4. Opened' /\ Matched'
  BY <1>2 DEF Opened, Matched
<1>5. Timed' /\ SecondsApartUnlessWrapped'
  BY <1>2 DEF Timed, SecondsApartUnlessWrapped
<1>6. /\ task # "setup" /\ ~Unhandled("start")
      /\ medium = "wifi" => ~Unhandled("disconnected")
  BY <1>2 DEF NotSetUp, Ordered, Unhandled
<1>7. CASE LinkUp
  BY <1>2, <1>6, <1>7, <1>3, <1>4, <1>5 DEF LinkUp, NotSetUp, Ordered, Unhandled
<1>8. ASSUME NEW e \in {"got_ip", "disconnected"}, queue' = Append(queue, e),
             e = "got_ip" <=> link' = "ip", link' = "idle" => medium = "wifi",
             e = "disconnected" /\ medium = "wifi" => link' = "idle"
      PROVE  NotSetUp' /\ Ordered'
  <2>1. /\ queue' # <<>> /\ queue'[Len(queue')] = e
        /\ Len(queue') = Len(queue) + 1
        /\ \A i \in 1..Len(queue) : queue'[i] = queue[i]
    BY <1>1, <1>8, Posted DEF BacnetEvent
  <2>2. ~Unhandled("start")'
    BY <1>1, <1>6, <2>1 DEF Unhandled
  <2>3. medium = "wifi" =>
            \A i \in 1..Len(queue') :
                queue'[i] = "disconnected" => i = Len(queue') /\ link' = "idle"
    BY <1>1, <1>6, <1>8, <2>1 DEF Unhandled
  <2> QED
    BY <1>2, <1>6, <1>8, <2>1, <2>2, <2>3 DEF NotSetUp, Ordered
<1>9. CASE GetIp
  BY <1>3, <1>4, <1>5, <1>8, <1>9 DEF GetIp
<1>10. CASE LinkDown
  BY <1>3, <1>4, <1>5, <1>8, <1>10 DEF LinkDown, BacnetTypeOK
<1> QED
  BY <1>7, <1>9, <1>10 DEF Network

\* The event task: it takes an event, and opens or closes the socket.
LEMMA EventTaskStep ==
    BacnetInv /\ EventTask => BacnetInv'
<1> SUFFICES ASSUME BacnetInv, EventTask PROVE BacnetInv'
  OBVIOUS
<1> USE BacnetAssumption DEF BacnetInv
<1>1. queue \in Seq(BacnetEvent) /\ Len(queue) \in Nat
  BY DEF BacnetEvent, BacnetTypeOK
<1>2. /\ UNCHANGED <<medium, ip, changes, task, using>>
      /\ UNCHANGED <<tick, since, wrapped, tickcount, last>>
  BY DEF EventTask, OnStart, OnDisconnected, CleanupClose, CleanupUnset, OnGotIp,
         StartBACnet, Announce, network, clock
<1>3. Timed' /\ SecondsApartUnlessWrapped'
  BY <1>2 DEF Timed, SecondsApartUnlessWrapped
<1>4. ASSUME NEW e, Dispatch(e)
      PROVE  /\ handler = "idle" /\ task # "setup" /\ link # "off"
             /\ queue' \in Seq(BacnetEvent) /\ Len(queue') \in Nat
             /\ Len(queue) = Len(queue') + 1
             /\ queue[1] = e /\ queue # <<>>
             /\ \A i \in 1..Len(queue') : queue'[i] = queue[i + 1]
             /\ Unhandled(e)
             /\ queue' # <<>> => queue'[Len(queue')] = queue[Len(queue)]
             /\ queue' = <<>> => Len(queue) = 1
             /\ ~Unhandled("start")'
  <2>1. /\ queue' \in Seq(BacnetEvent) /\ Len(queue') \in Nat
        /\ Len(queue) = Len(queue') + 1
        /\ queue[1] = e /\ queue # <<>>
        /\ \A i \in 1..Len(queue') : queue'[i] = queue[i + 1]
    BY <1>1, <1>4, Handled DEF Dispatch
  <2>2. Unhandled(e)
    BY <2>1 DEF Unhandled
  <2>3. queue' # <<>> => queue'[Len(queue')] = queue[Len(queue)]
    BY <2>1
  <2>4. queue' = <<>> => Len(queue) = 1
    BY <2>1
  <2>5. ~Unhandled("start")'
    <3> SUFFICES ASSUME NEW i \in 1..Len(queue'), queue'[i] = "start" PROVE FALSE
      BY DEF Unhandled
    <3>1. i + 1 \in 1..Len(queue) /\ queue[i + 1] = "start"
      BY <2>1
    <3>2. Len(queue) = 1
      BY <3>1 DEF NotSetUp, Unhandled
    <3> QED
      BY <3>1, <3>2
  <2> QED
    BY <1>4, <2>1, <2>2, <2>3, <2>4, <2>5 DEF Dispatch, NotSetUp
<1>5. CASE OnStart
  <2>1. /\ Dispatch("start") /\ link' = "trying"
        /\ UNCHANGED <<handler, bit, sock, open, addr, unmade>>
    BY <1>5 DEF OnStart, events
  <2>2. queue' = <<>> /\ ~bit
    BY <1>1, <1>4, <2>1 DEF NotSetUp
  <2>3. BacnetTypeOK'
    BY <1>2, <1>4, <2>1 DEF BacnetTypeOK, BacnetEvent
  <2>4. NotSetUp' /\ Ordered'
    BY <1>2, <1>4, <2>1, <2>2 DEF NotSetUp, Ordered
  <2>5. Opened' /\ Matched'
    BY <2>1 DEF Opened, Matched
  <2> QED
    BY <1>3, <2>3, <2>4, <2>5
<1>6. CASE OnDisconnected
  <2>1. /\ Dispatch("disconnected") /\ UNCHANGED <<sock, open, addr, unmade>>
        /\ link' = IF medium = "wifi" THEN "trying" ELSE link
        /\ ~bit' /\ bit' \in BOOLEAN /\ handler' = "close"
    BY <1>6 DEF OnDisconnected, ClearBit
  <2>2. medium = "wifi" => queue' = <<>>
    BY <1>1, <1>4, <2>1 DEF Ordered
  <2>3. queue' = <<>> => link' # "ip"
    BY <1>1, <1>4, <2>1 DEF Ordered
  <2>4. BacnetTypeOK'
    BY <1>2, <1>4, <2>1 DEF BacnetTypeOK, BacnetEvent
  <2>5. NotSetUp' /\ Ordered'
    BY <1>2, <1>4, <2>1, <2>2, <2>3 DEF NotSetUp, Ordered
  <2>6. Opened' /\ Matched'
    BY <1>4, <2>1 DEF Opened, Matched
  <2> QED
    BY <1>3, <2>4, <2>5, <2>6
<1>7. CASE OnGotIp
  <2>1. /\ Dispatch("got_ip") /\ UNCHANGED <<link, sock, open, addr, unmade>>
        /\ bit' /\ bit' \in BOOLEAN
        /\ handler' = IF ~bit THEN "start" ELSE "idle"
    BY <1>7 DEF OnGotIp, Starts, BacnetTypeOK
  <2>2. queue' = <<>> => link' = "ip"
    BY <1>1, <1>4, <2>1 DEF Ordered
  <2>3. medium = "wifi" =>
            \A i \in 1..Len(queue') :
                queue'[i] = "disconnected" => i = Len(queue') /\ link' = "idle"
    BY <1>1, <1>4, <2>1 DEF Ordered
  <2>4. BacnetTypeOK'
    BY <1>2, <1>4, <2>1 DEF BacnetTypeOK, BacnetEvent
  <2>5. NotSetUp' /\ Ordered'
    BY <1>2, <1>4, <2>1, <2>2, <2>3 DEF NotSetUp, Ordered
  <2>6. Opened' /\ Matched'
    BY <1>4, <2>1 DEF Opened, Matched
  <2> QED
    BY <1>3, <2>4, <2>5, <2>6
<1>8. CASE CleanupClose \/ CleanupUnset \/ StartBACnet \/ Announce
  <2>1. UNCHANGED <<link, queue, bit>> /\ link # "off"
    BY <1>8
    DEF CleanupClose, CleanupUnset, StartBACnet, Announce, network, NotSetUp
  <2>2. NotSetUp' /\ Ordered'
    BY <1>2, <2>1 DEF NotSetUp, Ordered, Unhandled
  <2>3. CASE CleanupClose
    BY <1>2, <1>3, <2>1, <2>2, <2>3 DEF CleanupClose, BacnetTypeOK, Opened, Matched
  <2>5. CASE CleanupUnset
    BY <1>2, <1>3, <2>1, <2>2, <2>5 DEF CleanupUnset, BacnetTypeOK, Opened, Matched
  <2>6. CASE Announce
    BY <1>2, <1>3, <2>1, <2>2, <2>6 DEF Announce, BacnetTypeOK, Opened, Matched
  <2>4. CASE StartBACnet
    <3>1. /\ handler = "start" /\ handler' = "announce" /\ addr' \in Ip \cup {None}
          /\ bit /\ bit' /\ open = {}
      BY <2>1, <2>4 DEF StartBACnet, BacnetTypeOK, Opened, Matched
    <3>2. \/ sock' \in Sockets /\ open' = {sock'} /\ unmade' = FALSE
          \/ sock' = None /\ open' = {} /\ unmade' = TRUE
      BY <2>4, <3>1 DEF StartBACnet, OpenSocket
    <3>3. BacnetTypeOK'
      BY <1>2, <2>1, <3>1, <3>2 DEF BacnetTypeOK
    <3>4. Opened' /\ Matched'
      BY <3>1, <3>2 DEF Opened, Matched
    <3> QED
      BY <1>3, <2>2, <3>3, <3>4
  <2> QED
    BY <1>8, <2>3, <2>4, <2>5, <2>6
<1> QED
  BY <1>5, <1>6, <1>7, <1>8 DEF EventTask

\* The tick count goes round.
LEMMA Ticks ==
    ASSUME NEW t \in 0..Wrap - 1, NEW d \in 0..1
    PROVE  (t + d) % Wrap = IF t + d = Wrap THEN 0 ELSE t + d
BY BacnetAssumption

\* Time that passes is counted, unless the count wraps.
LEMMA PassStep ==
    ASSUME BacnetInv, NEW d \in 0..1, Pass(d)
    PROVE  /\ tick' \in 0..Wrap - 1 /\ since' \in 0..Rate /\ wrapped' \in BOOLEAN
           /\ ~wrapped' => ~wrapped /\ tick' = tick + d
<1> USE BacnetAssumption
<1>1. tick \in 0..Wrap - 1 /\ since \in 0..Rate /\ wrapped \in BOOLEAN
  BY DEF BacnetInv, BacnetTypeOK
<1>2. tick' = IF tick + d = Wrap THEN 0 ELSE tick + d
  BY <1>1, Ticks DEF Pass
<1>3. tick' \in 0..Wrap - 1 /\ (tick' < tick <=> tick + d = Wrap)
  BY <1>1, <1>2
<1>4. since' \in 0..Rate
  BY <1>1 DEF Pass
<1>5. wrapped' \in BOOLEAN /\ (~wrapped' => ~wrapped /\ ~(tick' < tick))
  BY <1>1 DEF Pass
<1> QED
  BY <1>2, <1>3, <1>4, <1>5

\* Time that passes in the loop keeps the count and the time together.
LEMMA TimedStep ==
    ASSUME BacnetInv, NEW d \in 0..1, Pass(d),
           tickcount' = tickcount, task \notin {"setup", "init"}
    PROVE  Timed'
<1> SUFFICES ASSUME ~wrapped'
             PROVE  /\ tickcount' <= tick'
                    /\ \/ since' = tick' - tickcount'
                       \/ since' = Rate /\ tick' - tickcount' >= Rate
  BY DEF Timed
<1>1. ~wrapped /\ tick' = tick + d
  BY PassStep
<1>2. /\ tickcount <= tick
      /\ since = tick - tickcount \/ (since = Rate /\ tick - tickcount >= Rate)
  BY <1>1 DEF BacnetInv, Timed
<1>3. tick \in Nat /\ tickcount \in Nat /\ since \in Nat /\ Rate \in Nat
  BY BacnetAssumption DEF BacnetInv, BacnetTypeOK
<1>4. since' = IF since + d > Rate THEN Rate ELSE since + d
  BY DEF Pass
<1> QED
  BY <1>1, <1>2, <1>3, <1>4

\* BACnetTask: it leaves what the event task keeps alone.
LEMMA BACnetTaskStep ==
    BacnetInv /\ BACnetTask => BacnetInv'
<1> SUFFICES ASSUME BacnetInv, BACnetTask PROVE BacnetInv'
  OBVIOUS
<1> USE BacnetAssumption DEF BacnetInv
<1>1. UNCHANGED <<medium, ip, changes, handler, bit, sock, open, addr, unmade>>
  BY DEF BACnetTask, Setup, NetworkUp, Delay, StillWaiting, Connected, RunTimers,
         Receive, Received, network, events
<1>2. Opened' /\ Matched'
  BY <1>1 DEF Opened, Matched
<1>0. /\ medium' \in {"wifi", "eth"} /\ ip' \in Ip \cup {None} /\ changes' \in 0..Changes
      /\ handler' \in {"idle", "close", "unset", "start", "announce"}
      /\ bit' \in BOOLEAN /\ sock' \in Sockets \cup {None} /\ open' \subseteq Sockets
      /\ addr' \in Ip \cup {None} /\ unmade' \in BOOLEAN
  BY <1>1 DEF BacnetTypeOK
<1>3. CASE Setup
  <2>1. /\ link = "off" /\ queue = <<>> /\ ~bit /\ handler = "idle" /\ task' = "init"
        /\ IF medium = "wifi" THEN link' = "idle" /\ queue' = <<"start">>
           ELSE link' = "trying" /\ queue' = <<>>
        /\ UNCHANGED <<tick, since, wrapped, tickcount, last, using>>
    BY <1>3 DEF Setup, NotSetUp, clock
  <2>2. BacnetTypeOK'
    <3>1. queue' \in Seq({"start", "disconnected", "got_ip"})
      <4>1. CASE medium = "wifi"
        <5>1. /\ queue \in Seq(BacnetEvent) /\ "start" \in BacnetEvent
              /\ queue' = Append(queue, "start")
          BY <1>3, <4>1 DEF Setup, BacnetTypeOK, BacnetEvent
        <5> QED
          BY <5>1, Posted DEF BacnetEvent
      <4>2. CASE medium # "wifi"
        BY <2>1, <4>2
      <4> QED
        BY <4>1, <4>2
    <3>2. link' \in {"off", "idle", "trying", "up", "ip"}
      BY <2>1
    <3> QED
      BY <1>1, <2>1, <3>1, <3>2, Zenon DEF BacnetTypeOK
  <2>3. NotSetUp' /\ Ordered'
    BY <1>1, <2>1 DEF NotSetUp, Ordered, Unhandled
  <2> QED
    BY <1>2, <2>1, <2>2, <2>3 DEF Timed, SecondsApartUnlessWrapped
<1>4. CASE ~Setup
  <2>1. task # "setup" /\ task' # "setup" /\ UNCHANGED <<link, queue>>
    BY <1>4
    DEF BACnetTask, NetworkUp, Delay, StillWaiting, Connected, RunTimers, Receive,
        Received, network
  <2>2. NotSetUp' /\ Ordered'
    BY <1>1, <2>1 DEF NotSetUp, Ordered, Unhandled
  <2>3. CASE NetworkUp
    <3>1. BacnetTypeOK'
      BY <1>1, <2>1, <2>3 DEF NetworkUp, BacnetTypeOK
    <3>2. Timed' /\ SecondsApartUnlessWrapped'
      BY <2>3 DEF NetworkUp, Timed, BacnetTypeOK, SecondsApartUnlessWrapped
    <3> QED
      BY <1>2, <2>2, <3>1, <3>2
  <2>4. CASE Delay \/ StillWaiting
    <3>1. Pass(1) /\ UNCHANGED <<tickcount, last, using>>
      BY <2>4 DEF Delay, StillWaiting
    <3>2. BacnetTypeOK'
      <4>1. task' \in {"init", "wait"}
        BY <2>4 DEF Delay, StillWaiting
      <4>2. /\ tick' \in 0..Wrap - 1 /\ since' \in 0..Rate /\ wrapped' \in BOOLEAN
            /\ tickcount' \in 0..Wrap - 1 /\ using' \in Sockets \cup {None}
            /\ last' \in [since : 0..Rate, wrapped : BOOLEAN]
        BY <3>1, PassStep DEF BacnetTypeOK
      <4>3. link' \in {"off", "idle", "trying", "up", "ip"}
            /\ queue' \in Seq({"start", "disconnected", "got_ip"})
        BY <2>1 DEF BacnetTypeOK
      <4> QED
        BY <1>0, <4>1, <4>2, <4>3 DEF BacnetTypeOK
    <3>3. task' # "init" => task \notin {"setup", "init"}
      BY <2>1, <2>4 DEF Delay, StillWaiting
    <3>4. Timed'
      <4>1. CASE task' = "init"
        BY <4>1 DEF Timed
      <4>2. CASE task' # "init"
        BY <3>1, <3>3, <4>2, TimedStep
      <4> QED
        BY <4>1, <4>2
    <3> QED
      BY <1>2, <2>2, <3>1, <3>2, <3>4 DEF SecondsApartUnlessWrapped
  <2>5. CASE Connected \/ Receive
    <3>1. /\ UNCHANGED <<tick, since, wrapped, tickcount, last>>
          /\ task \in {"wait", "receive"} /\ task' \in {"timers", "received"}
          /\ using' \in Sockets \cup {None}
      BY <2>5 DEF Connected, Receive, BacnetTypeOK, clock
    <3>2. BacnetTypeOK'
      BY <1>1, <2>1, <3>1 DEF BacnetTypeOK
    <3>3. Timed' /\ SecondsApartUnlessWrapped'
      BY <3>1 DEF Timed, SecondsApartUnlessWrapped
    <3> QED
      BY <1>2, <2>2, <3>2, <3>3
  <2>6. CASE RunTimers
    <3>1. CASE SecondOver
      <4>1. /\ tickcount' = tick /\ tick' = tick
            /\ last' = [since |-> since, wrapped |-> wrapped]
            /\ since' = 0 /\ wrapped' = FALSE
            /\ task = "timers" /\ task' = "receive" /\ using' = using
        BY <2>6, <3>1 DEF RunTimers
      <4>2. since >= Rate \/ wrapped
        BY <3>1, <4>1 DEF SecondOver, Timed, BacnetTypeOK
      <4>3. last'.since >= Rate \/ last'.wrapped
        BY <4>1, <4>2
      <4>4. last' \in [since : 0..Rate, wrapped : BOOLEAN]
        BY <4>1 DEF BacnetTypeOK
      <4>5. BacnetTypeOK'
        <5>1. since' \in 0..Rate
          BY <4>1
        <5> QED
          BY <1>0, <2>1, <4>1, <4>4, <5>1, Zenon DEF BacnetTypeOK
      <4>6. Timed'
        BY <4>1 DEF Timed, BacnetTypeOK
      <4> QED
        BY <1>2, <2>2, <4>3, <4>5, <4>6 DEF SecondsApartUnlessWrapped
    <3>2. CASE ~SecondOver
      <4>1. /\ UNCHANGED <<tick, since, wrapped, tickcount, last, using>>
            /\ task = "timers" /\ task' = "receive"
        BY <2>6, <3>2 DEF RunTimers
      <4> QED
        BY <1>1, <1>2, <2>1, <2>2, <4>1 DEF BacnetTypeOK, Timed,
            SecondsApartUnlessWrapped
    <3> QED
      BY <3>1, <3>2
  <2>7. CASE Received
    <3>1. /\ UNCHANGED <<tickcount, last>> /\ using' = None
          /\ task = "received" /\ task' = "delay"
      BY <2>7 DEF Received
    <3>2. CASE UNCHANGED clock
      BY <1>1, <1>2, <2>1, <2>2, <3>1, <3>2
      DEF BacnetTypeOK, Timed, SecondsApartUnlessWrapped, clock
    <3>3. CASE \E d \in 0..1 : Pass(d)
      <4>1. PICK d \in 0..1 : Pass(d)
        BY <3>3
      <4>2. BacnetTypeOK'
        BY <1>0, <2>1, <3>1, <4>1, PassStep DEF BacnetTypeOK
      <4>3. Timed'
        BY <3>1, <4>1, TimedStep
      <4> QED
        BY <1>2, <2>2, <3>1, <4>2, <4>3 DEF SecondsApartUnlessWrapped
    <3> QED
      BY <2>7, <3>2, <3>3 DEF Received
  <2> QED
    BY <1>4, <2>3, <2>4, <2>5, <2>6, <2>7 DEF BACnetTask
<1> QED
  BY <1>3, <1>4

\* It holds in every reachable state of the event task and BACnetTask.
LEMMA BacnetInvariant ==
    BacnetSpec => []BacnetInv
<1>1. BacnetInv /\ [BacnetNext]_bacnetVars => BacnetInv'
  <2>1. BacnetInv /\ UNCHANGED bacnetVars => BacnetInv'
    <3> SUFFICES ASSUME BacnetInv, UNCHANGED bacnetVars PROVE BacnetInv'
      OBVIOUS
    <3> USE DEF bacnetVars, network, events, clock, BacnetInv
    <3>1. BacnetTypeOK'
      <4>1. /\ UNCHANGED <<medium, link, ip, queue, changes>>
            /\ UNCHANGED <<handler, bit, sock, open, addr, unmade>>
            /\ UNCHANGED <<task, using, tick, since, wrapped, tickcount, last>>
        OBVIOUS
      <4> QED
        BY <4>1 DEF BacnetTypeOK
    <3>2. (NotSetUp /\ Ordered)'
      BY DEF NotSetUp, Ordered, Unhandled
    <3>3. (Opened /\ Matched)'
      BY DEF Opened, Matched
    <3>4. (Timed /\ SecondsApartUnlessWrapped)'
      BY DEF Timed, SecondsApartUnlessWrapped
    <3> QED
      BY <3>1, <3>2, <3>3, <3>4
  <2> QED
    BY <2>1, BacnetNetworkStep, EventTaskStep, BACnetTaskStep DEF BacnetNext
<1> QED
  BY BacnetInitially, <1>1, PTL DEF BacnetSpec

\* The tick count of BACnetTask stays in its width, the socket one of the stack.
THEOREM BacnetTypes ==
    BacnetSpec => []BacnetTypeOK
<1>1. BacnetInv => BacnetTypeOK
  BY DEF BacnetInv
<1> QED
  BY <1>1, BacnetInvariant, PTL

\* Addresses and losses that come twice, and starts whose socket() fails, in any order,
\* neither leak the socket of the BACnet server nor take away the one in use.
THEOREM SocketStartedOnce ==
    BacnetSpec => []StartedOnce
<1>1. BacnetInv => StartedOnce
  BY DEF BacnetInv, Ordered, Opened, Matched, StartedOnce
<1> QED
  BY <1>1, BacnetInvariant, PTL

\* The timers of BACnetTask run a second apart at least, for any tick rate and any
\* width of the count, but for the once that the count wraps.
THEOREM TimersOncePerSecond ==
    BacnetSpec => []SecondsApartUnlessWrapped
<1>1. BacnetInv => SecondsApartUnlessWrapped
  BY DEF BacnetInv
<1> QED
  BY <1>1, BacnetInvariant, PTL

----------------------------------------------------------------------------
(* AeadChannel.                                                            *)

\* The high and the low part of the count, then zeros.
LEMMA NonceParts ==
    ASSUME NEW k \in Nat
    PROVE  /\ Nonce(k) \in Seq(Int) /\ Len(Nonce(k)) = 4
           /\ Nonce(k)[1] = k \div 2 /\ Nonce(k)[2] = k % 2
           /\ SubSeq(Nonce(k), 1, CounterLen) = Be64(k)
<1> DEFINE zeros == [i \in 1..(NonceLen - CounterLen) |-> 0]
<1>1. /\ Be64(k) \in Seq(Int) /\ Len(Be64(k)) = 2
      /\ Be64(k)[1] = k \div 2 /\ Be64(k)[2] = k % 2
  BY DEF Be64
<1>2. zeros \in Seq(Int) /\ Len(zeros) = 2
  BY DEF NonceLen, CounterLen
<1>3. Nonce(k) = Be64(k) \o zeros
  BY DEF Nonce
<1> HIDE DEF zeros
<1>7. /\ Be64(k) \o zeros \in Seq(Int)
      /\ Len(Be64(k) \o zeros) = Len(Be64(k)) + Len(zeros)
      /\ \A i \in 1..Len(Be64(k)) + Len(zeros) :
            (Be64(k) \o zeros)[i] = IF i <= Len(Be64(k)) THEN Be64(k)[i]
                                    ELSE zeros[i - Len(Be64(k))]
  BY <1>1, <1>2, ConcatProperties
<1>4. Nonce(k) \in Seq(Int) /\ Len(Nonce(k)) = 4
  BY <1>1, <1>2, <1>3, <1>7
<1>5. Nonce(k)[1] = k \div 2 /\ Nonce(k)[2] = k % 2
  <2>1. \A i \in 1..2 : Nonce(k)[i] = Be64(k)[i]
    BY <1>1, <1>2, <1>3, <1>7
  <2> QED
    BY <1>1, <2>1
<1>6. SubSeq(Nonce(k), 1, CounterLen) = Be64(k)
  <2>1. \A i \in 1..2 : Nonce(k)[i] \in Int
    BY <1>5
  <2>4. /\ SubSeq(Nonce(k), 1, 2) \in Seq(Int)
        /\ Len(SubSeq(Nonce(k), 1, 2)) = IF 1 <= 2 THEN 2 - 1 + 1 ELSE 0
        /\ \A i \in 1..2 - 1 + 1 : SubSeq(Nonce(k), 1, 2)[i] = Nonce(k)[1 + i - 1]
    BY <2>1, SubSeqProperties
  <2>2. /\ SubSeq(Nonce(k), 1, 2) \in Seq(Int)
        /\ Len(SubSeq(Nonce(k), 1, 2)) = 2
        /\ \A i \in 1..2 : SubSeq(Nonce(k), 1, 2)[i] = Nonce(k)[i]
    BY <2>4
  <2>3. \A i \in 1..2 : SubSeq(Nonce(k), 1, 2)[i] = Be64(k)[i]
    BY <1>1, <1>5, <2>2
  <2> QED
    BY <1>1, <2>2, <2>3, SeqEqual DEF CounterLen
<1> QED
  BY <1>4, <1>5, <1>6

\* The count is read back from the nonce.
LEMMA NonceCount ==
    ASSUME NEW k \in Nat
    PROVE  Count(Nonce(k)) = k
<1>1. Nonce(k)[1] = k \div 2 /\ Nonce(k)[2] = k % 2
  BY NonceParts
<1>2. 2 * (k \div 2) + (k % 2) = k
  OBVIOUS
<1> QED
  BY <1>1, <1>2 DEF Count

\* The bits of the text, of the key and of the nonce that are added up in a mask.
LEMMA MaskedBits ==
    ASSUME NEW k \in Nat
    PROVE  /\ Hello = <<1, 0>>
           /\ \A i \in 1..2 : Round(Key, i) \in Int /\ Round(Nonce(k), i) \in Int
           /\ Mask(Hello, Nonce(k)) =
                 [i \in 1..2 |->
                    (Hello[i] + Round(Key, i) + Round(Nonce(k), i)) % 2]
<1> DEFINE np == Nonce(k)
<1>1. Hello = <<1, 0>> /\ DOMAIN Hello = 1..2 /\ Key = <<0, 1, 1, 0>>
  BY DEF Hello, Key
<1>2. np \in Seq(Int) /\ Len(np) = 4
  BY NonceParts
<1> HIDE DEF np
<1>3. ASSUME NEW i \in 1..2 PROVE Round(Key, i) \in Int /\ Round(np, i) \in Int
  <2>1. (i - 1) % 4 = i - 1 /\ i \in 1..4
    OBVIOUS
  <2>2. Len(Key) = 4 /\ Key[i] \in Int
    BY <1>1
  <2>3. Round(Key, i) = Key[i] /\ Round(np, i) = np[i]
    BY <1>2, <2>1, <2>2 DEF Round
  <2>4. np[i] \in Int
    BY <1>2, <2>1, ElementOfSeq
  <2> QED
    BY <2>2, <2>3, <2>4
<1>4. Mask(Hello, np) =
          [i \in 1..2 |-> (Hello[i] + Round(Key, i) + Round(np, i)) % 2]
  BY <1>1 DEF Mask
<1> QED
  BY <1>1, <1>3, <1>4 DEF np

\* Masking twice with the same nonce gives the text again.
LEMMA MaskTwice ==
    ASSUME NEW k \in Nat
    PROVE  Mask(Mask(Hello, Nonce(k)), Nonce(k)) = Hello
<1> DEFINE np == Nonce(k)
           ct == Mask(Hello, np)
<1>1. /\ Hello = <<1, 0>>
      /\ \A i \in 1..2 : Round(Key, i) \in Int /\ Round(np, i) \in Int
      /\ ct = [i \in 1..2 |-> (Hello[i] + Round(Key, i) + Round(np, i)) % 2]
  BY MaskedBits
<1> HIDE DEF np, ct
<1>2. \A i \in 1..2 : Hello[i] \in 0..1
  BY <1>1
<1>3. Mask(ct, np) = [i \in 1..2 |-> (ct[i] + Round(Key, i) + Round(np, i)) % 2]
  BY <1>1 DEF Mask
<1>4. \A i \in 1..2 : (ct[i] + Round(Key, i) + Round(np, i)) % 2 = Hello[i]
  BY <1>1, <1>2
<1>5. Mask(ct, np) = [i \in 1..2 |-> Hello[i]]
  BY <1>3, <1>4
<1> QED
  BY <1>1, <1>5 DEF ct, np

\* What was sealed is opened again, to its text.
LEMMA SealedOpens ==
    ASSUME NEW k \in Nat
    PROVE  Shown(Sealing(k).packet) = Hello
<1> DEFINE p == Sealing(k).packet
<1>1. /\ p.nonce = Nonce(k)
      /\ p.ct = Mask(Hello, Nonce(k))
      /\ p.tag = Tag(p.ct, Be64(k), Nonce(k))
  BY DEF Sealing, Encrypt, Aad
<1>2. AadOf(p) = Be64(k)
  BY <1>1, NonceParts DEF AadOf
<1>3. p.tag # <<>>
  <2>1. CASE provider = "mock"
    <3>1. p.tag = FakeTag(p.ct, Be64(k), Nonce(k))
      BY <1>1, <2>1 DEF Tag
    <3>2. 1 \in DOMAIN p.tag
      BY <3>1 DEF FakeTag, TagLen
    <3>3. DOMAIN <<>> = {}
      OBVIOUS
    <3> QED
      BY <3>2, <3>3
  <2>2. CASE provider # "mock"
    BY <1>1, <2>2 DEF Tag
  <2> QED
    BY <2>1, <2>2
<1> HIDE DEF p
<1>4. Shown(p) = Mask(p.ct, p.nonce)
  BY <1>1, <1>2, <1>3 DEF Shown, TooShort, Decrypt
<1> QED
  BY <1>1, <1>4, MaskTwice DEF p

\* Damage in any one place makes an ideal cipher refuse the datagram.
LEMMA DamagedIsRefused ==
    ASSUME provider = "sealing",
           NEW k \in Nat, NEW q \in Damaged(Sealing(k).packet)
    PROVE  Shown(q) = Refused
<1> DEFINE p == Sealing(k).packet
           np == Nonce(k)
           ct == Mask(Hello, np)
<1>1. p = [nonce |-> np, ct |-> ct, tag |-> <<ct, Be64(k), np>>]
  BY DEF Sealing, Encrypt, Aad, Tag
<1>2. \A i \in DOMAIN np : np[i] \in Int
  <2>1. np \in Seq(Int)
    BY NonceParts
  <2> QED
    BY <2>1
<1>3. DOMAIN ct = 1..2 /\ \A i \in 1..2 : ct[i] \in 0..1
  <2>1. ct = [i \in 1..2 |-> (Hello[i] + Round(Key, i) + Round(np, i)) % 2]
    BY MaskedBits
  <2>2. ASSUME NEW i \in 1..2
        PROVE  (Hello[i] + Round(Key, i) + Round(np, i)) % 2 \in 0..1
    <3>1. Round(Key, i) \in Int /\ Round(np, i) \in Int /\ Hello = <<1, 0>>
      BY MaskedBits
    <3>2. Hello[i] \in Int
      BY <3>1
    <3> QED
      BY <3>1, <3>2
  <2> QED
    BY <2>1, <2>2
<1> HIDE DEF p, np, ct
<1>4. ASSUME NEW i \in DOMAIN np, q = [p EXCEPT !.nonce = Flip(@, i)]
      PROVE  Shown(q) = Refused
  <2>1. q.ct = ct /\ q.tag = <<ct, Be64(k), np>> /\ q.nonce = Flip(np, i)
    BY <1>1, <1>4
  <2>2. Flip(np, i)[i] = 1 - np[i]
    BY <1>2 DEF Flip
  <2>3. q.nonce # np
    BY <1>2, <2>1, <2>2
  <2>4. q.tag # Tag(q.ct, AadOf(q), q.nonce)
    BY <2>1, <2>3 DEF Tag
  <2> QED
    BY <2>4 DEF Shown, Decrypt
<1>5. ASSUME NEW i \in DOMAIN ct, q = [p EXCEPT !.ct = Flip(@, i)]
      PROVE  Shown(q) = Refused
  <2>1. q.nonce = np /\ q.tag = <<ct, Be64(k), np>> /\ q.ct = Flip(ct, i)
    BY <1>1, <1>5
  <2>2. Flip(ct, i)[i] = 1 - ct[i]
    BY <1>3 DEF Flip
  <2>3. q.ct # ct
    BY <1>3, <2>1, <2>2
  <2>4. q.tag # Tag(q.ct, AadOf(q), q.nonce)
    BY <2>1, <2>3 DEF Tag
  <2> QED
    BY <2>4 DEF Shown, Decrypt
<1>6. CASE q = [p EXCEPT !.tag = <<0>>]
  <2>1. q.tag = <<0>>
    BY <1>1, <1>6
  <2>2. Tag(q.ct, AadOf(q), q.nonce) = <<q.ct, AadOf(q), q.nonce>>
    BY DEF Tag
  <2>3. q.tag # Tag(q.ct, AadOf(q), q.nonce)
    <3>1. Len(<<q.ct, AadOf(q), q.nonce>>) = 3 /\ Len(<<0>>) = 1
      OBVIOUS
    <3> QED
      BY <2>1, <2>2, <3>1
  <2> QED
    BY <2>3 DEF Shown, Decrypt
<1>7. CASE q = [p EXCEPT !.ct = <<>>, !.tag = <<>>]
  <2>1. q.tag = <<>>
    BY <1>1, <1>7
  <2> QED
    BY <2>1 DEF Shown, TooShort
<1>8. p.nonce = np /\ p.ct = ct
  BY <1>1
<1> QED
  BY <1>4, <1>5, <1>6, <1>7, <1>8 DEF Damaged, p

\* The invariant holds at first: nothing has been sealed.
LEMMA AeadInitially ==
    AeadInit => AeadInv
<1> SUFFICES ASSUME AeadInit PROVE AeadInv
  OBVIOUS
<1>1. AeadTypeOK /\ Sealed /\ Answered
  BY AeadAssumption DEF AeadInit, AeadTypeOK, Sealed, Answered, Originals
<1>2. used = <<>> /\ sender = "off"
  BY DEF AeadInit
<1>3. Counted /\ NoncesGrow
  BY <1>2 DEF Counted, NoncesGrow
<1> QED
  BY <1>1, <1>3 DEF AeadInv

\* What the counter does to the nonces: each seals with a higher one than those
\* before it, until the sender starts again.
LEMMA SenderCounts ==
    AeadInv /\ Sender => Counted' /\ NoncesGrow'
<1> SUFFICES ASSUME AeadInv, Sender PROVE Counted' /\ NoncesGrow'
  OBVIOUS
<1> DEFINE Use == [boot : 1..MaxBoots, nonce : {Nonce(k) : k \in 1..MaxCounter}]
<1>1. /\ MaxCounter \in Nat /\ MaxBoots \in Nat /\ counter \in Nat /\ boots \in Nat
      /\ sender \in {"off", "seal", "send", "ended"}
      /\ boots <= MaxBoots
      /\ used \in Seq(Use) /\ Len(used) \in Nat
      /\ sender \in {"seal", "send"} => counter >= 1
      /\ sender # "off" => boots >= 1
  BY AeadAssumption DEF AeadInv, AeadTypeOK, Sealed, Counted
<1>2. ASSUME NEW i \in 1..Len(used)
      PROVE  /\ used[i] \in Use /\ used[i].boot \in Nat /\ used[i].boot <= boots
             /\ Count(used[i].nonce) \in Nat
             /\ used[i].boot = boots /\ sender = "seal" => Count(used[i].nonce) < counter
             /\ used[i].boot = boots /\ sender = "send" => Count(used[i].nonce) <= counter
  <2>1. used[i] \in Use
    <3> HIDE DEF Use
    <3> QED
      BY <1>1, <1>2, ElementOfSeq
  <2>2. PICK k \in 1..MaxCounter : used[i].nonce = Nonce(k)
    BY <2>1
  <2>3. k \in Nat /\ Count(used[i].nonce) = k
    BY <1>1, <2>2, NonceCount
  <2>4. /\ used[i].boot <= boots
        /\ used[i].boot = boots /\ sender \in {"seal", "send"} => Passed(Count(used[i].nonce))
    BY <1>2 DEF AeadInv, Counted
  <2> QED
    BY <2>1, <2>3, <2>4 DEF Passed
<1>3. CASE Boot
  <2>1. used' = used /\ boots' = boots + 1
    BY <1>3 DEF Boot
  <2>2. NoncesGrow'
    BY <2>1 DEF AeadInv, NoncesGrow
  <2>3. ASSUME NEW i \in 1..Len(used)
        PROVE  used[i].boot <= boots + 1 /\ used[i].boot # boots + 1
    <3> DEFINE b == used[i].boot
    <3>1. b \in Nat /\ b <= boots
      BY <1>2
    <3> HIDE DEF b
    <3>2. b <= boots + 1 /\ b # boots + 1
      BY <1>1, <3>1
    <3> QED
      BY <3>2 DEF b
  <2>4. used' \in Seq(Use) /\ boots' >= 1
    BY <1>1, <2>1
  <2> HIDE DEF Use
  <2>5. \A i \in 1..Len(used') : used'[i].boot <= boots' /\ used'[i].boot # boots'
    BY <2>1, <2>3
  <2> QED
    BY <2>1, <2>2, <2>4, <2>5 DEF Counted, Use
<1>4. CASE Seal
  <2> DEFINE u == [boot |-> boots, nonce |-> Nonce(counter)]
  <2>1. /\ sender = "seal" /\ sender' = "send" /\ counter <= MaxCounter
        /\ used' = Append(used, u) /\ UNCHANGED <<boots, counter>>
    BY <1>4 DEF Seal
  <2>2. u \in Use /\ u.boot = boots /\ Count(u.nonce) = counter
    BY <1>1, <2>1, NonceCount
  <2> HIDE DEF u, Use
  <2>3. /\ used' \in Seq(Use) /\ Len(used') = Len(used) + 1
        /\ used'[Len(used')] = u /\ \A i \in 1..Len(used) : used'[i] = used[i]
    BY <1>1, <2>1, <2>2, Posted
  <2>4. ASSUME NEW i \in 1..Len(used')
        PROVE  /\ used'[i].boot <= boots
               /\ used'[i].boot = boots => Count(used'[i].nonce) <= counter
    <3>1. CASE i = Len(used')
      BY <1>1, <2>2, <2>3, <3>1
    <3>2. CASE i # Len(used')
      <4>1. i \in 1..Len(used) /\ used'[i] = used[i]
        BY <1>1, <2>3, <3>2
      <4> QED
        BY <1>1, <1>2, <2>1, <4>1
    <3> QED
      BY <3>1, <3>2
  <2>5. Counted'
    <3>1. \A i \in 1..Len(used') :
              /\ used'[i].boot <= boots'
              /\ used'[i].boot = boots' => Count(used'[i].nonce) <= counter'
      BY <2>1, <2>4
    <3> QED
      BY <1>1, <2>1, <2>3, <3>1 DEF Counted, Passed, Use
  <2>6. ASSUME NEW i \in 1..Len(used'), NEW j \in 1..Len(used'), i < j,
               used'[i].boot = used'[j].boot
        PROVE  Count(used'[i].nonce) < Count(used'[j].nonce)
    <3>1. i \in 1..Len(used) /\ used'[i] = used[i]
      BY <1>1, <2>3, <2>6
    <3>2. CASE j = Len(used')
      <4>1. used'[j].boot = boots /\ Count(used'[j].nonce) = counter
        BY <2>2, <2>3, <3>2
      <4> QED
        BY <1>2, <2>1, <2>6, <3>1, <4>1
    <3>3. CASE j # Len(used')
      <4>1. j \in 1..Len(used) /\ used'[j] = used[j]
        BY <1>1, <2>3, <3>3
      <4> QED
        BY <2>6, <3>1, <4>1 DEF AeadInv, NoncesGrow
    <3> QED
      BY <3>2, <3>3
  <2>7. NoncesGrow'
    BY <2>6 DEF NoncesGrow
  <2> QED
    BY <2>5, <2>7
<1>5. CASE SendTo
  <2>1. /\ sender = "send" /\ sender' = "seal" /\ counter' = counter + 1
        /\ UNCHANGED <<used, boots>>
    BY <1>5 DEF SendTo
  <2>2. NoncesGrow'
    BY <2>1 DEF AeadInv, NoncesGrow
  <2>3. ASSUME NEW i \in 1..Len(used)
        PROVE  used[i].boot <= boots /\ (used[i].boot = boots => Count(used[i].nonce) < counter + 1)
    <3> DEFINE b == used[i].boot
               c == Count(used[i].nonce)
    <3>1. b <= boots /\ c \in Nat /\ (b = boots => c <= counter)
      BY <1>2, <2>1
    <3> HIDE DEF b, c
    <3>2. b <= boots /\ (b = boots => c < counter + 1)
      BY <1>1, <3>1
    <3> QED
      BY <3>2 DEF b, c
  <2> HIDE DEF Use
  <2>4. \A i \in 1..Len(used') :
            used'[i].boot <= boots' /\ (used'[i].boot = boots' => Count(used'[i].nonce) < counter')
    BY <2>1, <2>3
  <2>5. used' \in Seq(Use) /\ boots' >= 1
    BY <1>1, <2>1
  <2> QED
    BY <2>1, <2>2, <2>4, <2>5 DEF Counted, Passed, Use
<1>6. CASE Fails \/ Reset
  <2>1. sender' \in {"ended", "off"} /\ UNCHANGED <<used, boots>> /\ sender # "off"
    BY <1>6 DEF Fails, Reset
  <2>2. NoncesGrow'
    BY <2>1 DEF AeadInv, NoncesGrow
  <2>3. used' \in Seq(Use) /\ boots' >= 1
    BY <1>1, <2>1
  <2>4. \A i \in 1..Len(used) : used[i].boot <= boots
    BY <1>2
  <2> HIDE DEF Use
  <2>5. \A i \in 1..Len(used') : used'[i].boot <= boots'
    BY <2>1, <2>4
  <2> QED
    BY <2>1, <2>2, <2>3, <2>5 DEF Counted, Use
<1> QED
  BY <1>3, <1>4, <1>5, <1>6 DEF Sender

\* The sender, from any of its resets on, seals what it sealed before.
LEMMA SenderStep ==
    AeadInv /\ Sender => AeadInv'
<1> SUFFICES ASSUME AeadInv, Sender PROVE AeadTypeOK' /\ Sealed' /\ Answered'
  BY SenderCounts DEF AeadInv
<1> USE AeadAssumption DEF AeadInv
<1>1. UNCHANGED <<provider, receiver, opened>>
  BY DEF Sender, Boot, Seal, SendTo, Fails, Reset, receiving
<1>2. /\ \A k : Sealing(k)' = Sealing(k)
      /\ \A p : Shown(p)' = Shown(p)
  BY <1>1 DEF Sealing, Encrypt, Tag, Shown, Decrypt
<1>3. CASE Boot
  <2>1. UNCHANGED <<packet, net, sealed>>
    BY <1>3 DEF Boot
  <2>2. counter' = 1 /\ sender' \in {"seal", "ended"} /\ boots' \in 0..MaxBoots
    BY <1>3 DEF Boot, AeadTypeOK
  <2> QED
    BY <1>1, <1>2, <2>1, <2>2 DEF AeadTypeOK, Sealed, Answered, Originals
<1>4. CASE Seal
  <2> DEFINE s == [packet |-> packet', text |-> Hello]
  <2>1. /\ sealed' = sealed \cup {s} /\ sender' = "send"
        /\ UNCHANGED <<net, counter, boots>>
        /\ counter \in 1..MaxCounter /\ s = Sealing(counter)
    BY <1>4 DEF Seal, Sealing, AeadTypeOK, Sealed
  <2>2. Originals' = Originals \cup {packet'}
    BY <2>1 DEF Originals
  <2> HIDE DEF s
  <2>3. AeadTypeOK'
    BY <1>1, <2>1 DEF AeadTypeOK
  <2>4. Sealed'
    BY <1>2, <2>1, <2>2 DEF Sealed
  <2>5. Answered'
    BY <1>1, <1>2, <2>2 DEF Answered
  <2> QED
    BY <2>3, <2>4, <2>5
<1>5. CASE SendTo
  <2>1. UNCHANGED sealed /\ net' = net \cup {packet} /\ sender' = "seal" /\ UNCHANGED boots
    BY <1>5 DEF SendTo
  <2>2. packet \in Originals /\ Originals' = Originals
    BY <1>5, <2>1 DEF SendTo, Sealed, Originals
  <2>3. counter' = counter + 1 /\ counter \in 1..MaxCounter
    BY <1>5 DEF SendTo, Sealed, AeadTypeOK
  <2> QED
    BY <1>1, <1>2, <2>1, <2>2, <2>3 DEF AeadTypeOK, Sealed, Answered
<1>6. CASE Fails \/ Reset
  <2>1. UNCHANGED <<net, sealed, counter, boots>> /\ sender' \in {"ended", "off"}
    BY <1>6 DEF Fails, Reset
  <2> QED
    BY <1>1, <1>2, <2>1 DEF AeadTypeOK, Sealed, Answered, Originals
<1> QED
  BY <1>3, <1>4, <1>5, <1>6 DEF Sender

\* What a datagram on its way is: one that was sealed, so that the receiver opens
\* it, or refuses it once it is damaged.
LEMMA ChannelStep ==
    AeadInv /\ (Channel \/ Receiver) => AeadInv'
<1> SUFFICES ASSUME AeadInv, Channel \/ Receiver PROVE AeadInv'
  OBVIOUS
<1> USE AeadAssumption DEF AeadInv
<1>1. /\ UNCHANGED <<provider, sender, counter, packet, boots, sealed, used>>
      /\ net' \subseteq net /\ receiver' \in {receiver, "ended"}
  BY DEF Channel, Receiver, Lose, Recvfrom, RecvfromFails, sending, receiving
<1>2. /\ \A k : Sealing(k)' = Sealing(k)
      /\ \A q : Shown(q)' = Shown(q)
      /\ Originals' = Originals
  BY <1>1 DEF Sealing, Encrypt, Tag, Shown, Decrypt, Originals
<1>3. AeadTypeOK' /\ Sealed' /\ Counted' /\ NoncesGrow'
  BY <1>1, <1>2 DEF AeadTypeOK, Sealed, Counted, Passed, NoncesGrow
<1>4. CASE Channel \/ RecvfromFails
  <2>1. UNCHANGED opened
    BY <1>4 DEF Channel, Lose, RecvfromFails, receiving
  <2> QED
    BY <1>1, <1>2, <1>3, <2>1 DEF Answered
<1>5. ASSUME NEW p \in net, Recvfrom(p) PROVE AeadInv'
  <2>1. PICK q \in {p} \cup Damaged(p) : opened' = {[packet |-> q, text |-> Shown(q)]}
    BY <1>5 DEF Recvfrom
  <2>2. PICK k \in Nat : p = Sealing(k).packet
    BY DEF Sealed, Originals
  <2>3. q \in Originals \/ (provider = "sealing" => Shown(q) = Refused)
    BY <2>1, <2>2, DamagedIsRefused DEF Sealed
  <2> QED
    BY <1>1, <1>2, <1>3, <2>1, <2>3 DEF Answered
<1> QED
  BY <1>4, <1>5 DEF Receiver

\* It holds in every reachable state of sender, network and receiver.
LEMMA AeadInvariant ==
    AeadSpec => []AeadInv
<1>1. AeadInv /\ [AeadNext]_aeadVars => AeadInv'
  <2>1. AeadInv /\ UNCHANGED aeadVars => AeadInv'
    BY DEF aeadVars, sending, receiving, AeadInv, AeadTypeOK, Sealed, Answered, Originals,
           Sealing, Encrypt, Tag, Shown, Decrypt, Counted, Passed, NoncesGrow
  <2> QED
    BY <2>1, SenderStep, ChannelStep DEF AeadNext
<1> QED
  BY AeadInitially, <1>1, PTL DEF AeadSpec

\* While the sender runs, the nonces it seals with count upwards, whatever becomes of
\* the datagrams and however often it ran before; over a reset they do not.
THEOREM NoncesCountUp ==
    AeadSpec => []NoncesGrow
<1>1. AeadInv => NoncesGrow
  BY DEF AeadInv
<1> QED
  BY <1>1, AeadInvariant, PTL

\* recvfrom() shows what was sealed, as it was, and nothing that was damaged on the
\* way unless the mock provider opens it.
THEOREM OpenedWasSealed ==
    AeadSpec => []OpensWhatWasSealed
<1>1. AeadInv => OpensWhatWasSealed
  <2> SUFFICES ASSUME AeadInv, NEW o \in opened
               PROVE  IF \E s \in sealed : s.packet = o.packet
                      THEN o \in sealed
                      ELSE provider = "sealing" => o.text = Refused
    BY DEF OpensWhatWasSealed
  <2>1. CASE \E s \in sealed : s.packet = o.packet
    <3>1. PICK s \in sealed : s.packet = o.packet
      BY <2>1
    <3>2. PICK k \in 1..MaxCounter : s = Sealing(k)
      BY DEF AeadInv, Sealed
    <3>3. Shown(o.packet) = Hello
      BY <3>1, <3>2, SealedOpens, AeadAssumption
    <3>4. o = [packet |-> o.packet, text |-> Hello]
      BY <3>3 DEF AeadInv, Answered
    <3>5. s = [packet |-> s.packet, text |-> Hello]
      BY <3>2 DEF Sealing
    <3> QED
      BY <3>1, <3>4, <3>5
  <2>2. CASE ~ \E s \in sealed : s.packet = o.packet
    BY <2>2 DEF AeadInv, Answered, Originals
  <2> QED
    BY <2>1, <2>2
<1> QED
  BY <1>1, AeadInvariant, PTL

----------------------------------------------------------------------------
(* SshServer.                                                              *)

USE SshAssumption

\* Every counter may be reset.
LEMMA Zero ==
    0 \in 0..MaxTries /\ 0 \in 0..MaxPolls /\ 0 \in 0..Visits
OBVIOUS

\* The invariant holds at first.
LEMMA SshInitially ==
    SshInit => SshInv
<1> SUFFICES ASSUME SshInit PROVE SshInv
  OBVIOUS
<1> USE DEF SshInit
<1>1. SshTypeOK
  BY Zero DEF SshTypeOK, Stage
<1>2. InSession /\ StartsClean /\ Staged /\ Polled /\ GlobalsAreTheSessions
  BY DEF InSession, StartsClean, Staged, Polled, GlobalsAreTheSessions
<1> QED
  BY <1>1, <1>2 DEF SshInv

----------------------------------------------------------------------------
\* A client may go to any stage.
LEMMA EnterTypes ==
    ASSUME stage \in [Client -> Stage],
           NEW c \in Client, NEW s \in Stage, Enter(c, s)
    PROVE  stage' \in [Client -> Stage]
BY DEF Enter

\* Each action keeps the types.
LEMMA SshTypeStep ==
    SshInv /\ [SshNext]_sshVars => SshTypeOK'
<1> SUFFICES ASSUME SshInv, [SshNext]_sshVars PROVE SshTypeOK'
  OBVIOUS
<1> USE DEF SshInv, SshTypeOK, Polling, OpenStage, Stage, Goto, Enter, globals, history
<1>1. CASE Listen
  BY <1>1 DEF Listen
<1>2. ASSUME NEW c \in Client, Accept(c) PROVE SshTypeOK'
  BY <1>2, Zero DEF Accept
<1>3. ASSUME NEW c \in Client, AcceptFails(c) PROVE SshTypeOK'
  BY <1>3 DEF AcceptFails
<1>4. CASE KeyExchange
  <2>1. stage' \in [Client -> Stage]
    BY <1>4, EnterTypes DEF KeyExchange, InSession
  <2> QED
    BY <1>4, <2>1, Zenon DEF KeyExchange
<1>5. CASE SetupFails
  BY <1>5 DEF SetupFails, InSession
<1>6. CASE AddSession
  BY <1>6, Zero DEF AddSession
<1>7. CASE WaitLoop \/ PollFails \/ ServeLoop
  BY <1>7 DEF WaitLoop, PollFails, ServeLoop, AfterWait
<1>8. CASE PollEnds
  <2>1. pc = "poll_wait" => polls + 1 \in 0..MaxPolls
    BY DEF Polled
  <2> QED
    BY <1>8, <2>1 DEF PollEnds
<1>9. CASE CleanUp
  <2>1. stage' \in [Client -> Stage]
    BY <1>9, EnterTypes DEF CleanUp, InSession
  <2> QED
    BY <1>9, <2>1, Zero DEF CleanUp, ResetGlobals
<1>10. CASE AuthNone \/ PtyRequest \/ ShellRequest
  <2>1. stage' \in [Client -> Stage]
    BY <1>10, EnterTypes DEF AuthNone, PtyRequest, ShellRequest, Packet
  <2> QED
    BY <1>10, <2>1, Zenon DEF AuthNone, PtyRequest, ShellRequest
<1>11. CASE HangUp
  BY <1>11 DEF HangUp, Packet
<1>12. CASE AuthSucceeds \/ ChannelOpen
  BY <1>12 DEF AuthSucceeds, ChannelOpen, Packet
<1>13. CASE AuthFails
  <2>1. session \in Client /\ tries < MaxTries /\ failed[session] = tries
    BY <1>13 DEF AuthFails, Packet, Staged, GlobalsAreTheSessions
  <2>2. tries + 1 \in 0..MaxTries
    BY <2>1
  <2>3. failed' = [failed EXCEPT ![session] = tries + 1] /\ tries' = tries + 1
    BY <1>13, <2>1 DEF AuthFails
  <2> QED
    BY <1>13, <2>1, <2>2, <2>3 DEF AuthFails, AfterFailure, Packet
<1>14. CASE DataFunction
  BY <1>14 DEF DataFunction, Packet
<1>15. ASSUME NEW c \in Client, Connect(c) PROVE SshTypeOK'
  <2>1. visits[c] + 1 \in 0..Visits
    BY <1>15 DEF Connect
  <2> QED
    BY <1>15, <2>1 DEF Connect
<1>16. CASE UNCHANGED sshVars
  BY <1>16 DEF sshVars
<1> QED
  BY <1>1, <1>2, <1>3, <1>4, <1>5, <1>6, <1>7, <1>8,
     <1>9, <1>10, <1>11, <1>12, <1>13, <1>14, <1>15, <1>16
  DEF SshNext, AppMain, Callback

----------------------------------------------------------------------------
\* Each action keeps what the session and the globals say of each other.
LEMMA SshSessionStep ==
    SshInv /\ [SshNext]_sshVars =>
        (InSession /\ StartsClean /\ Staged /\ Polled /\ GlobalsAreTheSessions)'
<1> DEFINE Related == /\ InSession /\ StartsClean /\ Staged /\ Polled
                      /\ GlobalsAreTheSessions
<1> SUFFICES ASSUME SshInv, [SshNext]_sshVars PROVE Related'
  OBVIOUS
<1> USE DEF SshInv, SshTypeOK, InSession, StartsClean, Staged, Polled,
            GlobalsAreTheSessions, Polling, OpenStage, Goto, Enter, globals, history
<1>1. CASE Listen
  BY <1>1 DEF Listen
<1>2. ASSUME NEW c \in Client, Accept(c) PROVE Related'
  BY <1>2 DEF Accept
<1>3. ASSUME NEW c \in Client, AcceptFails(c) PROVE Related'
  BY <1>3 DEF AcceptFails
<1>4. CASE KeyExchange
  BY <1>4 DEF KeyExchange
<1>5. CASE AddSession \/ SetupFails
  BY <1>5 DEF AddSession, SetupFails
<1>6. CASE WaitLoop
  BY <1>6 DEF WaitLoop, AfterWait, GivenUp
<1>7. CASE PollEnds \/ PollFails \/ ServeLoop
  BY <1>7 DEF PollEnds, PollFails, ServeLoop, AfterWait, IsOpen
<1>8. CASE CleanUp
  BY <1>8 DEF CleanUp, ResetGlobals
<1>9. CASE AuthNone \/ PtyRequest \/ ShellRequest \/ DataFunction \/ HangUp
  BY <1>9 DEF AuthNone, PtyRequest, ShellRequest, DataFunction, HangUp, Packet
<1>10. CASE AuthSucceeds
  BY <1>10 DEF AuthSucceeds, Packet
<1>11. CASE AuthFails
  BY <1>11 DEF AuthFails, AfterFailure, Packet
<1>12. CASE ChannelOpen
  BY <1>12 DEF ChannelOpen, Packet
<1>13. ASSUME NEW c \in Client, Connect(c) PROVE Related'
  BY <1>13 DEF Connect
<1>14. CASE UNCHANGED sshVars
  BY <1>14 DEF sshVars
<1> QED
  BY <1>1, <1>2, <1>3, <1>4, <1>5, <1>6, <1>7, <1>8, <1>9, <1>10, <1>11, <1>12, <1>13,
     <1>14
  DEF SshNext, AppMain, Callback

----------------------------------------------------------------------------
\* In every reachable state of app_main and its callbacks the invariant holds.
THEOREM SshInvariant ==
    SshSpec => []SshInv
<1>1. SshInv /\ [SshNext]_sshVars => SshInv'
  BY SshTypeStep, SshSessionStep DEF SshInv
<1> QED
  BY SshInitially, <1>1, PTL DEF SshSpec

\* The tries and polls of app_main stay within their limits.
THEOREM SshTypes ==
    SshSpec => []SshTypeOK
<1>1. SshInv => SshTypeOK
  BY DEF SshInv
<1> QED
  BY <1>1, SshInvariant, PTL

\* The globals of server.c speak of the session at hand, however many sessions
\* came before it and however they ended.
THEOREM SessionGlobals ==
    SshSpec => []GlobalsAreTheSessions
<1>1. SshInv => GlobalsAreTheSessions
  BY DEF SshInv
<1> QED
  BY SshInvariant, <1>1, PTL

\* app_main polls a channel only for a client that gave the password in time.
THEOREM ServedAuthenticated ==
    SshSpec => []ServedIsAuthenticated
<1>1. SshInv => ServedIsAuthenticated
  BY DEF SshInv, Staged, Polled, InSession, GlobalsAreTheSessions, ServedIsAuthenticated
<1> QED
  BY SshInvariant, <1>1, PTL

----------------------------------------------------------------------------
(* SocketTests.                                                            *)

\* The calls of the tests.
Doings == {"socket", "close", "spawn", "wait", "bind", "netif_up", "connect",
           "connect_invalid", "nonblock", "send", "recv", "recv_timeout", "poll",
           "select", "select_read", "select_write", "select_recv", "select_waiter",
           "getsockopt", "setsockopt"}
CallSet == [do : Doings, on : Names \cup Threads, want : SUBSET Any, last : SUBSET Any]

\* A list of n calls; one list after another.
List(s, n) == s \in Seq(CallSet) /\ Len(s) = n
Chain(s, t) == s \o t

\* Two lists of calls make one.
LEMMA ChainList ==
    ASSUME NEW m \in Nat, NEW n \in Nat, NEW s, NEW t, List(s, m), List(t, n)
    PROVE  List(Chain(s, t), m + n)
BY ConcatProperties DEF List, Chain

\* Its first calls are those of the first list.
LEMMA ChainLeft ==
    ASSUME NEW m \in Nat, NEW n \in Nat, NEW s, NEW t, List(s, m), List(t, n),
           NEW i \in 1..m
    PROVE  Chain(s, t)[i] = s[i]
BY ConcatProperties DEF List, Chain

\* The others are those of the second.
LEMMA ChainRight ==
    ASSUME NEW m \in Nat, NEW n \in Nat, NEW s, NEW t, List(s, m), List(t, n),
           NEW i \in 1..n, NEW k, k = m + i
    PROVE  Chain(s, t)[k] = t[i]
BY ConcatProperties DEF List, Chain

\* s, s1 and s2 are variables of their own, apart from sock_array.
LEMMA Variables ==
    /\ S \in Names /\ S1 \in Names /\ S2 \in Names /\ S1 # S2
    /\ \A i \in 1..Binds : i \in Names /\ i # S
BY TestAssumption DEF S, S1, S2, Names

\* The first call of each test.
Opening(c) == c.do = "socket" /\ c.want = {"ok"} /\ c.last = Any

\* Call c is right at position j of main with respect to Holding: a socket is opened
\* where Holding begins, and kept open where it goes on.
Keeps(c, j) ==
    /\ c.do = "socket" => /\ c.on = S /\ c.last = Any /\ c.want = {"ok"}
                        /\ j \notin Holding /\ j + 1 \in Holding
    /\ c.do = "close" => c.on = S /\ c.last = Any
    /\ c.do \notin {"socket", "close"} => (j \in Holding => j + 1 \in Holding)
    /\ c.do \notin {"bind", "netif_up"}
    /\ test \notin Asserts /\ j \in Holding => c.do \in {"spawn", "close"}
    /\ c.do = "spawn" => c.on = "thread"

\* So is each of the n calls of a list that begins behind position k.
Kept(s, n, k) == List(s, n) /\ \A i \in 1..n : Keeps(s[i], k + i)

\* Lists of calls that open and close in turn, one after the other.
LEMMA KeptChain ==
    ASSUME NEW m \in Nat, NEW n \in Nat, NEW k \in Nat, NEW s, NEW t,
           Kept(s, m, k), Kept(t, n, k + m)
    PROVE  Kept(Chain(s, t), m + n, k)
<1>1. List(s, m) /\ List(t, n)
  BY DEF Kept
<1>2. List(Chain(s, t), m + n)
  BY <1>1, ChainList
<1>3. ASSUME NEW i \in 1..m + n PROVE Keeps(Chain(s, t)[i], k + i)
  <2>1. CASE i \in 1..m
    <3>1. Chain(s, t)[i] = s[i]
      BY <1>1, <2>1, ChainLeft
    <3> QED BY <2>1, <3>1 DEF Kept
  <2>2. CASE i \notin 1..m
    <3>1. PICK h \in 1..n : i = m + h
      <4>1. i - m \in 1..n /\ i = m + (i - m)
        BY <2>2
      <4> QED BY <4>1
    <3>2. Chain(s, t)[i] = t[h]
      BY <1>1, <3>1, ChainRight
    <3>3. Keeps(t[h], (k + m) + h)
      BY DEF Kept
    <3>4. (k + m) + h = k + i
      BY <3>1
    <3> QED BY <3>2, <3>3, <3>4
  <2> QED BY <2>1, <2>2
<1> QED
  BY <1>2, <1>3 DEF Kept

\* The four parts of sockex_nonblocking_connect().
LEMMA BlockingConnectKept ==
    ASSUME test = "nonblocking" PROVE Kept(BlockingConnect, 4, 2)
<1> DEFINE s == BlockingConnect
<1>1. s[1] \in CallSet /\ s[2] \in CallSet /\ s[3] \in CallSet /\ s[4] \in CallSet
  BY Variables DEF BlockingConnect, CallSet, Call, When, Any, Doings
<1>2. List(s, 4)
  BY <1>1 DEF List, BlockingConnect
<1>3. ASSUME NEW i \in 1..4 PROVE Keeps(s[i], 2 + i)
  BY DEF BlockingConnect, Keeps, Holding, Call, When, Asserts
<1> QED
  BY <1>2, <1>3 DEF Kept

\* The second part, which closes twice.
LEMMA CloseBeforeConnectedKept ==
    ASSUME test = "nonblocking" PROVE Kept(CloseBeforeConnected, 5, 6)
<1> DEFINE s == CloseBeforeConnected
<1>1. /\ s[1] \in CallSet /\ s[2] \in CallSet /\ s[3] \in CallSet /\ s[4] \in CallSet
      /\ s[5] \in CallSet
  BY Variables DEF CloseBeforeConnected, CallSet, Call, When, Any, Doings
<1>2. List(s, 5)
  BY <1>1 DEF List, CloseBeforeConnected
<1>3. ASSUME NEW i \in 1..5 PROVE Keeps(s[i], 6 + i)
  BY DEF CloseBeforeConnected, Keeps, Holding, Call, When, Asserts
<1> QED
  BY <1>2, <1>3 DEF Kept

\* The third part.
LEMMA SelectUntilConnectedKept ==
    ASSUME test = "nonblocking" PROVE Kept(SelectUntilConnected, 10, 11)
<1> DEFINE s == SelectUntilConnected
<1>1. /\ s[1] \in CallSet /\ s[2] \in CallSet /\ s[3] \in CallSet /\ s[4] \in CallSet
      /\ s[5] \in CallSet /\ s[6] \in CallSet /\ s[7] \in CallSet /\ s[8] \in CallSet
      /\ s[9] \in CallSet /\ s[10] \in CallSet
  BY Variables DEF SelectUntilConnected, CallSet, Call, When, Any, Doings
<1>2. List(s, 10)
  BY <1>1 DEF List, SelectUntilConnected
<1>3. ASSUME NEW i \in 1..10 PROVE Keeps(s[i], 11 + i)
  BY DEF SelectUntilConnected, Keeps, Holding, Call, When, Asserts
<1> QED
  BY <1>2, <1>3 DEF Kept

\* The fourth part.
LEMMA InvalidAddressKept ==
    ASSUME test = "nonblocking" PROVE Kept(InvalidAddress, 7, 21)
<1> DEFINE s == InvalidAddress
<1>1. /\ s[1] \in CallSet /\ s[2] \in CallSet /\ s[3] \in CallSet /\ s[4] \in CallSet
      /\ s[5] \in CallSet /\ s[6] \in CallSet /\ s[7] \in CallSet
  BY Variables DEF InvalidAddress, CallSet, Call, When, Any, Doings
<1>2. List(s, 7)
  BY <1>1 DEF List, InvalidAddress
<1>3. ASSUME NEW i \in 1..7 PROVE Keeps(s[i], 21 + i)
  BY DEF InvalidAddress, Keeps, Holding, Call, When, Asserts
<1> QED
  BY <1>2, <1>3 DEF Kept


\* sockex_nonblocking_connect(), its parts in order.
LEMMA NonblockingKept ==
    ASSUME test = "nonblocking"
    PROVE  Kept(TestOf(test), 26, 2) /\ Opening(TestOf(test)[1])
<1> DEFINE a == BlockingConnect
           b == CloseBeforeConnected
           c == SelectUntilConnected
           d == InvalidAddress
<1>1. Kept(a, 4, 2) /\ Kept(b, 5, 2 + 4) /\ Kept(c, 10, 2 + 9) /\ Kept(d, 7, 2 + 19)
  BY BlockingConnectKept, CloseBeforeConnectedKept, SelectUntilConnectedKept,
     InvalidAddressKept
<1>2. TestOf(test) = Chain(Chain(Chain(a, b), c), d)
  BY DEF TestOf, Chain
<1> HIDE DEF a, b, c, d
<1>3. Kept(Chain(a, b), 9, 2)
  <2>1. Kept(Chain(a, b), 4 + 5, 2)
    BY <1>1, KeptChain
  <2> QED BY <2>1
<1>4. Kept(Chain(Chain(a, b), c), 19, 2)
  <2>1. Kept(Chain(Chain(a, b), c), 9 + 10, 2)
    BY <1>1, <1>3, KeptChain
  <2> QED BY <2>1
<1>5. Kept(Chain(Chain(Chain(a, b), c), d), 26, 2)
  <2>1. Kept(Chain(Chain(Chain(a, b), c), d), 19 + 7, 2)
    BY <1>1, <1>4, KeptChain
  <2> QED BY <2>1
<1>6. Opening(Chain(Chain(Chain(a, b), c), d)[1])
  <2>1. Opening(a[1])
    BY DEF a, BlockingConnect, Opening, Call, When
  <2>2. List(a, 4) /\ List(b, 5) /\ List(c, 10) /\ List(d, 7)
    BY <1>1 DEF Kept
  <2>3. List(Chain(a, b), 9) /\ List(Chain(Chain(a, b), c), 19)
    BY <1>3, <1>4 DEF Kept
  <2>4. Chain(a, b)[1] = a[1]
    BY <2>2, ChainLeft
  <2>5. Chain(Chain(a, b), c)[1] = Chain(a, b)[1]
    BY <2>2, <2>3, ChainLeft
  <2>6. Chain(Chain(Chain(a, b), c), d)[1] = Chain(Chain(a, b), c)[1]
    BY <2>2, <2>3, ChainLeft
  <2> QED
    BY <2>1, <2>4, <2>5, <2>6
<1> QED
  BY <1>2, <1>5, <1>6

\* sockex_testrecv().
LEMMA TestRecvKept ==
    ASSUME test = "testrecv" PROVE Kept(TestRecv, 10, 2)
<1> DEFINE s == TestRecv
<1>1. /\ s[1] \in CallSet /\ s[2] \in CallSet /\ s[3] \in CallSet /\ s[4] \in CallSet
      /\ s[5] \in CallSet /\ s[6] \in CallSet /\ s[7] \in CallSet /\ s[8] \in CallSet
      /\ s[9] \in CallSet /\ s[10] \in CallSet
  BY Variables DEF TestRecv, CallSet, Call, When, Any, Doings
<1>2. List(s, 10)
  BY <1>1 DEF List, TestRecv
<1>3. ASSUME NEW i \in 1..10 PROVE Keeps(s[i], 2 + i)
  BY DEF TestRecv, Keeps, Holding, Call, When, Asserts
<1> QED
  BY <1>2, <1>3 DEF Kept

\* tcp_async_connect().
LEMMA AsyncConnectKept ==
    ASSUME test \in {"async", "block"} PROVE Kept(AsyncConnect, 4, 2)
<1> DEFINE s == AsyncConnect
<1>1. s[1] \in CallSet /\ s[2] \in CallSet /\ s[3] \in CallSet /\ s[4] \in CallSet
  BY Variables DEF AsyncConnect, CallSet, Call, When, Any, Doings, Threads
<1>2. List(s, 4)
  BY <1>1 DEF List, AsyncConnect
<1>3. ASSUME NEW i \in 1..4 PROVE Keeps(s[i], 2 + i)
  BY DEF AsyncConnect, Keeps, Holding, Call, When, Asserts
<1> QED
  BY <1>2, <1>3 DEF Kept

\* Each of the tests with one socket at a time; past its end nothing is open.
LEMMA OneSocketKept ==
    ASSUME test \in {"nonblocking", "testrecv", "async", "block"}
    PROVE  \E n \in Nat \ {0} :
              /\ Kept(TestOf(test), n, 2) /\ Opening(TestOf(test)[1])
              /\ \A k \in Nat : k >= n + 3 => k \notin Holding
<1>1. CASE test = "nonblocking"
  <2>1. (\A k \in Nat : k >= 26 + 3 => k \notin Holding) /\ 26 \in Nat \ {0}
    BY <1>1 DEF Holding
  <2> QED BY <1>1, <2>1, NonblockingKept
<1>2. CASE test = "testrecv"
  <2>1. (\A k \in Nat : k >= 10 + 3 => k \notin Holding) /\ 10 \in Nat \ {0}
    BY <1>2 DEF Holding
  <2>2. Opening(TestRecv[1])
    BY DEF TestRecv, Opening, Call, When
  <2>3. TestOf(test) = TestRecv
    BY <1>2 DEF TestOf
  <2> QED BY <1>2, <2>1, <2>2, <2>3, TestRecvKept
<1>3. CASE test \in {"async", "block"}
  <2>1. (\A k \in Nat : k >= 4 + 3 => k \notin Holding) /\ 4 \in Nat \ {0}
    BY <1>3 DEF Holding
  <2>2. Opening(AsyncConnect[1])
    BY DEF AsyncConnect, Opening, Call, When
  <2>3. TestOf(test) = AsyncConnect
    BY <1>3 DEF TestOf
  <2> QED BY <1>3, <2>1, <2>2, <2>3, AsyncConnectKept
<1> QED
  BY <1>1, <1>2, <1>3

\* A call that has nothing to do with which sockets are open.
Plain(c) == c.do \notin {"socket", "close", "spawn", "bind", "wait"}

\* test_init() neither opens nor closes.
LEMMA TestInitPlain ==
    List(TestInit, 1) /\ \A i \in 1..1 : Plain(TestInit[i])
<1> DEFINE s == TestInit
<1>1. s[1] \in CallSet
  BY Variables DEF TestInit, CallSet, Call, When, Any, Doings, Threads
<1>2. List(s, 1)
  BY <1>1 DEF List, TestInit
<1>3. ASSUME NEW i \in 1..1 PROVE Plain(s[i])
  BY DEF TestInit, Plain, Call, When
<1> QED
  BY <1>2, <1>3

\* Nor does the thread that does not block.
LEMMA NonBlockSockThreadPlain ==
    List(NonBlockSockThread, 8) /\ \A i \in 1..8 : Plain(NonBlockSockThread[i])
<1> DEFINE s == NonBlockSockThread
<1>1. /\ s[1] \in CallSet /\ s[2] \in CallSet /\ s[3] \in CallSet /\ s[4] \in CallSet
      /\ s[5] \in CallSet /\ s[6] \in CallSet /\ s[7] \in CallSet /\ s[8] \in CallSet
  BY Variables DEF NonBlockSockThread, CallSet, Call, When, Any, Doings, Threads
<1>2. List(s, 8)
  BY <1>1 DEF List, NonBlockSockThread
<1>3. ASSUME NEW i \in 1..8 PROVE Plain(s[i])
  BY DEF NonBlockSockThread, Plain, Call, When
<1> QED
  BY <1>2, <1>3

\* Nor the one that does.
LEMMA BlockSockThreadPlain ==
    List(BlockSockThread, 4) /\ \A i \in 1..4 : Plain(BlockSockThread[i])
<1> DEFINE s == BlockSockThread
<1>1. s[1] \in CallSet /\ s[2] \in CallSet /\ s[3] \in CallSet /\ s[4] \in CallSet
  BY Variables DEF BlockSockThread, CallSet, Call, When, Any, Doings, Threads
<1>2. List(s, 4)
  BY <1>1 DEF List, BlockSockThread
<1>3. ASSUME NEW i \in 1..4 PROVE Plain(s[i])
  BY DEF BlockSockThread, Plain, Call, When
<1> QED
  BY <1>2, <1>3

\* Nor do the waiters of sockex_testtwoselects().
LEMMA SelectWaiterPlain ==
    ASSUME NEW w \in Waiters
    PROVE  List(SelectWaiter(w), 1) /\ Plain(SelectWaiter(w)[1])
<1>1. SelectWaiter(w)[1] \in CallSet
  BY Variables DEF SelectWaiter, SocketOf, CallSet, Call, When, Any, Doings
<1> QED
  BY <1>1 DEF List, SelectWaiter, Plain, Call, When

\* Only main opens and closes sockets, and starts threads.
LEMMA OtherScripts ==
    ASSUME NEW t \in Threads \ {"main"}
    PROVE  \E n \in Nat : List(Script(t), n) /\ \A i \in 1..n : Plain(Script(t)[i])
<1>1. CASE t = "tcpip"
  <2>1. Script(t) = TestInit
    BY <1>1 DEF Script, ScriptOf, Waiters
  <2>2. 1 \in Nat
    OBVIOUS
  <2> QED BY <2>1, <2>2, TestInitPlain
<1>2. CASE t \in Waiters
  <2>1. Script(t) = SelectWaiter(t)
    BY <1>2 DEF Script, ScriptOf, Waiters
  <2>2. 1 \in Nat /\ \A i \in 1..1 : i = 1
    OBVIOUS
  <2> QED BY <1>2, <2>1, <2>2, SelectWaiterPlain
<1>3. CASE t = "thread"
  <2>1. Script(t) = IF test = "block" THEN BlockSockThread ELSE NonBlockSockThread
    BY <1>3 DEF Script, ScriptOf, Waiters
  <2>2. 4 \in Nat /\ 8 \in Nat
    OBVIOUS
  <2> QED BY <2>1, <2>2, BlockSockThreadPlain, NonBlockSockThreadPlain
<1> QED
  BY <1>1, <1>2, <1>3 DEF Threads

\* sockex_testtwoselects() is a list of calls.
LEMMA TwoSelectsList ==
    List(TwoSelects, 16)
<1> DEFINE s == TwoSelects
<1>1. /\ s[1] \in CallSet /\ s[2] \in CallSet /\ s[3] \in CallSet /\ s[4] \in CallSet
      /\ s[5] \in CallSet /\ s[6] \in CallSet /\ s[7] \in CallSet /\ s[8] \in CallSet
      /\ s[9] \in CallSet /\ s[10] \in CallSet /\ s[11] \in CallSet /\ s[12] \in CallSet
      /\ s[13] \in CallSet /\ s[14] \in CallSet /\ s[15] \in CallSet /\ s[16] \in CallSet
  BY Variables DEF TwoSelects, CallSet, Call, When, Any, Doings, Threads, Waiters
<1> QED
  BY <1>1 DEF List, TwoSelects

\* What sockex_testtwoselects() calls, and in which order.
LEMMA TwoSelectsCalls ==
    LET s == TwoSelects IN
        /\ s[1].do = "socket" /\ s[1].on = S1
        /\ s[2].do = "socket" /\ s[2].on = S2
        /\ s[3].do = "connect" /\ s[3].on = S1
        /\ s[4].do = "connect" /\ s[4].on = S2
        /\ s[5].do = "send" /\ s[5].on = S1
        /\ s[6].do = "send" /\ s[6].on = S2
        /\ s[7].do = "spawn" /\ s[7].on = "h2"
        /\ s[8].do = "spawn" /\ s[8].on = "h1"
        /\ s[9].do = "spawn" /\ s[9].on = "h4"
        /\ s[10].do = "spawn" /\ s[10].on = "h3"
        /\ s[11].do = "wait" /\ s[11].on = "h1"
        /\ s[12].do = "wait" /\ s[12].on = "h2"
        /\ s[13].do = "wait" /\ s[13].on = "h3"
        /\ s[14].do = "wait" /\ s[14].on = "h4"
        /\ s[15].do = "close" /\ s[15].on = S1
        /\ s[16].do = "close" /\ s[16].on = S2
        /\ \A i \in 1..16 : s[i].last = Any
        /\ \A i \in {1, 2, 15, 16} : s[i].want = {"ok"}
        /\ \A i \in 11..14 : s[i].want = Any
BY DEF TwoSelects, Call, When

\* The first loop of tcp_bind_test().
LEMMA BindAllList ==
    /\ List(BindAll, 2 * Binds)
    /\ \A i \in 1..2 * Binds :
          BindAll[i] = IF i % 2 = 1 THEN Call("socket", S, {"ok"}) ELSE Call("bind", i \div 2, {"ok"})
<1>1. \A i \in 1..2 * Binds : i % 2 # 1 => i \div 2 \in 1..Binds
  BY TestAssumption
<1>2. ASSUME NEW i \in 1..2 * Binds PROVE BindAll[i] \in CallSet
  <2>1. CASE i % 2 = 1
    BY <2>1, Variables DEF BindAll, CallSet, Call, When, Any, Doings
  <2>2. CASE i % 2 # 1
    <3>1. i \div 2 \in Names
      BY <1>1, <2>2, Variables
    <3> QED
      BY <2>2, <3>1 DEF BindAll, CallSet, Call, When, Any, Doings
  <2> QED BY <2>1, <2>2
<1>3. 2 * Binds \in Nat
  BY TestAssumption
<1> QED
  BY <1>2, <1>3 DEF List, BindAll

\* The second.
LEMMA CloseAllList ==
    /\ List(CloseAll, Binds)
    /\ \A i \in 1..Binds : CloseAll[i] = Call("close", i, Any)
<1>1. ASSUME NEW i \in 1..Binds PROVE CloseAll[i] \in CallSet
  BY Variables DEF CloseAll, CallSet, Call, When, Any, Doings
<1>2. Binds \in Nat
  BY TestAssumption
<1> QED
  BY <1>1, <1>2 DEF List, CloseAll

\* tcp_bind_test(), both of its loops.
LEMMA BindCalls ==
    ASSUME test = "bind"
    PROVE  /\ List(TestOf(test), 3 * Binds)
           /\ \A i \in 1..2 * Binds : TestOf(test)[i] = BindAll[i]
           /\ \A i \in 1..Binds : TestOf(test)[2 * Binds + i] = Call("close", i, Any)
<1>1. TestOf(test) = Chain(BindAll, CloseAll)
  BY DEF TestOf, Chain
<1>2. 2 * Binds \in Nat /\ Binds \in Nat /\ 3 * Binds = 2 * Binds + Binds
  BY TestAssumption
<1>3. List(Chain(BindAll, CloseAll), 2 * Binds + Binds)
  BY <1>2, BindAllList, CloseAllList, ChainList
<1>4. \A i \in 1..2 * Binds : Chain(BindAll, CloseAll)[i] = BindAll[i]
  BY <1>2, BindAllList, CloseAllList, ChainLeft
<1>5. ASSUME NEW i \in 1..Binds PROVE Chain(BindAll, CloseAll)[2 * Binds + i] = CloseAll[i]
  BY <1>2, BindAllList, CloseAllList, ChainRight
<1> QED
  BY <1>1, <1>2, <1>3, <1>4, <1>5, CloseAllList

\* Every test is a list of calls that begins with socket().
LEMMA TestLists ==
    ASSUME test \in Test
    PROVE  \E n \in Nat : n >= 1 /\ List(TestOf(test), n) /\ Opening(TestOf(test)[1])
<1>1. CASE test \in {"bind", "bind_open"}
  <2>1. 2 * Binds \in Nat /\ 3 * Binds \in Nat /\ 3 * Binds >= 1 /\ 2 * Binds >= 1
    BY TestAssumption
  <2>2. Opening(BindAll[1])
    <3>1. 1 \in 1..2 * Binds /\ 1 % 2 = 1
      BY <2>1
    <3>2. BindAll[1] = Call("socket", S, {"ok"})
      BY <3>1, BindAllList
    <3> QED BY <3>2 DEF Opening, Call, When
  <2>3. test = "bind_open" => TestOf(test) = BindAll
    BY DEF TestOf
  <2>4. 1 \in 1..2 * Binds
    BY <2>1
  <2> QED BY <1>1, <2>1, <2>2, <2>3, <2>4, BindAllList, BindCalls
<1>2. CASE test = "twoselects"
  <2>1. TestOf(test) = TwoSelects /\ 16 \in Nat /\ 16 >= 1
    BY <1>2 DEF TestOf
  <2>2. Opening(TwoSelects[1])
    BY TwoSelectsCalls DEF Opening
  <2> QED BY <2>1, <2>2, TwoSelectsList
<1>3. CASE test \in {"nonblocking", "testrecv", "async", "block"}
  <2> QED BY <1>3, OneSocketKept DEF Kept
<1> QED
  BY <1>1, <1>2, <1>3, TestAssumption

\* main() starts the stack's thread and waits for it; then comes the test.
LEMMA MainScript ==
    ASSUME NEW n \in Nat, List(TestOf(test), n)
    PROVE  /\ List(Script("main"), n + 2)
           /\ Script("main")[1] = Call("spawn", "tcpip", Any)
           /\ Script("main")[2] = Call("wait", "tcpip", Any)
           /\ \A i \in 1..n : Script("main")[i + 2] = TestOf(test)[i]
<1>1. Script("main") = Chain(StartUp, TestOf(test))
  BY DEF Script, ScriptOf, Chain, Waiters
<1>2. /\ List(StartUp, 2)
      /\ StartUp[1] = Call("spawn", "tcpip", Any) /\ StartUp[2] = Call("wait", "tcpip", Any)
  <2>1. StartUp[1] \in CallSet /\ StartUp[2] \in CallSet
    BY DEF StartUp, CallSet, Call, When, Any, Doings, Threads
  <2> QED BY <2>1 DEF StartUp, List
<1>3. List(Chain(StartUp, TestOf(test)), 2 + n)
  BY <1>2, ChainList
<1>4. \A i \in 1..2 : Chain(StartUp, TestOf(test))[i] = StartUp[i]
  BY <1>2, ChainLeft
<1>5. ASSUME NEW i \in 1..n PROVE Chain(StartUp, TestOf(test))[i + 2] = TestOf(test)[i]
  <2>1. i + 2 = 2 + i
    OBVIOUS
  <2> QED BY <1>2, <2>1, ChainRight
<1> QED
  BY <1>1, <1>2, <1>3, <1>4, <1>5

\* Where an unwanted result leads lies behind the first call of a test.
LEMMA Lengths ==
    ASSUME test \in Test, NEW t \in Threads
    PROVE  /\ Len(Script(t)) \in Nat
           /\ Otherwise(t) \in Nat \ {0}
           /\ t = "main" => Otherwise(t) >= 4
<1>1. PICK n \in Nat : n >= 1 /\ List(TestOf(test), n)
  BY TestLists
<1>2. t = "main" => Len(Script(t)) = n + 2
  BY <1>1, MainScript DEF List
<1>3. t # "main" => Len(Script(t)) \in Nat
  BY OtherScripts DEF List
<1>4. Len(StartUp) = 2
  BY DEF StartUp
<1>5. Len(BindAll) = 2 * Binds /\ 2 * Binds \in Nat /\ 2 * Binds >= 1
  BY BindAllList, TestAssumption DEF List
<1> QED
  BY <1>1, <1>2, <1>3, <1>4, <1>5 DEF Otherwise

\* What kind of step a thread takes.
LEMMA Acts ==
    ASSUME NEW t \in Threads, Run(t)
    PROVE  /\ Started(t) /\ ~Ended(t)
           /\ \/ LeaveOut(t) /\ returned[t] \notin At(t).last
              \/ At(t).do = "socket" /\ (Socket(t) \/ NoSocket(t))
              \/ At(t).do = "close" /\ Close(t)
              \/ At(t).do = "spawn" /\ Spawn(t)
              \/ At(t).do = "wait" /\ Wait(t)
              \/ At(t).do = "netif_up" /\ NetifUp(t)
              \/ At(t).do \notin {"socket", "close", "spawn", "wait", "netif_up"}
                    /\ (SendSyn(t) \/ OnSocket(t))
BY DEF Run, Calls, LeaveOut, Socket, NoSocket, SendSyn, OnSocket, Close, Spawn, Wait, NetifUp

\* After a call a thread goes on, stays at an assertion that failed, or leaves.
LEMMA Returned ==
    ASSUME NEW t \in Threads, NEW r, Return(t, r), at \in [Threads -> Nat]
    PROVE  /\ returned' = [returned EXCEPT ![t] = r]
           /\ \E k \in {at[t], at[t] + 1, Otherwise(t)} :
                 /\ at' = [at EXCEPT ![t] = k]
                 /\ r \in At(t).want => k = at[t] + 1
                 /\ r \notin At(t).want => k \in {at[t], Otherwise(t)}
                 /\ test \in Asserts => k \in {at[t], at[t] + 1}
<1>1. [at EXCEPT ![t] = at[t]] = at
  OBVIOUS
<1> QED
  BY <1>1 DEF Return

\* A call returns what the lists of calls know of.
LEMMA Results ==
    ASSUME NEW do, NEW f, NEW r \in Returns(do, f)
    PROVE  r \in Any
<1>1. \A x : Found(x) \in Any
  BY DEF Found, Any
<1>2. \A x \in Kinds(do) : x \in Any
  BY DEF Kinds, Any
<1>3. \A x \in SelectReturns(do, f) : x \in Any
  BY <1>1, <1>2 DEF SelectReturns, Any
<1>4. \A x \in ReceiveReturns(do, f) : x \in Any
  BY DEF ReceiveReturns, Any
<1>5. \A x \in ConnectReturns(f) : x \in Any
  BY DEF ConnectReturns, Any
<1> QED
  BY <1>3, <1>4, <1>5 DEF Returns, Any

\* Every action keeps the types.
LEMMA ShapedStep ==
    Shaped /\ [TestsNext]_testsVars => Shaped'
<1> SUFFICES ASSUME Shaped, [TestsNext]_testsVars PROVE Shaped'
  OBVIOUS
<1>1. ASSUME NEW t \in Threads, Run(t) PROVE Shaped'
  <2>1. Otherwise(t) \in Nat \ {0} /\ at[t] \in Nat \ {0}
    BY <1>1, Lengths, Acts DEF Shaped, Started
  <2>2. ASSUME NEW r \in Any, Return(t, r)
        PROVE  returned' \in [Threads -> Any] /\ at' \in [Threads -> Nat] /\ at'["main"] # 0
    <3>1. at \in [Threads -> Nat] /\ returned \in [Threads -> Any] /\ at["main"] # 0
      BY DEF Shaped, Started
    <3>2. returned' = [returned EXCEPT ![t] = r]
      BY <2>2, <3>1, Returned
    <3>3. PICK k \in {at[t], at[t] + 1, Otherwise(t)} : at' = [at EXCEPT ![t] = k]
      BY <2>2, <3>1, Returned
    <3>4. k \in Nat \ {0}
      BY <2>1, <3>3
    <3> QED BY <3>1, <3>2, <3>3, <3>4
  <2>3. CASE LeaveOut(t)
    BY <2>1, <2>3 DEF LeaveOut, Shaped, Started, stack
  <2>4. CASE Socket(t)
    <3>1. Return(t, "ok") /\ "ok" \in Any
      BY <2>4 DEF Socket, Any
    <3>2. PICK f \in Fd : var' = [var EXCEPT ![At(t).on] = f] /\ conn' = [conn EXCEPT ![f] = "idle"]
      BY <2>4 DEF Socket
    <3> QED BY <2>2, <2>4, <3>1, <3>2 DEF Socket, Shaped, Started
  <2>5. CASE NoSocket(t)
    BY <2>2, <2>5 DEF NoSocket, Shaped, Started, stack, Any
  <2>6. CASE SendSyn(t)
    <3>1. PICK f : conn' = [conn EXCEPT ![f] = IF At(t).do = "connect" THEN "syn" ELSE "invalid"]
      BY <2>6 DEF SendSyn
    <3>2. returned' \in [Threads -> Any] /\ at' \in [Threads -> Nat] /\ at'["main"] # 0
      <4>1. Return(t, "inprogress") \/ UNCHANGED threads
        BY <2>6 DEF SendSyn
      <4> QED BY <2>2, <4>1 DEF threads, Any, Shaped, Started
    <3> QED BY <2>6, <3>1, <3>2 DEF SendSyn, Shaped, Started
  <2>7. CASE OnSocket(t)
    <3> DEFINE f == IF At(t).do = "bind" THEN var[S] ELSE var[At(t).on]
    <3>1. PICK r \in Returns(At(t).do, f) :
             /\ Return(t, r)
             /\ var' = IF At(t).do = "bind" /\ r = "ok" THEN [var EXCEPT ![At(t).on] = f] ELSE var
      BY <2>7 DEF OnSocket
    <3>2. r \in Any
      BY Results
    <3>3. var' \in [Names -> Fd \cup {Unset}]
      BY <3>1, Variables DEF Shaped
    <3> QED BY <2>2, <2>7, <3>1, <3>2, <3>3 DEF OnSocket, Shaped, Started
  <2>8. CASE Close(t)
    <3>1. PICK f : IF conn[f] = "free"
                   THEN Return(t, "ebadf") /\ UNCHANGED conn
                   ELSE Return(t, "ok") /\ conn' = [conn EXCEPT ![f] = "free"]
      BY <2>8 DEF Close
    <3>2. conn' \in [Fd -> {"free", "idle", "syn", "invalid", "up", "fin", "dead"}]
      BY <3>1 DEF Shaped
    <3>3. Return(t, "ebadf") \/ Return(t, "ok")
      BY <3>1
    <3>4. returned' \in [Threads -> Any] /\ at' \in [Threads -> Nat] /\ at'["main"] # 0
      BY <2>2, <3>3 DEF Any
    <3> QED BY <2>8, <3>2, <3>4 DEF Close, Shaped, Started
  <2>9. CASE Spawn(t)
    <3>1. PICK x : at' = [at EXCEPT ![t] = @ + 1, ![x] = 1]
      BY <2>9 DEF Spawn
    <3>2. at \in [Threads -> Nat] /\ at["main"] # 0 /\ "main" \in Threads
      BY DEF Shaped, Started, Threads
    <3>3. at' \in [Threads -> Nat]
      <4> DEFINE g == [at EXCEPT ![t] = @ + 1]
      <4>1. g \in [Threads -> Nat]
        BY <2>1, <3>2
      <4>2. at' = [g EXCEPT ![x] = 1]
        BY <3>1
      <4> HIDE DEF g
      <4> QED BY <4>1, <4>2
    <3>4. at'["main"] # 0
      <4>1. CASE x = "main"
        BY <3>1, <3>2, <4>1
      <4>2. CASE x # "main" /\ t = "main"
        BY <2>1, <3>1, <3>2, <4>2
      <4>3. CASE x # "main" /\ t # "main"
        BY <3>1, <3>2, <4>3
      <4> QED BY <4>1, <4>2, <4>3
    <3> QED BY <2>9, <3>3, <3>4 DEF Spawn, Shaped, Started, stack
  <2>10. CASE Wait(t) \/ NetifUp(t)
    BY <2>2, <2>10 DEF Wait, NetifUp, Shaped, Started, stack, Any
  <2> QED
    BY <1>1, <2>3, <2>4, <2>5, <2>6, <2>7, <2>8, <2>9, <2>10 DEF Run
<1>2. ASSUME NEW f \in Fd, Stack(f) PROVE Shaped'
  BY <1>2 DEF Stack, Establish, GiveUp, Respond, ServerCloses, Shaped, Started, threads
<1>3. CASE UNCHANGED testsVars
  BY <1>3 DEF testsVars, Shaped, Started, threads, stack
<1> QED
  BY <1>1, <1>2, <1>3 DEF TestsNext

\* A step of the stack, or of a thread that is not about opening and closing,
\* leaves the descriptors and the socket variables as they are.
LEMMA StackQuiet ==
    ASSUME Shaped, NEW f \in Fd, Stack(f)
    PROVE  UNCHANGED <<test, at, var, netif>> /\ Open' = Open
BY DEF Stack, Establish, GiveUp, Respond, ServerCloses, Shaped, Open, threads

\* The same of a thread: it goes on, stays at an assertion that failed, or leaves.
LEMMA Quiet ==
    ASSUME Shaped, NEW t \in Threads, Run(t),
           At(t).do \notin {"socket", "close", "spawn", "bind"}
    PROVE  /\ UNCHANGED <<test, var>> /\ Open' = Open
           /\ netif' = netif \/ netif' = TRUE
           /\ \E k \in {at[t], at[t] + 1, Otherwise(t)} :
                 /\ at' = [at EXCEPT ![t] = k]
                 /\ test \in Asserts => k \in {at[t], at[t] + 1}
                 /\ At(t).do = "netif_up" /\ At(t).last = Any => netif'
                 /\ /\ At(t).do = "wait" /\ At(t).want = Any /\ At(t).last = Any 
                    => k = at[t] + 1 /\ Ended(At(t).on)
<1>1. at \in [Threads -> Nat] /\ returned[t] \in Any
  BY DEF Shaped
<1>2. ASSUME NEW r, Return(t, r)
      PROVE  \E k \in {at[t], at[t] + 1, Otherwise(t)} :
                 /\ at' = [at EXCEPT ![t] = k]
                 /\ test \in Asserts => k \in {at[t], at[t] + 1}
                 /\ r \in At(t).want => k = at[t] + 1
  BY <1>1, <1>2, Returned
<1>3. CASE LeaveOut(t) /\ returned[t] \notin At(t).last
  BY <1>1, <1>3 DEF LeaveOut, stack, Open
<1>4. CASE At(t).do = "wait" /\ Wait(t)
  <2>1. Return(t, "ok") /\ "ok" \in Any /\ Ended(At(t).on)
    BY <1>4 DEF Wait, Any, Signalled
  <2> QED BY <1>2, <1>4, <2>1 DEF Wait, stack, Open
<1>5. CASE At(t).do = "netif_up" /\ NetifUp(t)
  <2>1. Return(t, "ok")
    BY <1>5 DEF NetifUp
  <2> QED BY <1>2, <1>5, <2>1 DEF NetifUp, stack, Open
<1>6. CASE At(t).do \notin {"wait", "netif_up"} /\ SendSyn(t)
  <2>1. PICK f : conn[f] = "idle" /\ conn' = [conn EXCEPT ![f] = IF At(t).do = "connect" THEN "syn" ELSE "invalid"]
    BY <1>6 DEF SendSyn
  <2>2. Open' = Open
    BY <2>1 DEF Open, Shaped
  <2>3. Return(t, "inprogress") \/ UNCHANGED at
    BY <1>6 DEF SendSyn, threads
  <2>4. at = [at EXCEPT ![t] = at[t]]
    BY <1>1
  <2> QED BY <1>2, <1>6, <2>2, <2>3, <2>4 DEF SendSyn
<1>7. CASE At(t).do \notin {"wait", "netif_up"} /\ OnSocket(t)
  <2>1. var' = var /\ \E r : Return(t, r)
    BY <1>7 DEF OnSocket
  <2> QED BY <1>2, <1>7, <2>1 DEF OnSocket, Open
<1> QED
  BY <1>3, <1>4, <1>5, <1>6, <1>7, Acts

\* What socket(), close(), bind() and the start of a thread do to them.
Opens(t) ==
    \/ \E f \in Fd \ Open :
          /\ var' = [var EXCEPT ![At(t).on] = f]
          /\ Open' = Open \cup {f}
          /\ at' = [at EXCEPT ![t] = @ + 1]
    \/ /\ var' = var /\ Open' = Open
       /\ \E k \in {at[t], Otherwise(t)} :
             /\ at' = [at EXCEPT ![t] = k]
             /\ test \in Asserts => k = at[t]

\* socket() opens a descriptor that was closed, into its variable, or fails.
LEMMA SocketOpens ==
    ASSUME Shaped, NEW t \in Threads, Run(t),
           At(t).do = "socket", At(t).last = Any, At(t).want = {"ok"}
    PROVE  UNCHANGED <<test, netif>> /\ Opens(t)
<1>1. at \in [Threads -> Nat] /\ returned[t] \in Any
  BY DEF Shaped
<1>2. CASE Socket(t)
  <2>1. PICK f \in Fd \ Open : /\ var' = [var EXCEPT ![At(t).on] = f]
                               /\ conn' = [conn EXCEPT ![f] = "idle"]
    BY <1>2 DEF Socket
  <2>2. Open' = Open \cup {f}
    BY <2>1 DEF Open, Shaped
  <2>3. at' = [at EXCEPT ![t] = @ + 1]
    <3>1. Return(t, "ok")
      BY <1>2 DEF Socket
    <3> QED BY <3>1 DEF Return
  <2> QED BY <1>2, <2>1, <2>2, <2>3 DEF Socket, Opens
<1>3. CASE NoSocket(t)
  <2>1. Return(t, "fail") /\ "fail" \notin At(t).want
    BY <1>3 DEF NoSocket
  <2>2. PICK k \in {at[t], at[t] + 1, Otherwise(t)} :
            /\ at' = [at EXCEPT ![t] = k]
            /\ k \in {at[t], Otherwise(t)}
            /\ test \in Asserts => k = at[t]
    <3>1. [at EXCEPT ![t] = at[t]] = at
      BY <1>1
    <3> QED BY <2>1, <3>1 DEF Return
  <2> QED BY <1>3, <2>2 DEF NoSocket, Opens, stack, Open
<1> QED
  BY <1>1, <1>2, <1>3, Acts

\* close() closes what its variable names.
LEMMA CloseCloses ==
    ASSUME Shaped, NEW t \in Threads, Run(t),
           At(t).do = "close", At(t).last = Any, At(t).on \in Names
    PROVE  /\ UNCHANGED <<test, netif, var>>
           /\ \E f \in IF var[At(t).on] = Unset THEN Fd ELSE {var[At(t).on]} :
              /\ Open' = Open \ {f}
              /\ \E k \in {at[t], at[t] + 1, Otherwise(t)} :
                    /\ at' = [at EXCEPT ![t] = k]
                    /\ test \in Asserts => k \in {at[t], at[t] + 1}
                    /\ At(t).want = Any => k = at[t] + 1
                    /\ At(t).want = {"ok"} /\ f \in Open => k = at[t] + 1
<1>1. at \in [Threads -> Nat] /\ returned[t] \in Any
  BY DEF Shaped
<1>2. Close(t)
  BY <1>1, Acts
<1>3. PICK f \in IF var[At(t).on] = Unset THEN Fd ELSE {var[At(t).on]} :
          IF conn[f] = "free"
          THEN Return(t, "ebadf") /\ UNCHANGED conn
          ELSE Return(t, "ok") /\ conn' = [conn EXCEPT ![f] = "free"]
  BY <1>2 DEF Close
<1>4. f \in Fd
  BY <1>3 DEF Shaped
<1>5. Open' = Open \ {f}
  BY <1>3, <1>4 DEF Open, Shaped
<1>6. \E k \in {at[t], at[t] + 1, Otherwise(t)} :
          /\ at' = [at EXCEPT ![t] = k]
          /\ test \in Asserts => k \in {at[t], at[t] + 1}
          /\ At(t).want = Any => k = at[t] + 1
          /\ At(t).want = {"ok"} /\ f \in Open => k = at[t] + 1
  <2>1. CASE f \in Open
    <3>1. Return(t, "ok") /\ "ok" \in Any /\ "ok" \in {"ok"}
      BY <1>3, <2>1 DEF Open, Any
    <3> QED BY <1>1, <3>1, Returned
  <2>2. CASE f \notin Open
    <3>1. Return(t, "ebadf") /\ "ebadf" \in Any
      BY <1>3, <1>4, <2>2 DEF Open, Any
    <3> QED BY <1>1, <2>2, <3>1, Returned
  <2> QED BY <2>1, <2>2
<1> QED
  BY <1>2, <1>3, <1>5, <1>6 DEF Close

\* bind() puts the socket in sock_array, or fails.
LEMMA BindBinds ==
    ASSUME Shaped, NEW t \in Threads, Run(t),
           At(t).do = "bind", At(t).last = Any, At(t).want = {"ok"}
    PROVE  /\ UNCHANGED <<test, netif>> /\ Open' = Open
           /\ \/ /\ var' = [var EXCEPT ![At(t).on] = var[S]]
                 /\ at' = [at EXCEPT ![t] = @ + 1]
              \/ /\ var' = var
                 /\ \E k \in {at[t], Otherwise(t)} : at' = [at EXCEPT ![t] = k]
<1>1. at \in [Threads -> Nat] /\ returned[t] \in Any
  BY DEF Shaped
<1>2. OnSocket(t)
  <2>1. ~SendSyn(t)
    BY DEF SendSyn, Calls
  <2> QED BY <1>1, <2>1, Acts
<1>3. PICK r : /\ Return(t, r)
               /\ var' = IF r = "ok" THEN [var EXCEPT ![At(t).on] = var[S]] ELSE var
  BY <1>2 DEF OnSocket
<1>4. r = "ok" => at' = [at EXCEPT ![t] = @ + 1]
  BY <1>3 DEF Return
<1>5. r # "ok" => \E k \in {at[t], Otherwise(t)} : at' = [at EXCEPT ![t] = k]
  <2>1. r # "ok" => r \notin At(t).want
    OBVIOUS
  <2> QED BY <1>1, <1>3, <2>1, Returned
<1> QED
  BY <1>2, <1>3, <1>4, <1>5 DEF OnSocket, Open

\* A thread is started.
LEMMA SpawnStarts ==
    ASSUME Shaped, NEW t \in Threads, Run(t), At(t).do = "spawn"
    PROVE  /\ UNCHANGED <<test, netif, var>> /\ Open' = Open
           /\ \/ at' = [at EXCEPT ![t] = @ + 1, ![At(t).on] = 1]
              \/ At(t).last # Any /\ at' = [at EXCEPT ![t] = @ + 1]
<1>1. at \in [Threads -> Nat] /\ returned[t] \in Any
  BY DEF Shaped
<1> QED
  BY <1>1, Acts DEF Spawn, LeaveOut, stack, Open

----------------------------------------------------------------------------
\* What the steps of each kind of thread preserve.

Preserved == Booted /\ TwoSockets /\ NoWaiters /\ OneSocket /\ Binding

\* Only these variables matter to the invariant.
LEMMA StillPreserved ==
    ASSUME Preserved, UNCHANGED <<test, at, var>>, netif' = netif \/ netif' = TRUE, Open' = Open
    PROVE  Preserved'
<1>1. Booted'
  BY DEF Preserved, Booted
<1>2. TwoSockets' /\ NoWaiters'
  BY DEF Preserved, TwoSockets, NoWaiters, Started, Ended, Script
<1>3. OneSocket' /\ Binding'
  BY DEF Preserved, OneSocket, Binding, Bound, Holding
<1> QED
  BY <1>1, <1>2, <1>3 DEF Preserved

\* A thread that main started neither opens nor closes.
LEMMA OtherStep ==
    ASSUME Shaped, Preserved, NEW t \in Threads \ {"main"}, Run(t)
    PROVE  Preserved'
<1>1. PICK n \in Nat : List(Script(t), n) /\ \A i \in 1..n : Plain(Script(t)[i])
  BY OtherScripts
<1>2. at[t] \in 1..n /\ Started(t) /\ ~Ended(t) /\ at \in [Threads -> Nat]
  <2>1. at[t] \in Nat /\ Len(Script(t)) = n
    BY <1>1 DEF Shaped, List
  <2> QED BY <2>1, Acts DEF Started, Ended, Shaped
<1>3. Plain(At(t))
  BY <1>1, <1>2 DEF At
<1>4. /\ UNCHANGED <<test, var>> /\ Open' = Open
      /\ netif' = netif \/ netif' = TRUE
  BY <1>3, Quiet DEF Plain
<1>5. PICK k : /\ at' = [at EXCEPT ![t] = k]
               /\ At(t).do = "netif_up" /\ At(t).last = Any => netif'
  BY <1>3, Quiet DEF Plain
<1>6. at'["main"] = at["main"] /\ \A u \in Threads : u # t => at'[u] = at[u]
  BY <1>2, <1>5
<1>7. \A u \in Threads : ~Started(u) => ~Started(u)'
  BY <1>2, <1>6 DEF Started
<1>8. \A u \in Threads : Ended(u) => Ended(u)'
  BY <1>2, <1>4, <1>6 DEF Ended, Script
<1>9. Booted'
  <2>1. CASE t = "tcpip"
    <3>1. Script(t) = TestInit
      BY <2>1 DEF Script, ScriptOf, Waiters
    <3>2. at[t] = 1
      BY <1>2, <3>1, TestInitPlain DEF List, Ended, Started
    <3>3. netif'
      BY <1>5, <3>1, <3>2 DEF At, TestInit, Call, When
    <3>4. at["main"] <= 2
      BY <1>2, <2>1, <3>2 DEF Preserved, Booted, Threads
    <3>5. at["main"] \in Nat
      BY <1>2 DEF Threads
    <3> QED BY <1>4, <1>6, <3>3, <3>4, <3>5 DEF Preserved, Booted
  <2>2. CASE t # "tcpip"
    <3>1. at'["tcpip"] = at["tcpip"]
      BY <1>6, <2>2 DEF Threads
    <3> QED BY <1>4, <1>6, <3>1 DEF Preserved, Booted
  <2> QED BY <2>1, <2>2
<1>10. TwoSockets' /\ NoWaiters'
  <2>1. Waiters \subseteq Threads /\ {"h1", "h2", "h3", "h4"} \subseteq Threads
    BY DEF Threads, Waiters
  <2>2. NoWaiters'
    BY <1>4, <1>7, <2>1 DEF Preserved, NoWaiters
  <2>3. TwoSockets'
    BY <1>4, <1>6, <1>7, <1>8, <2>1 DEF Preserved, TwoSockets
  <2> QED BY <2>2, <2>3
<1>11. OneSocket' /\ Binding'
  BY <1>4, <1>6 DEF Preserved, OneSocket, Binding, Bound, Holding
<1> QED
  BY <1>9, <1>10, <1>11 DEF Preserved

\* Where main is.
LEMMA MainAt ==
    ASSUME Shaped, Run("main"), NEW n \in Nat, List(TestOf(test), n)
    PROVE  /\ at["main"] \in 1..n + 2
           /\ at["main"] = 1 => At("main") = Call("spawn", "tcpip", Any)
           /\ at["main"] = 2 => At("main") = Call("wait", "tcpip", Any)
           /\ \A i \in 1..n : at["main"] = i + 2 => At("main") = TestOf(test)[i]
           /\ at["main"] > 2 => at["main"] - 2 \in 1..n
           /\ \A i \in 1..n : TestOf(test)[i] \in CallSet
           /\ test \notin {"bind", "bind_open"} => Otherwise("main") = n + 3
<1>1. at["main"] \in Nat /\ "main" \in Threads
  BY DEF Shaped, Threads
<1>2. Len(Script("main")) = n + 2
  BY MainScript DEF List
<1>3. at["main"] \in 1..n + 2
  BY <1>1, <1>2, Acts DEF Started, Ended
<1>4. \A i \in 1..n : TestOf(test)[i] \in CallSet
  BY DEF List
<1>5. test \notin {"bind", "bind_open"} => Otherwise("main") = n + 3
  BY <1>2 DEF Otherwise
<1> QED
  BY <1>3, <1>4, <1>5, MainScript DEF At

\* Once the test has begun the stack stays up.
LEMMA StillBooted ==
    ASSUME Shaped, Booted, at["main"] >= 3, at'["tcpip"] = at["tcpip"],
           netif' = netif \/ netif' = TRUE, at'["main"] \in Nat,
           at'["main"] <= 3 => Open' = {}
    PROVE  Booted'
<1>1. at["main"] \in Nat
  BY DEF Shaped, Threads
<1> QED
  BY <1>1 DEF Booted

\* The stack is started and waited for.
LEMMA StartUpStep ==
    ASSUME Shaped, Preserved, Run("main"), at["main"] <= 2
    PROVE  Preserved'
<1>1. PICK n \in Nat : n >= 1 /\ List(TestOf(test), n)
  BY TestLists DEF Shaped
<1>2. /\ at \in [Threads -> Nat] /\ at["main"] \in {1, 2} /\ Open = {}
      /\ "main" \in Threads /\ "tcpip" \in Threads
      /\ Waiters \subseteq Threads /\ "main" \notin Waiters /\ "tcpip" \notin Waiters
  BY <1>1, MainAt DEF Shaped, Preserved, Booted, Threads, Waiters
<1>3. /\ UNCHANGED <<test, var>> /\ Open' = Open
      /\ netif' = netif \/ netif' = TRUE
      /\ at'["main"] = at["main"] + 1
      /\ at["main"] = 1 => at' = [at EXCEPT !["main"] = @ + 1, !["tcpip"] = 1]
      /\ at["main"] = 2 => at' = [at EXCEPT !["main"] = @ + 1] /\ Ended("tcpip")
  <2>1. CASE at["main"] = 1
    <3>1. At("main") = Call("spawn", "tcpip", Any)
      BY <1>1, <2>1, MainAt
    <3>2. At("main").do = "spawn" /\ At("main").on = "tcpip" /\ At("main").last = Any
      BY <3>1 DEF Call, When
    <3> QED BY <1>2, <2>1, <3>2, SpawnStarts
  <2>2. CASE at["main"] = 2
    <3>1. At("main") = Call("wait", "tcpip", Any)
      BY <1>1, <2>2, MainAt
    <3>2. At("main").do = "wait" /\ At("main").on = "tcpip" /\ At("main").last = Any
            /\ At("main").want = Any
      BY <3>1 DEF Call, When
    <3>3. at' = [at EXCEPT !["main"] = at["main"] + 1] /\ Ended("tcpip")
      BY <1>2, <3>2, Quiet
    <3>4. UNCHANGED <<test, var>> /\ Open' = Open /\ (netif' = netif \/ netif' = TRUE)
      BY <1>2, <3>2, Quiet
    <3>5. at'["main"] = at["main"] + 1 /\ at["main"] # 1
      BY <1>2, <2>2, <3>3
    <3> QED BY <3>3, <3>4, <3>5
  <2> QED BY <1>2, <2>1, <2>2
<1>4. \A w \in Waiters : at'[w] = at[w]
  BY <1>2, <1>3
<1>5. Booted'
  <2>1. CASE at["main"] = 1
    BY <1>2, <1>3, <2>1 DEF Preserved, Booted
  <2>2. CASE at["main"] = 2
    <3>1. at["tcpip"] > 1
      <4>1. Len(Script("tcpip")) = 1
        BY TestInitPlain DEF Script, ScriptOf, Waiters, List
      <4> QED BY <1>3, <2>2, <4>1 DEF Ended
    <3>2. at'["tcpip"] = at["tcpip"] /\ at'["main"] = 3
      BY <1>2, <1>3, <2>2
    <3>3. netif
      BY <3>1 DEF Preserved, Booted
    <3>4. netif' /\ Open' = {}
      BY <1>2, <1>3, <3>3
    <3> QED BY <3>1, <3>2, <3>4 DEF Booted
  <2> QED BY <1>2, <2>1, <2>2
<1>6. TwoSockets' /\ NoWaiters'
  BY <1>2, <1>3, <1>4 DEF Preserved, TwoSockets, NoWaiters, Started
<1>7. OneSocket'
  BY <1>2, <1>3 DEF Preserved, OneSocket
<1>8. Binding'
  <2>1. Binds \in Nat
    BY TestAssumption
  <2> QED BY <1>2, <1>3, <2>1 DEF Preserved, Binding
<1> QED
  BY <1>5, <1>6, <1>7, <1>8 DEF Preserved

\* The tests with one socket at a time: main opens when nothing is open, and closes it.
LEMMA OneSocketStep ==
    ASSUME Shaped, Preserved, Run("main"), at["main"] > 2,
           test \in {"nonblocking", "testrecv", "async", "block"}
    PROVE  Preserved'
<1>1. PICK n \in Nat \ {0} : /\ Kept(TestOf(test), n, 2) /\ Opening(TestOf(test)[1])
                             /\ \A k \in Nat : k >= n + 3 => k \notin Holding
  BY OneSocketKept
<1> DEFINE c == At("main")
           j == at["main"]
           i == at["main"] - 2
<1>2. /\ j \in Nat /\ i \in 1..n /\ c = TestOf(test)[i] /\ Keeps(c, j) /\ c \in CallSet
      /\ Otherwise("main") = n + 3
  <2>1. List(TestOf(test), n) /\ \A h \in 1..n : Keeps(TestOf(test)[h], 2 + h)
    BY <1>1 DEF Kept
  <2>2. j \in 1..n + 2 /\ i \in 1..n
    BY <2>1, MainAt
  <2>3. j = i + 2 /\ 2 + i = j
    BY <2>2
  <2> QED BY <2>1, <2>2, <2>3, MainAt
<1>3. /\ at \in [Threads -> Nat] /\ "main" \in Threads /\ "tcpip" \in Threads
      /\ "thread" \in Threads
      /\ Waiters \subseteq Threads /\ "main" \notin Waiters /\ "tcpip" \notin Waiters
      /\ "thread" \notin Waiters /\ S \in Names
  BY Variables DEF Shaped, Threads, Waiters
<1>4. /\ \A f \in Open : f = var[S]
      /\ j \notin Holding => Open = {}
      /\ j = 3 => c.do = "socket"
      /\ var \in [Names -> Fd \cup {Unset}] /\ Open \subseteq Fd
  BY <1>1, <1>2 DEF Preserved, OneSocket, Opening, Shaped, Open
<1>5. /\ test' = test /\ (netif' = netif \/ netif' = TRUE)
      /\ at'["tcpip"] = at["tcpip"] /\ \A w \in Waiters : at'[w] = at[w]
      /\ at'["main"] \in Nat
      /\ at'["main"] <= 3 => Open' = {}
      /\ \A f \in Open' : f = var'[S]
      /\ at'["main"] \notin Holding => Open' = {}
  <2>1. CASE c.do = "socket"
    <3>1. /\ c.on = S /\ c.last = Any /\ c.want = {"ok"}
          /\ j \notin Holding /\ j + 1 \in Holding
      BY <1>2, <2>1 DEF Keeps
    <3>2. test' = test /\ netif' = netif /\ Opens("main") /\ Open = {}
      BY <1>3, <1>4, <2>1, <3>1, SocketOpens
    <3>3. CASE \E f \in Fd \ Open :
                  /\ var' = [var EXCEPT ![c.on] = f]
                  /\ Open' = Open \cup {f}
                  /\ at' = [at EXCEPT !["main"] = @ + 1]
      <4>1. PICK f \in Fd \ Open :
                  /\ var' = [var EXCEPT ![c.on] = f]
                  /\ Open' = Open \cup {f}
                  /\ at' = [at EXCEPT !["main"] = @ + 1]
        BY <3>3
      <4>2. c.on = S /\ Open = {}
        BY <3>1, <3>2
      <4>3. /\ var' = [var EXCEPT ![S] = f]
            /\ Open' = {f}
            /\ at' = [at EXCEPT !["main"] = @ + 1]
        BY <4>1, <4>2
      <4>4. var'[S] = f
        <5>1. var \in [Names -> Fd \cup {Unset}] /\ S \in Names
          BY <1>3, <1>4
        <5> QED BY <4>3, <5>1
      <4>5. at'["main"] = j + 1 /\ at'["tcpip"] = at["tcpip"] /\ \A w \in Waiters : at'[w] = at[w]
        BY <1>3, <4>3
      <4>6. at'["main"] \in Nat /\ ~(at'["main"] <= 3)
        BY <1>2, <4>5
      <4> QED BY <3>1, <3>2, <4>3, <4>4, <4>5, <4>6
    <3>4. CASE /\ var' = var /\ Open' = Open
               /\ \E k \in {j, Otherwise("main")} : at' = [at EXCEPT !["main"] = k]
      <4>1. PICK k \in {j, Otherwise("main")} : at' = [at EXCEPT !["main"] = k]
        BY <3>4
      <4>2. at'["main"] \in Nat /\ at'["tcpip"] = at["tcpip"] /\ \A w \in Waiters : at'[w] = at[w]
        BY <1>2, <1>3, <4>1
      <4> QED BY <3>2, <3>4, <4>2
    <3> QED BY <3>2, <3>3, <3>4 DEF Opens
  <2>2. CASE c.do = "close"
    <3>1. c.on = S /\ c.last = Any
      BY <1>2, <2>2 DEF Keeps
    <3>2. /\ UNCHANGED <<test, netif, var>>
          /\ \E f \in IF var[S] = Unset THEN Fd ELSE {var[S]} :
              /\ Open' = Open \ {f}
              /\ \E k \in {j, j + 1, Otherwise("main")} : at' = [at EXCEPT !["main"] = k]
      BY <1>3, <2>2, <3>1, CloseCloses
    <3>3. Open' = {}
      BY <1>4, <3>2, TestAssumption
    <3>4. PICK k \in {j, j + 1, Otherwise("main")} : at' = [at EXCEPT !["main"] = k]
      BY <3>2
    <3>5. at'["main"] \in Nat /\ at'["tcpip"] = at["tcpip"] /\ \A w \in Waiters : at'[w] = at[w]
      BY <1>2, <1>3, <3>4
    <3> QED BY <3>2, <3>3, <3>5
  <2>3. CASE c.do = "spawn"
    <3>1. c.on = "thread" /\ (j \in Holding => j + 1 \in Holding)
      BY <1>2, <2>3 DEF Keeps
    <3>2. UNCHANGED <<test, netif, var>> /\ Open' = Open
      BY <1>3, <2>3, SpawnStarts
    <3>3. at'["main"] = j + 1 /\ at'["tcpip"] = at["tcpip"] /\ \A w \in Waiters : at'[w] = at[w]
      BY <1>3, <2>3, <3>1, SpawnStarts
    <3> QED BY <1>2, <1>4, <2>3, <3>1, <3>2, <3>3
  <2>4. CASE c.do \notin {"socket", "close", "spawn"}
    <3>1. /\ c.do # "bind"
          /\ j \in Holding => test \in Asserts /\ j + 1 \in Holding
      BY <1>2, <2>4 DEF Keeps
    <3>2. /\ UNCHANGED <<test, var>> /\ Open' = Open
          /\ netif' = netif \/ netif' = TRUE
          /\ \E k \in {j, j + 1, Otherwise("main")} :
                /\ at' = [at EXCEPT !["main"] = k]
                /\ test \in Asserts => k \in {j, j + 1}
      BY <1>3, <2>4, <3>1, Quiet
    <3> QED BY <1>2, <1>3, <1>4, <2>4, <3>1, <3>2
  <2> QED BY <2>1, <2>2, <2>3, <2>4
<1>6. Booted'
  <2>1. at["main"] >= 3
    BY <1>2
  <2> QED BY <1>5, <2>1, StillBooted DEF Preserved
<1>7. NoWaiters' /\ TwoSockets' /\ Binding'
  BY <1>5 DEF Preserved, NoWaiters, TwoSockets, Binding, Started
<1>8. OneSocket'
  <2>1. Holding' = Holding
    BY <1>5 DEF Holding
  <2> QED BY <1>5, <2>1 DEF OneSocket
<1> QED
  BY <1>6, <1>7, <1>8 DEF Preserved

\* sockex_testtwoselects(): main closes when the waiters have ended.
LEMMA TwoSelectsStep ==
    ASSUME Shaped, Preserved, Run("main"), at["main"] > 2, test = "twoselects"
    PROVE  Preserved'
<1> DEFINE c == At("main")
           j == at["main"]
<1>1. TestOf(test) = TwoSelects /\ List(TestOf(test), 16)
  BY TwoSelectsList DEF TestOf
<1>2. j \in 3..18 /\ c = TwoSelects[j - 2]
  <2>1. j \in 1..16 + 2 /\ j - 2 \in 1..16
    BY <1>1, MainAt
  <2>2. j = (j - 2) + 2
    BY <2>1
  <2> QED BY <1>1, <2>1, <2>2, MainAt
<1>3. /\ at \in [Threads -> Nat] /\ "main" \in Threads /\ "tcpip" \in Threads
      /\ Waiters \subseteq Threads /\ "main" \notin Waiters /\ "tcpip" \notin Waiters
      /\ S1 \in Names /\ S2 \in Names /\ S1 # S2
      /\ var \in [Names -> Fd \cup {Unset}] /\ Open \subseteq Fd
      /\ test \in Asserts
  BY Variables DEF Shaped, Threads, Waiters, Open, Asserts
<1>4. /\ Open = (IF j \in 4..17 THEN {var[S1]} ELSE {})
                    \cup (IF j \in 5..18 THEN {var[S2]} ELSE {})
      /\ j \in 5..17 => var[S1] # var[S2]
  BY DEF Preserved, TwoSockets
<1> DEFINE Goes(k) == /\ at'["main"] = k /\ at'["tcpip"] = at["tcpip"]
                      /\ k <= 9 => \A w \in Waiters : at'[w] = at[w]
                      /\ \A w \in Waiters : k > 13 => at'[w] = at[w]
<1> DEFINE Both(k) ==
        /\ Open' = (IF k \in 4..17 THEN {var'[S1]} ELSE {})
                      \cup (IF k \in 5..18 THEN {var'[S2]} ELSE {})
        /\ k \in 5..17 => var'[S1] # var'[S2]
<1>6. /\ test' = test /\ (netif' = netif \/ netif' = TRUE)
      /\ \E k \in {j, j + 1} : Goes(k) /\ Both(k) /\ (j \in 13..16 => k = j + 1)
  <2>1. CASE j \in {3, 4}
    <3>1. /\ c.do = "socket" /\ c.last = Any /\ c.want = {"ok"}
          /\ c.on = IF j = 3 THEN S1 ELSE S2
      BY <1>2, <2>1, TwoSelectsCalls
    <3>2. UNCHANGED <<test, netif>> /\ Opens("main")
      BY <1>3, <3>1, SocketOpens
    <3>3. CASE \E f \in Fd \ Open :
                  /\ var' = [var EXCEPT ![c.on] = f]
                  /\ Open' = Open \cup {f}
                  /\ at' = [at EXCEPT !["main"] = @ + 1]
      <4>1. PICK f \in Fd \ Open :
                  /\ var' = [var EXCEPT ![c.on] = f]
                  /\ Open' = Open \cup {f}
                  /\ at' = [at EXCEPT !["main"] = j + 1]
        BY <3>3
      <4>2. Goes(j + 1)
        BY <1>2, <1>3, <4>1
      <4>3. Both(j + 1)
        <5>1. CASE j = 3
          BY <1>3, <1>4, <3>1, <4>1, <5>1
        <5>2. CASE j = 4
          BY <1>3, <1>4, <3>1, <4>1, <5>2
        <5> QED BY <2>1, <5>1, <5>2
      <4> HIDE DEF Goes, Both
      <4> QED BY <2>1, <3>2, <4>2, <4>3
    <3>4. CASE /\ var' = var /\ Open' = Open
               /\ \E k \in {j, Otherwise("main")} : /\ at' = [at EXCEPT !["main"] = k]
                                                    /\ test \in Asserts => k = j
      <4>1. Goes(j)
        BY <1>2, <1>3, <3>4
      <4>2. Both(j)
        BY <1>4, <3>4
      <4> HIDE DEF Goes, Both
      <4> QED BY <2>1, <3>2, <4>1, <4>2
    <3> QED BY <3>2, <3>3, <3>4 DEF Opens
  <2>2. CASE j \in 5..8
    <3>1. c.do \in {"connect", "send"}
      <4>1. j \in {5, 6, 7, 8}
        BY <2>2
      <4> QED BY <1>2, <4>1, TwoSelectsCalls
    <3>2. UNCHANGED <<test, var>> /\ Open' = Open /\ (netif' = netif \/ netif' = TRUE)
      BY <1>3, <3>1, Quiet
    <3>3. PICK k \in {j, j + 1} : at' = [at EXCEPT !["main"] = k]
      BY <1>3, <3>1, Quiet
    <3>4. Goes(k)
      BY <1>2, <1>3, <3>3
    <3>5. Both(k)
      BY <1>4, <2>2, <3>2, <3>3
    <3> HIDE DEF Goes, Both
    <3> QED BY <2>2, <3>2, <3>3, <3>4, <3>5
  <2>3. CASE j \in 9..12
    <3>1. c.do = "spawn" /\ c.on \in Waiters /\ c.last = Any
      <4>1. j \in {9, 10, 11, 12}
        BY <2>3
      <4> QED BY <1>2, <4>1, TwoSelectsCalls DEF Waiters
    <3>2. UNCHANGED <<test, netif, var>> /\ Open' = Open
      BY <1>3, <3>1, SpawnStarts
    <3>3. at' = [at EXCEPT !["main"] = @ + 1, ![c.on] = 1]
      BY <1>3, <3>1, SpawnStarts
    <3>4. Goes(j + 1)
      BY <1>3, <2>3, <3>1, <3>3
    <3>5. Both(j + 1)
      BY <1>4, <2>3, <3>2
    <3> HIDE DEF Goes, Both
    <3> QED BY <2>3, <3>2, <3>4, <3>5
  <2>4. CASE j \in 13..16
    <3>1. c.do = "wait" /\ c.last = Any /\ c.want = Any
      <4>1. j \in {13, 14, 15, 16}
        BY <2>4
      <4> QED BY <1>2, <4>1, TwoSelectsCalls
    <3>2. UNCHANGED <<test, var>> /\ Open' = Open /\ (netif' = netif \/ netif' = TRUE)
      BY <1>3, <3>1, Quiet
    <3>3. at' = [at EXCEPT !["main"] = j + 1]
      BY <1>3, <3>1, Quiet
    <3>4. Goes(j + 1)
      BY <1>2, <1>3, <3>3
    <3>5. Both(j + 1)
      BY <1>4, <2>4, <3>2
    <3> HIDE DEF Goes, Both
    <3> QED BY <3>2, <3>4, <3>5
  <2>5. CASE j \in {17, 18}
    <3>1. /\ c.do = "close" /\ c.last = Any /\ c.want = {"ok"}
          /\ c.on = IF j = 17 THEN S1 ELSE S2
      BY <1>2, <2>5, TwoSelectsCalls
    <3>2. var[c.on] \in Open
      BY <1>4, <2>5, <3>1
    <3>3. c.on \in Names /\ var[c.on] # Unset
      BY <1>3, <3>1, <3>2, TestAssumption
    <3>4. UNCHANGED <<test, netif, var>> /\ Open' = Open \ {var[c.on]}
      BY <1>3, <3>1, <3>3, CloseCloses
    <3>5. at' = [at EXCEPT !["main"] = j + 1]
      BY <1>3, <3>1, <3>2, <3>3, CloseCloses
    <3>6. Goes(j + 1)
      BY <1>2, <1>3, <3>5
    <3>7. Both(j + 1)
      BY <1>4, <2>5, <3>1, <3>4
    <3> HIDE DEF Goes, Both
    <3> QED BY <2>5, <3>4, <3>6, <3>7
  <2>6. j \in {3, 4} \/ j \in 5..8 \/ j \in 9..12 \/ j \in 13..16 \/ j \in {17, 18}
    BY <1>2
  <2> HIDE DEF Goes, Both
  <2> QED BY <2>1, <2>2, <2>3, <2>4, <2>5, <2>6
<1>7. PICK k \in {j, j + 1} : Goes(k) /\ Both(k) /\ (j \in 13..16 => k = j + 1)
  BY <1>6
<1>8. Booted'
  <2>1. k \in Nat /\ k >= 3 /\ at'["main"] = k
    BY <1>2, <1>7
  <2>2. k <= 3 => k \notin 4..17 /\ k \notin 5..18
    BY <2>1
  <2>3. k <= 3 => Open' = {}
    BY <1>7, <2>2
  <2>4. j >= 3
    BY <1>2
  <2> QED BY <1>6, <1>7, <2>1, <2>3, <2>4, StillBooted DEF Preserved
<1>9. TwoSockets'
  <2>1. k \in Nat /\ k >= j /\ k <= j + 1
    BY <1>2, <1>7
  <2>2. \A w \in Waiters : at'["main"] <= 9 => ~Started(w)'
    BY <1>2, <1>7, <2>1 DEF Preserved, TwoSockets, Started
  <2>3. \A w \in Waiters : k > 13 /\ Ended(w) => Ended(w)'
    BY <1>6, <1>7 DEF Ended, Script
  <2>4. /\ j = 13 /\ k = 14 => Ended("h1")
        /\ j = 14 /\ k = 15 => Ended("h2")
        /\ j = 15 /\ k = 16 => Ended("h3")
        /\ j = 16 /\ k = 17 => Ended("h4")
    <3>1. CASE j \in 13..16
      <4>1. c.do = "wait" /\ c.last = Any /\ c.want = Any
        <5>1. j \in {13, 14, 15, 16}
          BY <3>1
        <5> QED BY <1>2, <5>1, TwoSelectsCalls
      <4>2. Ended(c.on)
        BY <1>3, <4>1, Quiet
      <4> QED BY <1>2, <4>2, TwoSelectsCalls
    <3> QED BY <3>1
  <2>5. /\ k > 13 => Ended("h1")'
        /\ k > 14 => Ended("h2")'
        /\ k > 15 => Ended("h3")'
        /\ k > 16 => Ended("h4")'
    BY <1>2, <1>7, <2>1, <2>3, <2>4 DEF Preserved, TwoSockets, Waiters
  <2> QED BY <1>7, <2>2, <2>5 DEF TwoSockets
<1>10. NoWaiters' /\ OneSocket' /\ Binding'
  BY <1>6 DEF NoWaiters, OneSocket, Binding
<1> QED
  BY <1>8, <1>9, <1>10 DEF Preserved

\* tcp_bind_test(): the first loop opens and binds, the second closes.
LEMMA BindStep ==
    ASSUME Shaped, Preserved, Run("main"), at["main"] > 2, test = "bind"
    PROVE  Preserved'
<1> DEFINE c == At("main")
           j == at["main"]
<1>1. Binds \in Nat /\ Binds >= 1 /\ 3 * Binds \in Nat /\ 2 * Binds \in Nat
  BY TestAssumption
<1>2. /\ j \in 3..3 * Binds + 2
      /\ j <= 2 * Binds + 2 => c = BindAll[j - 2]
      /\ j > 2 * Binds + 2 => c = Call("close", j - (2 * Binds + 2), Any)
  <2>1. List(TestOf(test), 3 * Binds)
    BY BindCalls
  <2>2. j \in 1..3 * Binds + 2 /\ j - 2 \in 1..3 * Binds
    BY <1>1, <2>1, MainAt
  <2>3. j = (j - 2) + 2
    BY <2>2
  <2>4. c = TestOf(test)[j - 2]
    BY <1>1, <2>1, <2>2, <2>3, MainAt
  <2>5. j <= 2 * Binds + 2 => j - 2 \in 1..2 * Binds
    BY <1>1, <2>2
  <2>6. j > 2 * Binds + 2 => /\ j - (2 * Binds + 2) \in 1..Binds
                            /\ j - 2 = 2 * Binds + (j - (2 * Binds + 2))
    BY <1>1, <2>2
  <2> QED BY <2>2, <2>4, <2>5, <2>6, BindCalls
<1>3. /\ at \in [Threads -> Nat] /\ "main" \in Threads /\ "tcpip" \in Threads
      /\ Waiters \subseteq Threads /\ "main" \notin Waiters /\ "tcpip" \notin Waiters
      /\ S \in Names /\ \A i \in 1..Binds : i \in Names /\ i # S
      /\ var \in [Names -> Fd \cup {Unset}] /\ Open \subseteq Fd /\ Unset \notin Fd
      /\ test \notin Asserts
  BY Variables, TestAssumption DEF Shaped, Threads, Waiters, Open, Asserts
<1>4. Otherwise("main") = 2 * Binds + 3
  <2>1. Len(StartUp) = 2 /\ Len(BindAll) = 2 * Binds
    BY BindAllList DEF StartUp, List
  <2> QED BY <1>1, <2>1 DEF Otherwise
<1>5. /\ j <= 2 * Binds + 2 =>
            /\ \A i \in 1..Binds : 2 * i >= j - 2 => var[i] = Unset
            /\ j % 2 = 1 => \A f \in Open : Bound(f)
      /\ \A f \in Open :
            \/ f = var[S] /\ ~Bound(f)
            \/ \E i \in 1..Binds : var[i] = f /\ j <= 2 * Binds + 2 + i
  BY DEF Preserved, Binding
<1> DEFINE Goes(k) == /\ at'["main"] = k /\ at'["tcpip"] = at["tcpip"]
                      /\ \A w \in Waiters : at'[w] = at[w]
           First(k) == k <= 2 * Binds + 2 =>
              /\ \A i \in 1..Binds : 2 * i >= k - 2 => var'[i] = Unset
              /\ k % 2 = 1 => \A f \in Open' : \E i \in 1..Binds : var'[i] = f
           Second(k) == \A f \in Open' :
              \/ f = var'[S] /\ ~\E i \in 1..Binds : var'[i] = f
              \/ \E i \in 1..Binds : var'[i] = f /\ k <= 2 * Binds + 2 + i
           Done(k) == Goes(k) /\ First(k) /\ Second(k)
<1>6. var' = var /\ Open' = Open => First(j) /\ Second(j)
  BY <1>5 DEF Bound
<1>7. /\ test' = test /\ netif' = netif
      /\ \/ \E k \in {j, j + 1, 2 * Binds + 3} : Done(k) /\ (k = j => Open' = Open)
  <2>1. CASE j <= 2 * Binds + 2 /\ j % 2 = 1
    <3>1. c.do = "socket" /\ c.last = Any /\ c.want = {"ok"} /\ c.on = S
      <4>1. j - 2 \in 1..2 * Binds /\ (j - 2) % 2 = 1
        BY <1>1, <1>2, <2>1
      <4>2. c = Call("socket", S, {"ok"})
        BY <1>2, <2>1, <4>1, BindAllList
      <4> QED BY <4>2 DEF Call, When
    <3>2. UNCHANGED <<test, netif>> /\ Opens("main")
      BY <1>3, <3>1, SocketOpens
    <3>3. \A f \in Open : \E i \in 1..Binds : var[i] = f
      BY <1>5, <2>1 DEF Bound
    <3>4. CASE \E f \in Fd \ Open :
                  /\ var' = [var EXCEPT ![c.on] = f]
                  /\ Open' = Open \cup {f}
                  /\ at' = [at EXCEPT !["main"] = @ + 1]
      <4>1. PICK f \in Fd \ Open :
                  /\ var' = [var EXCEPT ![S] = f]
                  /\ Open' = Open \cup {f}
                  /\ at' = [at EXCEPT !["main"] = j + 1]
        BY <3>1, <3>4
      <4>2. Goes(j + 1)
        BY <1>2, <1>3, <4>1
      <4>3. var'[S] = f /\ \A i \in 1..Binds : var'[i] = var[i]
        BY <1>3, <4>1
      <4>4. First(j + 1)
        <5>1. (j + 1) % 2 # 1
          BY <1>2, <2>1
        <5>2. \A i \in 1..Binds : 2 * i >= (j + 1) - 2 => 2 * i >= j - 2
          BY <1>1, <1>2
        <5> QED BY <1>5, <2>1, <4>3, <5>1, <5>2
      <4>5. Second(j + 1)
        <5>1. \A i \in 1..Binds : j + 1 <= 2 * Binds + 2 + i
          BY <1>1, <1>2, <2>1
        <5> QED BY <3>3, <4>1, <4>3, <5>1
      <4>6. j + 1 # j
        BY <1>2
      <4> HIDE DEF Goes, First, Second
      <4> QED BY <3>2, <4>2, <4>4, <4>5, <4>6
    <3>5. CASE /\ var' = var /\ Open' = Open
               /\ \E k \in {j, Otherwise("main")} : at' = [at EXCEPT !["main"] = k]
      <4>1. PICK k \in {j, 2 * Binds + 3} : at' = [at EXCEPT !["main"] = k]
        BY <1>4, <3>5
      <4>2. Goes(k)
        BY <1>3, <4>1
      <4>3. First(2 * Binds + 3)
        BY <1>1
      <4>4. Second(2 * Binds + 3)
        <5>1. \A i \in 1..Binds : 2 * Binds + 3 <= 2 * Binds + 2 + i
          BY <1>1
        <5> QED BY <3>3, <3>5, <5>1
      <4> HIDE DEF Goes, First, Second
      <4> QED BY <1>6, <3>2, <3>5, <4>1, <4>2, <4>3, <4>4
    <3> QED BY <3>2, <3>4, <3>5 DEF Opens
  <2>2. CASE j <= 2 * Binds + 2 /\ j % 2 # 1
    <3> DEFINE h == (j - 2) \div 2
    <3>1. h \in 1..Binds /\ j = 2 * h + 2 /\ j - 2 \in 1..2 * Binds /\ (j - 2) % 2 # 1
      BY <1>1, <1>2, <2>2
    <3>2. c.do = "bind" /\ c.last = Any /\ c.want = {"ok"} /\ c.on = h
      <4>1. c = Call("bind", h, {"ok"})
        BY <1>2, <2>2, <3>1, BindAllList
      <4> QED BY <4>1 DEF Call, When
    <3> HIDE DEF h
    <3>3. UNCHANGED <<test, netif>> /\ Open' = Open
      BY <1>3, <3>2, BindBinds
    <3>4. \A i \in 1..Binds : i >= h => var[i] = Unset
      BY <1>1, <1>5, <2>2, <3>1
    <3>5. CASE /\ var' = [var EXCEPT ![h] = var[S]]
               /\ at' = [at EXCEPT !["main"] = j + 1]
      <4>1. /\ var'[S] = var[S] /\ var'[h] = var[S]
            /\ \A i \in 1..Binds : i # h => var'[i] = var[i]
        BY <1>3, <3>1, <3>5
      <4>2. Goes(j + 1)
        BY <1>2, <1>3, <3>5
      <4>3. \A f \in Open' : \E i \in 1..Binds : var'[i] = f
        <5> SUFFICES ASSUME NEW f \in Open PROVE \E i \in 1..Binds : var'[i] = f
          BY <3>3
        <5>1. CASE f = var[S]
          BY <3>1, <4>1, <5>1
        <5>2. CASE \E i \in 1..Binds : var[i] = f
          <6>1. PICK i \in 1..Binds : var[i] = f
            BY <5>2
          <6>2. i # h
            BY <1>3, <3>1, <3>4, <6>1
          <6> QED BY <4>1, <6>1, <6>2
        <5> QED BY <1>5, <5>1, <5>2
      <4>4. First(j + 1)
        <5>1. \A i \in 1..Binds : 2 * i >= (j + 1) - 2 => i >= h /\ i # h
          BY <1>1, <3>1
        <5>2. \A i \in 1..Binds : 2 * i >= (j + 1) - 2 => var'[i] = Unset
          BY <3>4, <4>1, <5>1
        <5> QED BY <4>3, <5>2
      <4>5. Second(j + 1)
        <5>1. \A i \in 1..Binds : j + 1 <= 2 * Binds + 2 + i
          BY <1>1, <1>2, <2>2
        <5> QED BY <4>3, <5>1
      <4>6. j + 1 # j
        BY <1>2
      <4> HIDE DEF Goes, First, Second
      <4> QED BY <3>3, <4>2, <4>4, <4>5, <4>6
    <3>6. CASE /\ var' = var
               /\ \E k \in {j, Otherwise("main")} : at' = [at EXCEPT !["main"] = k]
      <4>1. PICK k \in {j, 2 * Binds + 3} : at' = [at EXCEPT !["main"] = k]
        BY <1>4, <3>6
      <4>2. Goes(k)
        BY <1>3, <4>1
      <4>3. First(2 * Binds + 3)
        BY <1>1
      <4>4. Second(2 * Binds + 3)
        <5>1. \A i \in 1..Binds : 2 * Binds + 3 <= 2 * Binds + 2 + i
          BY <1>1
        <5> QED BY <1>5, <3>3, <3>6, <5>1 DEF Bound
      <4> HIDE DEF Goes, First, Second
      <4> QED BY <1>6, <3>3, <3>6, <4>1, <4>2, <4>3, <4>4
    <3> QED BY <1>3, <3>2, <3>3, <3>5, <3>6, BindBinds
  <2>3. CASE j > 2 * Binds + 2
    <3> DEFINE h == j - (2 * Binds + 2)
    <3>1. h \in 1..Binds /\ j = 2 * Binds + 2 + h
      BY <1>1, <1>2, <2>3
    <3>2. c.do = "close" /\ c.last = Any /\ c.want = Any /\ c.on = h
      BY <1>2, <2>3 DEF Call, When
    <3> HIDE DEF h
    <3>3. h \in Names
      BY <1>3, <3>1
    <3>4. PICK f \in IF var[h] = Unset THEN Fd ELSE {var[h]} :
             Open' = Open \ {f} /\ at' = [at EXCEPT !["main"] = j + 1]
      BY <1>3, <3>2, <3>3, CloseCloses
    <3>5. UNCHANGED <<test, netif, var>>
      BY <1>3, <3>2, <3>3, CloseCloses
    <3>6. Goes(j + 1)
      BY <1>2, <1>3, <3>4
    <3>7. First(j + 1)
      BY <1>1, <1>2, <2>3
    <3>8. Second(j + 1)
      <4> SUFFICES ASSUME NEW g \in Open, g # f
                   PROVE  \/ g = var[S] /\ ~\E i \in 1..Binds : var[i] = g
                          \/ \E i \in 1..Binds : var[i] = g /\ j + 1 <= 2 * Binds + 2 + i
        BY <3>4, <3>5
      <4>1. CASE \E i \in 1..Binds : var[i] = g /\ j <= 2 * Binds + 2 + i
        <5>1. PICK i \in 1..Binds : var[i] = g /\ j <= 2 * Binds + 2 + i
          BY <4>1
        <5>2. i # h
          BY <1>3, <3>4, <5>1
        <5>3. j + 1 <= 2 * Binds + 2 + i
          BY <1>1, <3>1, <5>1, <5>2
        <5> QED BY <5>1, <5>3
      <4> QED BY <1>5, <4>1 DEF Bound
    <3>9. j + 1 # j
      BY <1>2
    <3> HIDE DEF Goes, First, Second
    <3> QED BY <3>5, <3>6, <3>7, <3>8, <3>9
  <2> HIDE DEF Goes, First, Second
  <2> QED BY <1>1, <1>2, <2>1, <2>2, <2>3
<1>8. PICK k \in {j, j + 1, 2 * Binds + 3} : Done(k) /\ (k = j => Open' = Open)
  BY <1>7
<1>9. Booted'
  <2>1. k \in Nat /\ k >= 3 /\ j >= 3 /\ at'["main"] = k
    BY <1>1, <1>2, <1>8
  <2>2. k <= 3 => Open' = {}
    <3>1. k <= 3 => k = 3 /\ j = 3
      BY <1>1, <1>2, <1>8
    <3> QED BY <1>8, <3>1 DEF Preserved, Booted
  <2> QED BY <1>7, <1>8, <2>1, <2>2, StillBooted DEF Preserved
<1>10. Binding'
  BY <1>7, <1>8 DEF Binding, Bound
<1>11. NoWaiters' /\ OneSocket' /\ TwoSockets'
  BY <1>7, <1>8 DEF Preserved, NoWaiters, OneSocket, TwoSockets, Started
<1> QED
  BY <1>9, <1>10, <1>11 DEF Preserved

\* The tcp_bind_test() that never closes.
LEMMA BindOpenStep ==
    ASSUME Shaped, Preserved, Run("main"), at["main"] > 2, test = "bind_open"
    PROVE  Preserved'
<1> DEFINE c == At("main")
           j == at["main"]
<1>1. Binds \in Nat /\ Binds >= 1 /\ 2 * Binds \in Nat
  BY TestAssumption
<1>2. TestOf(test) = BindAll /\ List(TestOf(test), 2 * Binds)
  BY BindAllList DEF TestOf
<1>3. j \in Nat /\ j >= 3 /\ j - 2 \in 1..2 * Binds /\ c = BindAll[j - 2]
  <2>1. j \in 1..2 * Binds + 2 /\ j - 2 \in 1..2 * Binds
    BY <1>1, <1>2, MainAt
  <2>2. j = (j - 2) + 2
    BY <2>1
  <2> QED BY <1>1, <1>2, <2>1, <2>2, MainAt
<1>4. /\ at \in [Threads -> Nat] /\ "main" \in Threads /\ "tcpip" \in Threads
      /\ Waiters \subseteq Threads /\ "main" \notin Waiters /\ "tcpip" \notin Waiters
  BY DEF Shaped, Threads, Waiters
<1>5. Otherwise("main") = 2 * Binds + 3
  <2>1. Len(StartUp) = 2 /\ Len(BindAll) = 2 * Binds
    BY BindAllList DEF StartUp, List
  <2> QED BY <1>1, <2>1 DEF Otherwise
<1>6. c.last = Any /\ c.want = {"ok"} /\ c.do \in {"socket", "bind"}
  <2>1. c = Call("socket", S, {"ok"}) \/ c = Call("bind", (j - 2) \div 2, {"ok"})
    BY <1>3, BindAllList
  <2> QED BY <2>1 DEF Call, When
<1>7. /\ test' = test /\ netif' = netif
      /\ \E k \in {j, j + 1, 2 * Binds + 3} : at' = [at EXCEPT !["main"] = k] /\ (k = j => Open' = Open)
  <2>1. CASE c.do = "socket"
    <3>1. UNCHANGED <<test, netif>> /\ Opens("main")
      BY <1>4, <1>6, <2>1, SocketOpens
    <3>2. j + 1 # j
      BY <1>3
    <3> QED BY <1>5, <3>1, <3>2 DEF Opens
  <2>2. CASE c.do = "bind"
    BY <1>4, <1>5, <1>6, <2>2, BindBinds
  <2> QED BY <1>6, <2>1, <2>2
<1>8. PICK k \in {j, j + 1, 2 * Binds + 3} : at' = [at EXCEPT !["main"] = k] /\ (k = j => Open' = Open)
  BY <1>7
<1>9. at'["main"] = k /\ at'["tcpip"] = at["tcpip"] /\ \A w \in Waiters : at'[w] = at[w]
  BY <1>1, <1>3, <1>4, <1>8
<1>10. Booted'
  <2>1. k \in Nat /\ (k <= 3 => k = j /\ j <= 3)
    BY <1>1, <1>3, <1>8
  <2>2. k <= 3 => Open' = {}
    BY <1>8, <2>1 DEF Preserved, Booted
  <2> QED BY <1>3, <1>7, <1>9, <2>1, <2>2, StillBooted DEF Preserved
<1>11. NoWaiters' /\ OneSocket' /\ TwoSockets' /\ Binding'
  BY <1>7, <1>9 DEF Preserved, NoWaiters, OneSocket, TwoSockets, Binding, Started
<1> QED
  BY <1>10, <1>11 DEF Preserved

\* Every test keeps its invariant: where main is in its list of calls says which
\* sockets are open, for any descriptors and any number of ports to bind.
THEOREM TestsInvariant ==
    TestsSpec => []TestsInv
<1>1. TestsInit => TestsInv
  <2> SUFFICES ASSUME TestsInit PROVE TestsInv
    OBVIOUS
  <2>1. Shaped
    BY DEF TestsInit, Shaped, Started, Threads, Any
  <2>2. Open = {} /\ at["main"] = 1 /\ at["tcpip"] = 0 /\ \A w \in Waiters : ~Started(w)
    BY DEF TestsInit, Open, Threads, Waiters, Started
  <2>3. Booted /\ TwoSockets /\ NoWaiters /\ OneSocket
    BY <2>2 DEF Booted, TwoSockets, NoWaiters, OneSocket
  <2>4. Binding
    <3>1. \A i \in 1..Binds : var[i] = Unset
      BY Variables DEF TestsInit
    <3> QED BY <2>2, <3>1 DEF Binding
  <2> QED BY <2>1, <2>3, <2>4 DEF TestsInv
<1>2. TestsInv /\ [TestsNext]_testsVars => TestsInv'
  <2> SUFFICES ASSUME Shaped, Preserved, [TestsNext]_testsVars PROVE TestsInv'
    BY DEF TestsInv, Preserved
  <2>1. Shaped'
    BY ShapedStep
  <2>2. ASSUME Run("main") PROVE Preserved'
    <3>1. at["main"] \in Nat
      BY DEF Shaped, Threads
    <3>2. CASE at["main"] <= 2
      BY <2>2, <3>2, StartUpStep
    <3>3. CASE at["main"] > 2
      <4>1. test \in {"nonblocking", "testrecv", "twoselects", "bind", "bind_open",
                      "async", "block"}
        BY TestAssumption DEF Shaped
      <4> QED
        BY <2>2, <3>3, <4>1, OneSocketStep, TwoSelectsStep, BindStep, BindOpenStep
    <3> QED BY <3>1, <3>2, <3>3
  <2>3. ASSUME NEW t \in Threads \ {"main"}, Run(t) PROVE Preserved'
    BY <2>3, OtherStep
  <2>4. ASSUME NEW f \in Fd, Stack(f) PROVE Preserved'
    BY <2>4, StackQuiet, StillPreserved
  <2>5. ASSUME UNCHANGED testsVars PROVE Preserved'
    <3>1. UNCHANGED <<test, at, var, netif>> /\ Open' = Open
      BY <2>5 DEF testsVars, threads, stack, Open
    <3>2. UNCHANGED <<test, at, var>> /\ (netif' = netif \/ netif' = TRUE)
      BY <3>1
    <3> QED BY <3>1, <3>2, StillPreserved
  <2>6. Preserved'
    <3>1. ASSUME NEW t \in Threads, Run(t) PROVE Preserved'
      BY <2>2, <2>3, <3>1
    <3> QED BY <2>4, <2>5, <3>1 DEF TestsNext
  <2> QED BY <2>1, <2>6 DEF TestsInv, Preserved
<1> QED
  BY <1>1, <1>2, PTL DEF TestsSpec

\* A test that is through has nothing open, also when it broke off; a bind test of
\* socket_examples.c has the socket at most that it could not bind (NothingLeft).
THEOREM ClosedAtTheEnd ==
    TestsSpec => []NothingLeft
<1>1. TestsInv => NothingLeft
  <2> SUFFICES ASSUME Shaped, Preserved, Ended("main"), test # "bind_open",
                      NEW f \in Open
               PROVE  test = "bind" /\ f = var[S] /\ \A i \in 1..Binds : var[i] # f
    BY DEF TestsInv, Preserved, NothingLeft, Unbound
  <2>1. at["main"] \in Nat
    BY DEF Shaped, Threads
  <2>2. test = "bind"
    <3>1. CASE test \in {"nonblocking", "testrecv", "async", "block"}
      <4>1. PICK n \in Nat \ {0} : /\ Kept(TestOf(test), n, 2)
                                   /\ \A k \in Nat : k >= n + 3 => k \notin Holding
        BY <3>1, OneSocketKept
      <4>2. Len(Script("main")) = n + 2
        BY <4>1, MainScript DEF Kept, List
      <4>3. at["main"] \notin Holding
        BY <2>1, <4>1, <4>2 DEF Ended
      <4> QED BY <3>1, <4>3 DEF Preserved, OneSocket
    <3>2. CASE test = "twoselects"
      <4>1. List(TestOf(test), 16) /\ 16 \in Nat
        BY <3>2, TwoSelectsList DEF TestOf
      <4>2. Len(Script("main")) = 16 + 2
        BY <4>1, MainScript DEF List
      <4>3. at["main"] \notin 4..17 /\ at["main"] \notin 5..18
        <5> DEFINE l == Len(Script("main"))
        <5>1. at["main"] > l /\ l = 18
          BY <4>2 DEF Ended
        <5> HIDE DEF l
        <5>2. at["main"] > 18
          BY <5>1
        <5> QED BY <2>1, <5>2
      <4>4. Open = {}
        BY <3>2, <4>3 DEF Preserved, TwoSockets
      <4> QED BY <4>4
    <3> QED BY <3>1, <3>2, TestAssumption DEF Shaped
  <2>3. Binds \in Nat /\ 3 * Binds \in Nat
    BY TestAssumption
  <2>4. Len(Script("main")) = 3 * Binds + 2
    BY <2>2, <2>3, BindCalls, MainScript DEF List
  <2>5. \A i \in 1..Binds : ~(at["main"] <= 2 * Binds + 2 + i)
    BY <2>1, <2>3, <2>4 DEF Ended
  <2> QED BY <2>2, <2>5 DEF Preserved, Binding, Bound
<1> QED
  BY <1>1, TestsInvariant, PTL

\* No socket is opened before the netif is up, and none that a waiter of
\* sockex_testtwoselects() waits on is closed before the waiter ends; the thread of
\* tcp_async_connect() loses its own, and is not meant (UsedInTime).
THEOREM NotBeforeNorAfter ==
    TestsSpec => []UsedInTime
<1>1. TestsInv => UsedInTime
  <2> SUFFICES ASSUME Shaped, Preserved PROVE UsedInTime
    BY DEF TestsInv, Preserved
  <2>1. at["main"] \in Nat
    BY DEF Shaped, Threads
  <2>2. Open # {} => netif
    BY <2>1 DEF Preserved, Booted
  <2>3. ASSUME NEW w \in Waiters, Started(w), ~Ended(w) PROVE var[SocketOf(w)] \in Open
    <3>1. test = "twoselects"
      BY <2>3 DEF Preserved, NoWaiters
    <3>2. at["main"] \in 10..16
      BY <2>1, <2>3, <3>1 DEF Preserved, TwoSockets, Waiters
    <3>3. Open = {var[S1], var[S2]}
      BY <3>1, <3>2 DEF Preserved, TwoSockets
    <3> QED BY <3>3 DEF SocketOf
  <2> QED BY <2>2, <2>3 DEF UsedInTime
<1> QED
  BY <1>1, TestsInvariant, PTL

----------------------------------------------------------------------------
\* What main is about to call in sockex_nonblocking_connect(), at its position j.
NonblockingCall(j) ==
    CASE j \in {3, 7, 12, 22} -> Call("socket", S, {"ok"})
      [] j \in {8, 13, 23} -> Call("nonblock", S, {"ok"})
      [] j = 4 -> Call("connect", S, {"ok"})
      [] j \in {9, 14} -> Call("connect", S, {"inprogress"})
      [] j = 24 -> Call("connect_invalid", S, {"inprogress"})
      [] j \in {5, 20} -> Call("send", S, {"ok"})
      [] j \in {15, 25} -> Call("send", S, {"inprogress"})
      [] j \in {16, 17, 26} -> Call("poll", S, {"none"})
      [] j = 18 -> Call("select", S, {"write"})
      [] j = 19 -> Call("poll", S, {"write"})
      [] j = 27 -> Call("select", S, {"error"})
      [] j = 11 -> Call("close", S, {"ebadf"})
      [] OTHER -> Call("close", S, {"ok"})

\* The four parts of sockex_nonblocking_connect(), one behind the other.
LEMMA NonblockingCalls ==
    ASSUME test = "nonblocking"
    PROVE  \A i \in 1..26 : TestOf(test)[i] = NonblockingCall(i + 2)
<1> DEFINE a == BlockingConnect
           b == CloseBeforeConnected
           c == SelectUntilConnected
           d == InvalidAddress
<1>1. TestOf(test) = Chain(Chain(Chain(a, b), c), d)
  BY DEF TestOf, Chain
<1>2. \A i \in 1..4 : a[i] = NonblockingCall(2 + i)
  BY DEF BlockingConnect, NonblockingCall
<1>3. \A i \in 1..5 : b[i] = NonblockingCall(6 + i)
  BY DEF CloseBeforeConnected, NonblockingCall
<1>4. ASSUME NEW i \in 1..10 PROVE c[i] = NonblockingCall(11 + i)
  <2>1. i \in {1, 2, 3, 4, 5, 6, 7, 8, 9, 10}
    OBVIOUS
  <2> QED BY <2>1 DEF SelectUntilConnected, NonblockingCall
<1>5. \A i \in 1..7 : d[i] = NonblockingCall(21 + i)
  BY DEF InvalidAddress, NonblockingCall
<1>6. List(a, 4) /\ List(b, 5) /\ List(c, 10) /\ List(d, 7)
  <2>1. Kept(a, 4, 2) /\ Kept(b, 5, 6) /\ Kept(c, 10, 11) /\ Kept(d, 7, 21)
    BY BlockingConnectKept, CloseBeforeConnectedKept, SelectUntilConnectedKept,
       InvalidAddressKept
  <2> HIDE DEF a, b, c, d
  <2> QED BY <2>1 DEF Kept
<1> HIDE DEF a, b, c, d
<1>7. List(Chain(a, b), 9)
  <2>1. List(Chain(a, b), 4 + 5)
    BY <1>6, ChainList
  <2> QED BY <2>1
<1>8. List(Chain(Chain(a, b), c), 19)
  <2>1. List(Chain(Chain(a, b), c), 9 + 10)
    BY <1>6, <1>7, ChainList
  <2> QED BY <2>1
<1>9. ASSUME NEW i \in 1..9 PROVE Chain(a, b)[i] = NonblockingCall(2 + i)
  <2>1. CASE i \in 1..4
    <3>1. Chain(a, b)[i] = a[i]
      BY <1>6, <2>1, ChainLeft
    <3> QED BY <1>2, <2>1, <3>1
  <2>2. CASE i \in 5..9
    <3>1. i - 4 \in 1..5 /\ i = 4 + (i - 4) /\ 6 + (i - 4) = 2 + i
      BY <2>2
    <3>2. Chain(a, b)[i] = b[i - 4]
      BY <1>6, <3>1, ChainRight
    <3>3. b[i - 4] = NonblockingCall(6 + (i - 4))
      BY <1>3, <3>1
    <3> QED BY <3>1, <3>2, <3>3
  <2> QED BY <2>1, <2>2
<1>10. ASSUME NEW i \in 1..19 PROVE Chain(Chain(a, b), c)[i] = NonblockingCall(2 + i)
  <2>1. CASE i \in 1..9
    BY <1>6, <1>7, <1>9, <2>1, ChainLeft
  <2>2. CASE i \in 10..19
    <3>1. i - 9 \in 1..10 /\ i = 9 + (i - 9) /\ 11 + (i - 9) = 2 + i
      BY <2>2
    <3>2. Chain(Chain(a, b), c)[i] = c[i - 9]
      BY <1>6, <1>7, <3>1, ChainRight
    <3>3. c[i - 9] = NonblockingCall(11 + (i - 9))
      BY <1>4, <3>1
    <3> QED BY <3>1, <3>2, <3>3
  <2> QED BY <2>1, <2>2
<1>11. ASSUME NEW i \in 1..26
       PROVE  Chain(Chain(Chain(a, b), c), d)[i] = NonblockingCall(2 + i)
  <2>1. CASE i \in 1..19
    BY <1>6, <1>8, <1>10, <2>1, ChainLeft
  <2>2. CASE i \in 20..26
    <3>1. i - 19 \in 1..7 /\ i = 19 + (i - 19) /\ 21 + (i - 19) = 2 + i
      BY <2>2
    <3>2. Chain(Chain(Chain(a, b), c), d)[i] = d[i - 19]
      BY <1>6, <1>8, <3>1, ChainRight
    <3>3. d[i - 19] = NonblockingCall(21 + (i - 19))
      BY <1>5, <3>1
    <3> QED BY <3>1, <3>2, <3>3
  <2> QED BY <2>1, <2>2
<1>12. \A i \in 1..26 : 2 + i = i + 2
  OBVIOUS
<1> QED
  BY <1>1, <1>11, <1>12

\* Where main is in it.
LEMMA NonblockingAtCall ==
    ASSUME Shaped, Run("main"), at["main"] > 2, test = "nonblocking"
    PROVE  at["main"] \in 3..28 /\ At("main") = NonblockingCall(at["main"])
<1>1. List(TestOf(test), 26)
  BY NonblockingKept DEF Kept
<1>2. at["main"] \in 1..26 + 2 /\ at["main"] - 2 \in 1..26
  BY <1>1, MainAt
<1>3. at["main"] = (at["main"] - 2) + 2
  BY <1>2
<1>4. At("main") = TestOf(test)[at["main"] - 2]
  BY <1>1, <1>2, <1>3, MainAt
<1>5. TestOf(test)[at["main"] - 2] = NonblockingCall((at["main"] - 2) + 2)
  BY <1>2, NonblockingCalls
<1> QED
  BY <1>2, <1>3, <1>4, <1>5

\* Where main is in sockex_testrecv().
LEMMA TestRecvAtCall ==
    ASSUME Shaped, Run("main"), at["main"] > 2, test = "testrecv"
    PROVE  at["main"] \in 3..12 /\ At("main") = TestRecv[at["main"] - 2]
<1>1. List(TestOf(test), 10) /\ TestOf(test) = TestRecv
  BY TestRecvKept DEF Kept, TestOf
<1>2. at["main"] \in 1..10 + 2 /\ at["main"] - 2 \in 1..10
  BY <1>1, MainAt
<1>3. at["main"] = (at["main"] - 2) + 2
  BY <1>2
<1> QED
  BY <1>1, <1>2, <1>3, MainAt

\* Where main is in sockex_testtwoselects().
LEMMA TwoSelectsAtCall ==
    ASSUME Shaped, Run("main"), at["main"] > 2, test = "twoselects"
    PROVE  at["main"] \in 3..18 /\ At("main") = TwoSelects[at["main"] - 2]
<1>1. List(TestOf(test), 16) /\ TestOf(test) = TwoSelects
  BY TwoSelectsList DEF TestOf
<1>2. at["main"] \in 1..16 + 2 /\ at["main"] - 2 \in 1..16
  BY <1>1, MainAt
<1>3. at["main"] = (at["main"] - 2) + 2
  BY <1>2
<1> QED
  BY <1>1, <1>2, <1>3, MainAt

----------------------------------------------------------------------------
\* In a test that asserts main goes on behind what it wanted, or is aborted.
GoesOn(r) ==
    /\ r \in At("main").want => /\ at' = [at EXCEPT !["main"] = @ + 1]
                                /\ aborted' = aborted
    /\ r \notin At("main").want => /\ at' = at
                                   /\ aborted' = {At("main")}
Waits == UNCHANGED <<at, aborted>>

\* A descriptor is as it was.
SameSocket(g) ==
    /\ conn'[g] = conn[g] /\ asked'[g] = asked[g] /\ unread'[g] = unread[g]
    /\ nonblock'[g] = nonblock[g]

\* socket() gives main a new socket, when there is one to give.
LEMMA SocketGiven ==
    ASSUME Shaped, Unheard, test \in Asserts, Run("main"), Open # Fd,
           At("main").do = "socket", At("main").last = Any, At("main").want = {"ok"},
           At("main").on \in Names
    PROVE  /\ test' = test /\ GoesOn("ok") /\ Unheard'
           /\ \E g \in Fd \ Open :
                 /\ var' = [var EXCEPT ![At("main").on] = g]
                 /\ Open' = Open \cup {g}
                 /\ conn'[g] = "idle" /\ ~nonblock'[g] /\ asked'[g] = 0
                 /\ \A h \in Fd : h # g => SameSocket(h)
<1>1. Socket("main")
  <2>1. "main" \in Threads
    BY DEF Threads
  <2>2. returned["main"] \in Any
    BY <2>1 DEF Shaped
  <2>3. ~NoSocket("main")
    BY DEF NoSocket
  <2> QED BY <2>1, <2>2, <2>3, Acts
<1>2. PICK g \in Fd \ Open :
        /\ var' = [var EXCEPT ![At("main").on] = g]
        /\ conn' = [conn EXCEPT ![g] = "idle"]
        /\ nonblock' = [nonblock EXCEPT ![g] = FALSE]
        /\ unread' = [unread EXCEPT ![g] = 0]
        /\ asked' = [asked EXCEPT ![g] = 0]
  BY <1>1 DEF Socket
<1>3. test' = test /\ GoesOn("ok")
  BY <1>1 DEF Socket, Return, GoesOn
<1>4. Open' = Open \cup {g}
  BY <1>2 DEF Shaped, Open
<1>5. conn'[g] = "idle" /\ ~nonblock'[g] /\ asked'[g] = 0 /\ unread'[g] = 0
  BY <1>2 DEF Shaped, Unheard, Blocking
<1>6. ASSUME NEW h \in Fd, h # g PROVE SameSocket(h)
  BY <1>2, <1>6 DEF Shaped, Unheard, Blocking, SameSocket
<1>7. /\ unread' \in [Fd -> Nat] /\ asked' \in [Fd -> Nat] /\ nonblock' \in [Fd -> BOOLEAN]
  BY <1>2 DEF Unheard
<1>8. ~Started("thread")'
  BY <1>3 DEF GoesOn, Unheard, Started, Shaped, Threads
<1>9. Unheard'
  BY <1>4, <1>5, <1>6, <1>7, <1>8 DEF Unheard, SameSocket, Open
<1> QED
  BY <1>2, <1>3, <1>4, <1>5, <1>6, <1>9

\* The calls on an open socket: connect() sends its SYN and waits, unless the socket
\* does not block; every other call leaves the connection as it is.
Connects(f) ==
    /\ At("main").do \in {"connect", "connect_invalid"} /\ conn[f] = "idle"
    /\ conn'[f] = IF At("main").do = "connect" THEN "syn" ELSE "invalid"
    /\ nonblock'[f] = nonblock[f]
    /\ Blocking(f) => Waits
    /\ ~Blocking(f) => GoesOn("inprogress")
Asks(f) ==
    /\ At("main").do \in {"connect", "connect_invalid"} => conn[f] # "idle"
    /\ conn'[f] = conn[f]
    /\ At("main").do # "nonblock" => nonblock'[f] = nonblock[f]
    /\ \E r \in Returns(At("main").do, f) :
          /\ GoesOn(r)
          /\ At("main").do = "nonblock" /\ r = "ok" => nonblock'[f]
          /\ asked'[f] = IF At("main").do = "send" /\ r = "ok" THEN asked[f] + 1 ELSE asked[f]

\* A call on an open socket changes that socket only, in one of the two ways.
LEMMA CallOnSocket ==
    ASSUME Shaped, Unheard, test \in Asserts, SendSyn("main") \/ OnSocket("main"),
           At("main").do # "bind", NEW f \in Open, f = var[At("main").on]
    PROVE  /\ UNCHANGED <<test, var>> /\ Open' = Open /\ Unheard'
           /\ \A h \in Fd : h # f => SameSocket(h)
           /\ (Connects(f) /\ asked'[f] = asked[f]) \/ Asks(f)
<1>1. /\ f \in Fd /\ at \in [Threads -> Nat] /\ {"main", "thread"} \subseteq Threads
      /\ conn \in [Fd -> {"free", "idle", "syn", "invalid", "up", "fin", "dead"}]
      /\ unread \in [Fd -> Nat] /\ asked \in [Fd -> Nat] /\ nonblock \in [Fd -> BOOLEAN]
  BY DEF Open, Shaped, Unheard, Threads
<1>2. ASSUME NEW r, GoesOn(r) PROVE ~Started("thread")'
  BY <1>1, <1>2 DEF GoesOn, Unheard, Started
<1>3. CASE SendSyn("main")
  <2>1. /\ At("main").do \in {"connect", "connect_invalid"} /\ conn[f] = "idle"
        /\ conn' = [conn EXCEPT ![f] = IF At("main").do = "connect" THEN "syn" ELSE "invalid"]
        /\ UNCHANGED <<test, var, nonblock, unread, asked>>
    BY <1>3 DEF SendSyn, Calls
  <2>2. IF nonblock[f] THEN Return("main", "inprogress") ELSE UNCHANGED threads
    BY <1>3 DEF SendSyn
  <2>3. nonblock[f] => GoesOn("inprogress")
    BY <2>2 DEF Return, GoesOn
  <2>4. ~nonblock[f] => Waits
    BY <2>2 DEF threads, Waits
  <2>5. Connects(f)
    BY <1>1, <2>1, <2>3, <2>4 DEF Connects, Blocking
  <2>6. Open' = Open
    BY <1>1, <2>1 DEF Open
  <2>7. ~Started("thread")'
    BY <1>2, <2>3, <2>4 DEF Waits, Started, Unheard
  <2>8. ASSUME NEW h \in Fd, h # f PROVE SameSocket(h)
    BY <1>1, <2>1, <2>8 DEF SameSocket, Blocking
  <2>9. Unheard'
    BY <1>1, <2>1, <2>6, <2>7 DEF Unheard
  <2> QED BY <2>1, <2>5, <2>6, <2>8, <2>9
<1>4. CASE OnSocket("main")
  <2>1. /\ At("main").do \in {"connect", "connect_invalid"} => conn[f] # "idle"
        /\ UNCHANGED <<test, conn>>
    BY <1>4 DEF OnSocket
  <2>2. PICK r \in Returns(At("main").do, f) :
          /\ Return("main", r)
          /\ var' = var
          /\ nonblock' = [nonblock EXCEPT ![f] = @ \/ (At("main").do = "nonblock" /\ r = "ok")]
          /\ asked' = [asked EXCEPT ![f] = IF At("main").do = "send" /\ r = "ok" THEN @ + 1 ELSE @]
          /\ IF r = "data"
             THEN \E k \in 1..unread[f] : unread' = [unread EXCEPT ![f] = @ - k]
             ELSE UNCHANGED unread
    BY <1>4 DEF OnSocket
  <2>3. GoesOn(r)
    BY <2>2 DEF Return, GoesOn
  <2>4. nonblock' \in [Fd -> BOOLEAN]
    BY <1>1, <2>2
  <2>5. /\ At("main").do # "nonblock" => nonblock'[f] = nonblock[f]
        /\ At("main").do = "nonblock" /\ r = "ok" => nonblock'[f]
    BY <1>1, <2>2 DEF Blocking
  <2>6. /\ asked' \in [Fd -> Nat] /\ asked'[f] >= asked[f]
        /\ asked'[f] = IF At("main").do = "send" /\ r = "ok" THEN asked[f] + 1 ELSE asked[f]
    BY <1>1, <2>2
  <2>7. unread' \in [Fd -> Nat] /\ (unread[f] = 0 => unread'[f] = 0)
    BY <1>1, <2>2
  <2>8. ASSUME NEW h \in Fd, h # f PROVE SameSocket(h)
    BY <1>1, <2>1, <2>2, <2>8 DEF SameSocket, Blocking
  <2>9. Open' = Open
    BY <2>1 DEF Open
  <2>10. Unheard'
    <3>1. ~Started("thread")'
      BY <1>2, <2>3
    <3>2. ASSUME NEW h \in Open
          PROVE  /\ conn'[h] \in {"idle", "syn", "invalid"} => unread'[h] = 0
                 /\ asked'[h] < 2 => unread'[h] = 0 /\ conn'[h] # "fin"
      <4>1. CASE h = f
        BY <1>1, <2>1, <2>6, <2>7, <4>1 DEF Unheard
      <4>2. CASE h # f
        BY <2>8, <4>2 DEF Unheard, SameSocket, Open
      <4> QED BY <4>1, <4>2
    <3> QED BY <2>4, <2>6, <2>7, <2>9, <3>1, <3>2 DEF Unheard
  <2>11. Asks(f)
    BY <2>1, <2>3, <2>5, <2>6 DEF Asks
  <2> QED BY <2>1, <2>2, <2>8, <2>9, <2>10, <2>11
<1> QED
  BY <1>3, <1>4

\* close() of a socket that is open, and of one that is not.
LEMMA CloseOnce ==
    ASSUME Shaped, Unheard, test \in Asserts, Run("main"),
           At("main").do = "close", At("main").last = Any, At("main").on \in Names
    PROVE  /\ UNCHANGED <<test, var>> /\ Unheard' /\ Open' \subseteq Open
           /\ var[At("main").on] \in Open => GoesOn("ok")
           /\ Open = {} => GoesOn("ebadf")
<1>1. Close("main")
  <2>1. returned["main"] \in Any /\ "main" \in Threads
    BY DEF Shaped, Threads
  <2> QED BY <2>1, Acts
<1>2. PICK f \in IF var[At("main").on] = Unset THEN Fd ELSE {var[At("main").on]} :
          IF conn[f] = "free"
          THEN Return("main", "ebadf") /\ UNCHANGED conn
          ELSE Return("main", "ok") /\ conn' = [conn EXCEPT ![f] = "free"]
  BY <1>1 DEF Close
<1>3. UNCHANGED <<test, var, nonblock, unread, asked>>
  BY <1>1 DEF Close
<1>4. f \in Fd
  BY <1>2 DEF Shaped
<1>5. conn[f] = "free" => GoesOn("ebadf") /\ conn' = conn
  BY <1>2 DEF Return, GoesOn
<1>6. conn[f] # "free" => GoesOn("ok") /\ conn' = [conn EXCEPT ![f] = "free"]
  BY <1>2 DEF Return, GoesOn
<1>7. \A h \in Fd : conn'[h] = conn[h] \/ conn'[h] = "free"
  BY <1>5, <1>6 DEF Shaped
<1>8. ~Started("thread")'
  <2>1. GoesOn("ok") \/ GoesOn("ebadf")
    BY <1>5, <1>6
  <2> QED BY <2>1 DEF GoesOn, Started, Unheard, Shaped, Threads
<1>9. Open' \subseteq Open
  BY <1>7 DEF Open
<1>10. Unheard'
  BY <1>3, <1>7, <1>8, <1>9 DEF Unheard, Open
<1>11. var[At("main").on] \in Open => GoesOn("ok")
  BY <1>2, <1>6, TestAssumption DEF Open
<1>12. Open = {} => GoesOn("ebadf")
  BY <1>4, <1>5 DEF Open
<1> QED
  BY <1>3, <1>9, <1>10, <1>11, <1>12

----------------------------------------------------------------------------
\* What the calls on an open socket return, by the state of its connection.
LEMMA Replies ==
    ASSUME Shaped, Unheard, NEW f \in Open
    PROVE  /\ Returns("nonblock", f) = {"ok"}
           /\ Returns("select_waiter", f) = {"none"}
           /\ Accepted(f) => Returns("send", f) = {"ok"}
           /\ Connectable(f) /\ Blocking(f) /\ conn[f] # "idle" =>
                 \A r \in Returns("connect", f) : r = "ok" /\ Accepted(f)
           /\ conn[f] \in {"syn", "up", "fin"} /\ asked[f] = 0 =>
                 \A r \in Returns("select", f) : r = "write" /\ Accepted(f)
           /\ conn[f] \in {"invalid", "dead"} => \A r \in Returns("select", f) : r = "error"
           /\ Accepted(f) /\ asked[f] = 0 => Returns("poll", f) = {"write"}
           /\ Accepted(f) /\ asked[f] = 1 => Returns("recv_timeout", f) = {"again"}
<1>1. /\ f \in Nat /\ f < f + 1 /\ ~(f < f) /\ conn[f] # "free"
      /\ conn[f] \in {"idle", "syn", "invalid"} => unread[f] = 0
      /\ asked[f] < 2 => unread[f] = 0 /\ conn[f] # "fin"
      /\ unread[f] \in Nat /\ asked[f] \in Nat
  BY TestAssumption DEF Open, Unheard
<1>2. Returns("nonblock", f) = {"ok"}
  BY <1>1 DEF Returns
<1>3. Returns("select_waiter", f) = {"none"}
  <2>1. Nfds("select_waiter", f) = f
    BY DEF Nfds
  <2>2. SelectReturns("select_waiter", f) = {"none"}
    BY <1>1, <2>1 DEF SelectReturns
  <2> QED BY <1>1, <2>2 DEF Returns
<1>4. ASSUME Accepted(f) PROVE Returns("send", f) = {"ok"}
  BY <1>1, <1>4 DEF Returns, Accepted
<1>5. ASSUME Connectable(f), Blocking(f), conn[f] # "idle", NEW r \in Returns("connect", f)
      PROVE  r = "ok" /\ Accepted(f)
  <2>1. Returns("connect", f) = ConnectReturns(f)
    BY <1>1 DEF Returns
  <2>2. ~nonblock[f]
    BY <1>5 DEF Blocking
  <2>3. conn[f] \in {"syn", "up", "fin"}
    BY <1>5 DEF Connectable
  <2>4. conn[f] = "syn" => ConnectReturns(f) = {}
    BY <2>2 DEF ConnectReturns
  <2>5. conn[f] \in {"up", "fin"} => ConnectReturns(f) = {"ok"}
    BY <2>2 DEF ConnectReturns
  <2> QED BY <1>5, <2>1, <2>3, <2>4, <2>5 DEF Accepted
<1>6. \A do \in {"select", "poll"} :
          Returns(do, f) = SelectReturns(do, f) /\ Kinds(do) = {"read", "write", "error"}
                             /\ Nfds(do, f) = f + 1
  <2>1. \A do \in {"select", "poll"} : Returns(do, f) = SelectReturns(do, f)
    BY <1>1 DEF Returns
  <2>2. \A do \in {"select", "poll"} : Kinds(do) = {"read", "write", "error"}
    BY DEF Kinds
  <2>3. \A do \in {"select", "poll"} : Nfds(do, f) = f + 1
    BY DEF Nfds
  <2> QED BY <2>1, <2>2, <2>3
<1>7. ASSUME Accepted(f), asked[f] = 0, NEW do \in {"select", "poll"}
      PROVE  Returns(do, f) = {"write"}
  <2>3. conn[f] = "up" /\ unread[f] = 0
    BY <1>1, <1>7 DEF Accepted
  <2>1. Ready(f) = {"write"}
    BY <2>3 DEF Ready
  <2>2. Found(Ready(f) \cap Kinds(do)) = "write" /\ Ready(f) \cap Kinds(do) # {}
    BY <1>6, <2>1 DEF Found
  <2> QED BY <1>1, <1>6, <2>2 DEF SelectReturns
<1>8. ASSUME conn[f] \in {"syn", "invalid"} PROVE Returns("select", f) = {}
  <2>1. Ready(f) = {}
    BY <1>1, <1>8 DEF Ready
  <2> QED BY <1>1, <1>6, <2>1 DEF SelectReturns
<1>9. ASSUME conn[f] = "dead" PROVE Returns("select", f) = {"error"}
  <2>1. "error" \in Ready(f)
    BY <1>9 DEF Ready
  <2>2. Found(Ready(f) \cap Kinds("select")) = "error" /\ Ready(f) \cap Kinds("select") # {}
    BY <1>6, <2>1 DEF Found
  <2> QED BY <1>1, <1>6, <2>2 DEF SelectReturns
<1>10. ASSUME Accepted(f), asked[f] = 1 PROVE Returns("recv_timeout", f) = {"again"}
  BY <1>1, <1>10 DEF Returns, ReceiveReturns, Accepted
<1>11. conn[f] \in {"syn", "up", "fin"} => conn[f] = "syn" \/ Accepted(f)
  BY DEF Accepted
<1> QED
  BY <1>2, <1>3, <1>4, <1>5, <1>7, <1>8, <1>9, <1>10, <1>11

\* Only so does a good server or the stack change a connection.
Moves(f) ==
    \/ conn'[f] = conn[f]
    \/ conn[f] = "syn" /\ conn'[f] = "up"
    \/ conn[f] = "up" /\ conn'[f] = "fin"
    \/ conn[f] = "invalid" /\ conn'[f] = "dead"

\* Nothing comes from a good server before it was asked.
LEMMA StackMoves ==
    ASSUME Shaped, Unheard, test \in Asserts, NEW f \in Fd, Stack(f)
    PROVE  /\ UNCHANGED <<test, at, aborted, var, nonblock, asked>> /\ Open' = Open
           /\ Unheard' /\ \A g \in Fd : Moves(g)
<1>1. /\ UNCHANGED <<test, at, aborted, var, nonblock, asked>> /\ Open' = Open
  BY StackQuiet DEF Stack, Establish, GiveUp, Respond, ServerCloses, threads
<1>2. CASE Establish(f)
  <2>1. conn[f] = "syn" /\ conn' = [conn EXCEPT ![f] = "up"] /\ unread' = unread
    BY <1>2 DEF Establish, Good
  <2>2. f \in Open
    BY <2>1 DEF Open
  <2> QED BY <1>1, <2>1, <2>2 DEF Unheard, Shaped, Moves, Started, Open
<1>3. CASE GiveUp(f)
  <2>1. conn[f] = "invalid" /\ conn' = [conn EXCEPT ![f] = "dead"] /\ unread' = unread
    BY <1>3 DEF GiveUp
  <2>2. f \in Open
    BY <2>1 DEF Open
  <2> QED BY <1>1, <2>1, <2>2 DEF Unheard, Shaped, Moves, Started, Open
<1>4. CASE Respond(f)
  <2>1. /\ conn[f] = "up" /\ asked[f] = 2 /\ conn' = conn
        /\ unread' = [unread EXCEPT ![f] = @ + 1]
    BY <1>4 DEF Respond, Answers, Good
  <2> QED BY <1>1, <2>1 DEF Unheard, Shaped, Moves, Started, Open
<1>5. CASE ServerCloses(f)
  <2>1. conn[f] = "up" /\ asked[f] = 2 /\ conn' = [conn EXCEPT ![f] = "fin"] /\ unread' = unread
    BY <1>5 DEF ServerCloses, Answers, Good
  <2> QED BY <1>1, <2>1 DEF Unheard, Shaped, Moves, Started, Open
<1> QED
  BY <1>2, <1>3, <1>4, <1>5, <1>1 DEF Stack

----------------------------------------------------------------------------
\* A test that does not assert is never aborted.
LEMMA NeverAborted ==
    ASSUME test \notin Asserts, [TestsNext]_testsVars
    PROVE  UNCHANGED <<test, aborted>>
<1>1. ASSUME NEW t \in Threads, Run(t) PROVE UNCHANGED <<test, aborted>>
  <2>1. \A r : Return(t, r) => aborted' = aborted
    BY DEF Return
  <2>2. CASE LeaveOut(t) \/ Spawn(t)
    BY <2>2 DEF LeaveOut, Spawn
  <2>3. CASE Socket(t) \/ NoSocket(t) \/ Wait(t) \/ NetifUp(t)
    BY <2>1, <2>3 DEF Socket, NoSocket, Wait, NetifUp
  <2>4. CASE SendSyn(t)
    BY <2>1, <2>4 DEF SendSyn, threads
  <2>5. CASE OnSocket(t)
    BY <2>1, <2>5 DEF OnSocket
  <2>6. CASE Close(t)
    <3>1. \E f : Return(t, "ebadf") \/ Return(t, "ok")
      BY <2>6 DEF Close
    <3> QED BY <2>1, <2>6, <3>1 DEF Close
  <2> QED BY <1>1, <2>2, <2>3, <2>4, <2>5, <2>6 DEF Run
<1>2. ASSUME NEW f \in Fd, Stack(f) PROVE UNCHANGED <<test, aborted>>
  BY <1>2 DEF Stack, Establish, GiveUp, Respond, ServerCloses, threads
<1>3. CASE UNCHANGED testsVars
  BY <1>3 DEF testsVars, threads
<1> QED
  BY <1>1, <1>2, <1>3 DEF TestsNext

\* What the invariant says of a socket at a call stays true while main is there and
\* only the stack and the server move.
LEMMA StillAt ==
    ASSUME Shaped, TwoSockets, test \in Asserts, AssertsInv,
           UNCHANGED <<test, aborted, var, nonblock, asked>>, Open' = Open,
           at'["main"] = at["main"], Unheard', \A g \in Fd : Moves(g)
    PROVE  AssertsInv'
<1>1. /\ Open \subseteq Fd /\ at["main"] \in Nat /\ Holding' = Holding
      /\ AskForSpeed' = AskForSpeed
  BY DEF Open, Shaped, Threads, Holding, AskForSpeed
<1>2. ASSUME NEW g \in Open
      PROVE  /\ Connectable(g) => Connectable(g)'
             /\ Accepted(g) => Accepted(g)'
             /\ Blocking(g)' <=> Blocking(g)
             /\ conn[g] = "idle" => conn'[g] = "idle"
             /\ conn[g] \in {"syn", "up", "fin"} => conn'[g] \in {"syn", "up", "fin"}
             /\ conn[g] \in {"invalid", "dead"} => conn'[g] \in {"invalid", "dead"}
  <2>1. Moves(g)
    BY <1>1
  <2> QED BY <2>1 DEF Moves, Connectable, Accepted, Blocking
<1>3. CASE test = "nonblocking"
  <2>1. NonblockingAt(at["main"], var[S]) /\ Unasked(at["main"], var[S])'
    BY <1>3 DEF AssertsInv, Unasked
  <2>2. CASE at["main"] \in Holding
    <3>1. var[S] \in Open
      BY <2>1, <2>2 DEF NonblockingAt
    <3>2. NonblockingAt(at["main"], var[S])'
      BY <1>1, <1>2, <2>1, <3>1 DEF NonblockingAt
    <3> QED BY <1>1, <1>3, <2>1, <3>2 DEF AssertsInv, AssertsHold
  <2>3. CASE at["main"] \notin Holding
    <3>1. NonblockingAt(at["main"], var[S])'
      BY <1>1, <1>3, <2>3 DEF NonblockingAt, Holding
    <3> QED BY <1>1, <1>3, <2>1, <3>1 DEF AssertsInv, AssertsHold
  <2> QED BY <2>2, <2>3
<1>4. CASE test = "testrecv"
  <2>1. TestRecvAt(at["main"], var[S])
    BY <1>4 DEF AssertsInv
  <2>2. CASE at["main"] \in Holding
    <3>1. var[S] \in Open
      BY <2>1, <2>2 DEF TestRecvAt
    <3>2. TestRecvAt(at["main"], var[S])'
      BY <1>1, <1>2, <2>1, <3>1 DEF TestRecvAt
    <3> QED BY <1>1, <1>4, <3>2 DEF AssertsInv, AssertsHold
  <2>3. CASE at["main"] \notin Holding
    <3>1. TestRecvAt(at["main"], var[S])'
      BY <1>1, <1>4, <2>3 DEF TestRecvAt, Holding
    <3> QED BY <1>1, <1>4, <3>1 DEF AssertsInv, AssertsHold
  <2> QED BY <2>2, <2>3
<1>5. CASE test = "twoselects"
  <2>1. TwoSelectsAt(at["main"], var[S1], var[S2])
    BY <1>5 DEF AssertsInv
  <2>2. /\ at["main"] \in 4..17 => var[S1] \in Open
        /\ at["main"] \in 5..18 => var[S2] \in Open
    BY <1>5 DEF TwoSockets
  <2>3. TwoSelectsAt(at["main"], var[S1], var[S2])'
    BY <1>1, <1>2, <2>1, <2>2 DEF TwoSelectsAt
  <2> QED BY <1>1, <1>5, <2>3 DEF AssertsInv, AssertsHold
<1> QED
  BY <1>3, <1>4, <1>5 DEF Asserts

\* The waiters find nothing, and the stack's thread makes no assertion.
LEMMA OthersAssertNothing ==
    ASSUME Shaped, Preserved, test \in Asserts, AssertsInv,
           NEW t \in Threads \ {"main"}, Run(t)
    PROVE  AssertsInv'
<1>1. /\ Unheard /\ Started(t) /\ ~Ended(t) /\ returned[t] \in Any
      /\ at \in [Threads -> Nat] /\ {"main", "thread"} \subseteq Threads
      /\ at[t] \in Nat
  BY Acts DEF AssertsInv, Shaped, Threads
<1>2. t # "thread"
  BY <1>1 DEF Unheard
<1>3. /\ UNCHANGED <<test, aborted, var, nonblock, asked, conn, unread>>
      /\ \E k : at' = [at EXCEPT ![t] = k]
  <2>1. CASE t = "tcpip"
    <3>1. Script(t) = TestInit /\ Len(TestInit) = 1
      BY <2>1 DEF Script, ScriptOf, Waiters, TestInit
    <3>2. at[t] = 1
      BY <1>1, <3>1 DEF Ended, Started
    <3>3. At(t) = Call("netif_up", S, Any)
      BY <3>1, <3>2 DEF At, TestInit
    <3>4. At(t).do = "netif_up" /\ At(t).want = Any /\ At(t).last = Any
      BY <3>3 DEF Call, When
    <3>5. NetifUp(t)
      BY <1>1, <3>4, Acts
    <3>6. Return(t, "ok") /\ "ok" \in Any
      BY <3>5 DEF NetifUp, Any
    <3> QED BY <3>4, <3>5, <3>6 DEF NetifUp, Return, stack
  <2>2. CASE t \in Waiters
    <3>1. Script(t) = SelectWaiter(t) /\ Len(SelectWaiter(t)) = 1
      BY <2>2 DEF Script, ScriptOf, Waiters, SelectWaiter
    <3>2. at[t] = 1
      BY <1>1, <3>1 DEF Ended, Started
    <3>3. At(t) = Call("select_waiter", SocketOf(t), {"none"})
      BY <3>1, <3>2 DEF At, SelectWaiter
    <3>4. /\ At(t).do = "select_waiter" /\ At(t).want = {"none"} /\ At(t).last = Any
          /\ At(t).on = SocketOf(t)
      BY <3>3 DEF Call, When
    <3>5. OnSocket(t)
      <4>1. ~SendSyn(t)
        BY <3>4 DEF SendSyn, Calls
      <4> QED BY <1>1, <3>4, <4>1, Acts
    <3>6. var[SocketOf(t)] \in Open
      <4>1. test = "twoselects"
        BY <1>1, <2>2 DEF Preserved, NoWaiters
      <4>2. at["main"] \in 10..16
        BY <1>1, <2>2, <4>1 DEF Preserved, TwoSockets, Waiters
      <4>3. Open = {var[S1], var[S2]}
        BY <4>1, <4>2 DEF Preserved, TwoSockets
      <4> QED BY <4>3 DEF SocketOf
    <3> DEFINE f == var[SocketOf(t)]
    <3>7. PICK r \in Returns("select_waiter", f) :
            /\ Return(t, r)
            /\ var' = var
            /\ nonblock' = [nonblock EXCEPT ![f] = @ \/ FALSE]
            /\ asked' = [asked EXCEPT ![f] = @]
            /\ r # "data" => unread' = unread
      BY <3>4, <3>5 DEF OnSocket
    <3>8. r = "none"
      BY <1>1, <3>6, Replies
    <3>9. nonblock' = nonblock
      <4>1. nonblock \in [Fd -> BOOLEAN] /\ f \in Fd
        BY <1>1, <3>6 DEF Unheard, Open
      <4>2. (nonblock[f] \/ FALSE) = nonblock[f]
        BY <4>1
      <4>3. nonblock' = [nonblock EXCEPT ![f] = nonblock[f]]
        BY <3>7, <4>2
      <4> QED BY <4>1, <4>3
    <3>10. asked' = asked
      BY <1>1, <3>7 DEF Unheard
    <3>11. aborted' = aborted /\ at' = [at EXCEPT ![t] = @ + 1]
      BY <3>4, <3>7, <3>8 DEF Return
    <3>12. UNCHANGED <<test, conn>>
      BY <3>5 DEF OnSocket
    <3> QED BY <3>7, <3>8, <3>9, <3>10, <3>11, <3>12
  <2> QED BY <1>2, <2>1, <2>2 DEF Threads
<1>4. at'["main"] = at["main"] /\ at'["thread"] = at["thread"]
  BY <1>1, <1>2, <1>3
<1>5. Open' = Open /\ Unheard' /\ \A g \in Fd : Moves(g)
  BY <1>1, <1>3, <1>4 DEF Open, Unheard, Moves, Started
<1> QED
  BY <1>3, <1>4, <1>5, StillAt DEF Preserved

\* main starts the stack's thread and waits for it; nothing is open yet.
LEMMA StartUpAssertsNothing ==
    ASSUME Shaped, Preserved, test \in Asserts, AssertsInv, Run("main"), at["main"] <= 2
    PROVE  AssertsInv'
<1>1. PICK n \in Nat : n >= 1 /\ List(TestOf(test), n)
  BY TestLists DEF Shaped
<1>2. /\ at \in [Threads -> Nat] /\ at["main"] \in {1, 2}
      /\ {"main", "tcpip", "thread"} \subseteq Threads /\ Unheard
      /\ returned["main"] \in Any
  BY <1>1, MainAt DEF Shaped, Threads, AssertsInv
<1>3. /\ UNCHANGED <<test, aborted, var, nonblock, asked, conn, unread>>
      /\ at'["main"] = at["main"] + 1 /\ at'["thread"] = at["thread"]
  <2>1. CASE at["main"] = 1
    <3>1. At("main").do = "spawn" /\ At("main").on = "tcpip" /\ At("main").last = Any
      BY <1>1, <2>1, MainAt DEF Call, When
    <3>2. Spawn("main")
      BY <1>2, <3>1, Acts
    <3> QED BY <1>2, <3>1, <3>2 DEF Spawn, stack
  <2>2. CASE at["main"] = 2
    <3>1. At("main").do = "wait" /\ At("main").want = Any /\ At("main").last = Any
      BY <1>1, <2>2, MainAt DEF Call, When
    <3>2. Wait("main")
      BY <1>2, <3>1, Acts
    <3>3. Return("main", "ok") /\ "ok" \in Any
      BY <3>2 DEF Wait, Any
    <3> QED BY <1>2, <3>1, <3>2, <3>3 DEF Wait, Return, stack
  <2> QED BY <1>2, <2>1, <2>2
<1>4. Unheard'
  BY <1>2, <1>3 DEF Unheard, Open, Started
<1>5. at'["main"] \in {2, 3}
  BY <1>2, <1>3
<1>6. /\ test' = "nonblocking" => NonblockingAt(at["main"], var[S])'
      /\ Unasked(at["main"], var[S])'
      /\ test' = "testrecv" => TestRecvAt(at["main"], var[S])'
      /\ TwoSelectsAt(at["main"], var[S1], var[S2])'
  BY <1>5 DEF NonblockingAt, Unasked, TestRecvAt, TwoSelectsAt, Holding
<1> QED
  BY <1>3, <1>4, <1>6 DEF AssertsInv, AssertsHold, AskForSpeed

\* A call of main on a socket that is open: CallOnSocket, of the step of main.
LEMMA CallOfMain ==
    ASSUME Shaped, Unheard, test \in Asserts, Run("main"), At("main").last = Any,
           At("main").do \notin {"socket", "close", "spawn", "wait", "netif_up", "bind"},
           NEW f \in Open, f = var[At("main").on]
    PROVE  /\ UNCHANGED <<test, var>> /\ Open' = Open /\ Unheard'
           /\ \A h \in Fd : h # f => SameSocket(h)
           /\ (Connects(f) /\ asked'[f] = asked[f]) \/ Asks(f)
<1>1. returned["main"] \in Any /\ "main" \in Threads
  BY DEF Shaped, Threads
<1>2. SendSyn("main") \/ OnSocket("main")
  BY <1>1, Acts
<1> QED
  BY <1>2, CallOnSocket

\* The one call of send() before the connection is found ends the test if it sends.
LEMMA StaysUnasked ==
    ASSUME Shaped, Preserved, AssertsInv, Run("main"), at["main"] > 2,
           test = "nonblocking", \E g, h \in Fd : g # h
    PROVE  Unasked(at["main"], var[S])'
<1> DEFINE c == At("main")
           f == var[S]
<1>1. PICK j \in 3..28 : j = at["main"] /\ c = NonblockingCall(j)
  BY NonblockingAtCall
<1>2. /\ test \in Asserts /\ Unheard /\ NonblockingAt(j, f) /\ Unasked(j, f)
      /\ S \in Names /\ at \in [Threads -> Nat] /\ "main" \in Threads
      /\ var \in [Names -> Fd \cup {Unset}] /\ returned["main"] \in Any
      /\ j \notin Holding => Open = {}
  BY <1>1, Variables DEF Asserts, AssertsInv, Shaped, Threads, Preserved, OneSocket
<1>3. c.last = Any /\ aborted = {}
  <2>1. c.last = Any
    BY <1>1 DEF NonblockingCall, Call, When
  <2> QED BY <2>1 DEF Run, Calls, LeaveOut, Socket, NoSocket, SendSyn, OnSocket, Close,
                      Spawn, Wait, NetifUp
<1>4. SUFFICES ASSUME aborted' = {}, at'["main"] \in 13..19
               PROVE  asked'[var'[S]] = 0
  BY DEF Unasked
<1>5. CASE j = 12
  <2>1. c.do = "socket" /\ c.on = S /\ c.want = {"ok"}
    BY <1>1, <1>5 DEF NonblockingCall, Call, When
  <2>2. Open = {} /\ Open # Fd
    BY <1>2, <1>5 DEF Holding
  <2>3. PICK g \in Fd \ Open : var' = [var EXCEPT ![S] = g] /\ asked'[g] = 0
    BY <1>2, <1>3, <2>1, <2>2, SocketGiven
  <2> QED BY <1>2, <2>3
<1>6. CASE j \in 13..19
  <2>1. /\ c.on = S /\ c.do \in {"nonblock", "connect", "send", "poll", "select"}
        /\ c.do = "send" => c.want = {"inprogress"}
    BY <1>1, <1>6 DEF NonblockingCall, Call, When
  <2>2. f \in Open /\ asked[f] = 0
    BY <1>2, <1>3, <1>6 DEF NonblockingAt, Unasked, Holding
  <2>3. /\ UNCHANGED var
        /\ (Connects(f) /\ asked'[f] = asked[f]) \/ Asks(f)
    BY <1>2, <1>3, <2>1, <2>2, CallOfMain
  <2>4. ASSUME Asks(f) PROVE asked'[f] = asked[f]
    <3>1. PICK r \in Returns(c.do, f) :
            /\ GoesOn(r)
            /\ asked'[f] = IF c.do = "send" /\ r = "ok" THEN asked[f] + 1 ELSE asked[f]
      BY <2>4 DEF Asks
    <3>2. ~(c.do = "send" /\ r = "ok")
      BY <1>4, <2>1, <3>1 DEF GoesOn
    <3> QED BY <3>1, <3>2
  <2> QED BY <2>2, <2>3, <2>4
<1>7. CASE j \notin 12..19
  <2>1. at'["main"] \in {j, j + 1}
    <3>1. /\ c.want \subseteq Any /\ ~LeaveOut("main") /\ c.do \notin {"spawn", "wait", "netif_up"}
      BY <1>1, <1>2, <1>3, <1>7 DEF NonblockingCall, Call, When, LeaveOut, Any
    <3>2. \A r : Return("main", r) => at'["main"] \in {j, j + 1}
      BY <1>1, <1>2, Returned
    <3>3. CASE c.do = "socket"
      <4>1. Socket("main") \/ NoSocket("main")
        BY <1>2, <3>1, <3>3, Acts
      <4> QED BY <3>2, <4>1 DEF Socket, NoSocket
    <3>4. CASE c.do = "close"
      <4>1. Close("main")
        BY <1>2, <3>1, <3>4, Acts
      <4> QED BY <3>2, <4>1 DEF Close
    <3>5. CASE c.do \notin {"socket", "close"}
      <4>1. SendSyn("main") \/ OnSocket("main")
        BY <1>2, <3>1, <3>5, Acts
      <4>2. CASE SendSyn("main")
        BY <1>1, <3>2, <4>2 DEF SendSyn, threads
      <4>3. CASE OnSocket("main")
        BY <3>2, <4>3 DEF OnSocket
      <4> QED BY <4>1, <4>2, <4>3
    <3> QED BY <3>3, <3>4, <3>5
  <2> QED BY <1>4, <1>7, <2>1
<1> QED
  BY <1>5, <1>6, <1>7

\* sockex_nonblocking_connect(): what each call returns is what the test wants, but
\* where it asks for speed.
LEMMA NonblockingAsserts ==
    ASSUME Shaped, Preserved, AssertsInv, Run("main"), at["main"] > 2,
           test = "nonblocking", \E g, h \in Fd : g # h
    PROVE  AssertsInv'
<1> DEFINE c == At("main")
           f == var[S]
<1>1. PICK j \in 3..28 : j = at["main"] /\ c = NonblockingCall(j)
  BY NonblockingAtCall
<1>2. /\ test \in Asserts /\ Unheard /\ NonblockingAt(j, f) /\ aborted \subseteq AskForSpeed
      /\ S \in Names /\ "main" \in Threads
      /\ at \in [Threads -> Nat] /\ var \in [Names -> Fd \cup {Unset}]
      /\ j \notin Holding => Open = {}
      /\ Open \subseteq Fd
  BY <1>1, Variables
  DEF Asserts, AssertsInv, AssertsHold, Shaped, Threads, Preserved, OneSocket, Open
<1>3. ASSUME NEW k, at'["main"] = k, test' = test, Unheard', NonblockingAt(k, f)',
             aborted' \subseteq AskForSpeed
      PROVE  AssertsInv'
  BY <1>3, StaysUnasked DEF AssertsInv, AssertsHold, AskForSpeed
<1>4. ASSUME NEW r, GoesOn(r)
      PROVE  /\ r \in c.want => at'["main"] = j + 1 /\ aborted' \subseteq AskForSpeed
             /\ r \notin c.want /\ c \in AskForSpeed =>
                   at'["main"] = j /\ aborted' \subseteq AskForSpeed
  BY <1>1, <1>2, <1>4 DEF GoesOn
<1>5. CASE j \in {3, 7, 12, 22}
  <2>1. c.do = "socket" /\ c.on = S /\ c.last = Any /\ c.want = {"ok"}
    BY <1>1, <1>5 DEF NonblockingCall, Call, When
  <2>2. Open = {} /\ Open # Fd
    BY <1>2, <1>5 DEF Holding
  <2>3. test' = test /\ GoesOn("ok") /\ Unheard'
    BY <1>2, <2>1, <2>2, SocketGiven
  <2>4. PICK g \in Fd \ Open :
            /\ var' = [var EXCEPT ![S] = g]
            /\ Open' = Open \cup {g}
            /\ conn'[g] = "idle" /\ ~nonblock'[g]
    BY <1>2, <2>1, <2>2, SocketGiven
  <2>5. var'[S] = g
    BY <1>2, <2>4
  <2>6. at'["main"] = j + 1 /\ aborted' \subseteq AskForSpeed
    BY <1>4, <2>1, <2>3
  <2>7. j + 1 \in {4, 8, 13, 23}
    BY <1>5
  <2>8. NonblockingAt(j + 1, g)'
    BY <2>4, <2>7 DEF NonblockingAt, Connectable, Blocking
  <2>9. NonblockingAt(j + 1, f)'
    BY <2>5, <2>8 DEF NonblockingAt
  <2> QED BY <1>3, <2>3, <2>6, <2>9
<1>6. CASE j = 11
  <2>1. c.do = "close" /\ c.on = S /\ c.last = Any /\ c.want = {"ebadf"}
    BY <1>1, <1>6 DEF NonblockingCall, Call, When
  <2>2. Open = {}
    BY <1>2, <1>6 DEF Holding
  <2>3. test' = test /\ Unheard' /\ GoesOn("ebadf")
    BY <1>2, <2>1, <2>2, CloseOnce
  <2>4. at'["main"] = 12 /\ aborted' \subseteq AskForSpeed
    BY <1>4, <1>6, <2>1, <2>3
  <2>5. NonblockingAt(12, f)'
    BY <2>3 DEF NonblockingAt, Holding
  <2> QED BY <1>3, <2>3, <2>4, <2>5
<1>7. CASE j \in {6, 10, 21, 28}
  <2>1. c.do = "close" /\ c.on = S /\ c.last = Any /\ c.want = {"ok"}
    BY <1>1, <1>7 DEF NonblockingCall, Call, When
  <2>2. f \in Open
    BY <1>2, <1>7 DEF NonblockingAt, Holding
  <2>3. test' = test /\ Unheard' /\ GoesOn("ok")
    BY <1>2, <2>1, <2>2, CloseOnce
  <2>4. at'["main"] = j + 1 /\ aborted' \subseteq AskForSpeed
    BY <1>4, <2>1, <2>3
  <2>5. j + 1 \in {7, 11, 22, 29}
    BY <1>7
  <2>6. NonblockingAt(j + 1, f)'
    BY <2>3, <2>5 DEF NonblockingAt, Holding
  <2> QED BY <1>3, <2>3, <2>4, <2>6
<1>8. CASE j \notin {3, 7, 12, 22} /\ j \notin {6, 10, 11, 21, 28}
  <2>1. /\ c.last = Any /\ c.on = S
        /\ c.do \notin {"socket", "close", "spawn", "wait", "netif_up", "bind"}
    BY <1>1, <1>8 DEF NonblockingCall, Call, When
  <2>2. f \in Open
    BY <1>1, <1>2, <1>8 DEF NonblockingAt, Holding
  <2>3. /\ UNCHANGED <<test, var>> /\ Open' = Open /\ Unheard'
        /\ Connects(f) \/ Asks(f)
    BY <1>2, <2>1, <2>2, CallOfMain
  <2>4. var'[S] = f
    BY <2>3
  <2>5. ASSUME NEW k \in Nat, at'["main"] = k, aborted' \subseteq AskForSpeed, NonblockingAt(k, f)'
        PROVE  AssertsInv'
    BY <1>3, <2>3, <2>5
  <2>6. CASE j \in {8, 13, 23}
    <3>1. c.do = "nonblock" /\ c.want = {"ok"}
      BY <1>1, <2>6 DEF NonblockingCall, Call, When
    <3>2. Asks(f)
      BY <2>3, <3>1 DEF Connects
    <3>3. /\ conn'[f] = conn[f] /\ GoesOn("ok") /\ nonblock'[f]
      BY <1>2, <2>2, <3>1, <3>2, Replies DEF Asks
    <3>4. at'["main"] = j + 1 /\ aborted' \subseteq AskForSpeed
      BY <1>4, <3>1, <3>3
    <3>5. j + 1 \in {9, 14, 24} /\ conn[f] = "idle"
      BY <1>2, <2>6 DEF NonblockingAt
    <3>6. NonblockingAt(j + 1, f)'
      BY <2>2, <2>3, <2>4, <3>3, <3>5 DEF NonblockingAt, Blocking
    <3> QED BY <2>5, <3>4, <3>5, <3>6
  <2>7. CASE j = 4
    <3>1. c.do = "connect" /\ c.want = {"ok"}
      BY <1>1, <2>7 DEF NonblockingCall, Call, When
    <3>2. Connectable(f) /\ Blocking(f)
      BY <1>2, <2>7 DEF NonblockingAt
    <3>3. CASE Connects(f)
      <4>1. conn'[f] = "syn" /\ ~nonblock'[f] /\ Waits
        <5>1. conn'[f] = "syn" /\ Waits
          BY <3>1, <3>2, <3>3 DEF Connects
        <5>2. nonblock'[f] = nonblock[f] /\ ~nonblock[f]
          BY <3>2, <3>3 DEF Connects, Blocking
        <5> QED BY <5>1, <5>2
      <4>2. NonblockingAt(4, f)'
        BY <2>2, <2>3, <2>4, <4>1 DEF NonblockingAt, Connectable, Blocking
      <4> QED BY <1>1, <1>2, <2>5, <2>7, <4>1, <4>2 DEF Waits
    <3>4. CASE Asks(f)
      <4>1. GoesOn("ok") /\ Accepted(f) /\ conn'[f] = conn[f]
        BY <1>2, <2>2, <3>1, <3>2, <3>4, Replies DEF Asks
      <4>2. at'["main"] = 5 /\ aborted' \subseteq AskForSpeed
        BY <1>4, <2>7, <3>1, <4>1
      <4>3. NonblockingAt(5, f)'
        BY <2>2, <2>3, <2>4, <4>1 DEF NonblockingAt, Accepted
      <4> QED BY <2>5, <4>2, <4>3
    <3> QED BY <2>3, <3>3, <3>4
  <2>8. CASE j \in {9, 14, 24}
    <3>1. /\ c.do \in {"connect", "connect_invalid"} /\ c.want = {"inprogress"}
          /\ j \in {9, 14} => c.do = "connect"
          /\ j = 24 => c.do = "connect_invalid"
      BY <1>1, <2>8 DEF NonblockingCall, Call, When
    <3>2. conn[f] = "idle" /\ ~Blocking(f)
      BY <1>2, <2>8 DEF NonblockingAt
    <3>3. Connects(f)
      BY <2>3, <3>1, <3>2 DEF Asks
    <3>4. /\ conn'[f] = (IF c.do = "connect" THEN "syn" ELSE "invalid")
          /\ GoesOn("inprogress")
      BY <3>2, <3>3 DEF Connects
    <3>5. at'["main"] = j + 1 /\ aborted' \subseteq AskForSpeed
      BY <1>4, <3>1, <3>4
    <3>6. CASE j \in {9, 14}
      <4>1. conn'[f] = "syn" /\ j + 1 \in {10, 15}
        BY <3>1, <3>4, <3>6
      <4>2. NonblockingAt(j + 1, f)'
        BY <2>2, <2>3, <2>4, <4>1 DEF NonblockingAt
      <4> QED BY <2>5, <3>5, <4>1, <4>2
    <3>7. CASE j = 24
      <4>1. conn'[f] = "invalid"
        BY <3>1, <3>4, <3>7
      <4>2. NonblockingAt(25, f)'
        BY <2>2, <2>3, <2>4, <4>1 DEF NonblockingAt
      <4> QED BY <2>5, <3>5, <3>7, <4>2
    <3> QED BY <2>8, <3>6, <3>7
  <2>9. CASE j \in {5, 20}
    <3>1. c.do = "send" /\ c.want = {"ok"}
      BY <1>1, <2>9 DEF NonblockingCall, Call, When
    <3>2. Accepted(f)
      BY <1>2, <2>9 DEF NonblockingAt
    <3>3. Asks(f)
      BY <2>3, <3>1 DEF Connects
    <3>4. GoesOn("ok")
      BY <1>2, <2>2, <3>1, <3>2, <3>3, Replies DEF Asks
    <3>5. at'["main"] = j + 1 /\ aborted' \subseteq AskForSpeed /\ j + 1 \in {6, 21}
      BY <1>4, <2>9, <3>1, <3>4
    <3>6. NonblockingAt(j + 1, f)'
      BY <2>2, <2>3, <2>4, <3>5 DEF NonblockingAt
    <3> QED BY <2>5, <3>5, <3>6
  <2>10. CASE j \in {15, 16, 17, 25, 26}
    <3>1. c.do \in {"send", "poll"} /\ c \in AskForSpeed
      BY <1>1, <2>10 DEF NonblockingCall, AskForSpeed, Call, When
    <3>2. Asks(f)
      BY <2>3, <3>1 DEF Connects
    <3>3. PICK r : GoesOn(r)
      BY <3>2 DEF Asks
    <3>4. conn'[f] = conn[f]
      BY <3>2 DEF Asks
    <3>5. PICK k \in {j, j + 1} : at'["main"] = k /\ aborted' \subseteq AskForSpeed
      BY <1>4, <3>1, <3>3
    <3>6. NonblockingAt(k, f)'
      <4>1. CASE j \in {15, 16, 17}
        <5>1. k \in {15, 16, 17, 18} /\ conn[f] \in {"syn", "up", "fin"}
          BY <1>2, <3>5, <4>1 DEF NonblockingAt
        <5> QED BY <2>2, <2>3, <2>4, <3>4, <5>1 DEF NonblockingAt
      <4>2. CASE j \in {25, 26}
        <5>1. k \in {25, 26, 27} /\ conn[f] \in {"invalid", "dead"}
          BY <1>2, <3>5, <4>2 DEF NonblockingAt
        <5> QED BY <2>2, <2>3, <2>4, <3>4, <5>1 DEF NonblockingAt
      <4> QED BY <2>10, <4>1, <4>2
    <3>7. k \in Nat
      BY <1>1, <3>5
    <3> QED BY <2>5, <3>5, <3>6, <3>7
  <2>11. CASE j \in {18, 19, 27}
    <3>1. /\ c.do \in {"select", "poll"} /\ c.do = (IF j = 19 THEN "poll" ELSE "select")
          /\ c.want = (IF j = 27 THEN {"error"} ELSE {"write"})
      BY <1>1, <2>11 DEF NonblockingCall, Call, When
    <3>2. Asks(f)
      BY <2>3, <3>1 DEF Connects
    <3>3. PICK r \in Returns(c.do, f) : GoesOn(r)
      BY <3>2 DEF Asks
    <3>4. conn'[f] = conn[f]
      BY <3>2 DEF Asks
    <3>5. CASE j = 27
      <4>1. conn[f] \in {"invalid", "dead"}
        BY <1>2, <3>5 DEF NonblockingAt
      <4>2. r = "error"
        BY <1>2, <2>2, <3>1, <3>3, <3>5, <4>1, Replies
      <4>3. at'["main"] = 28 /\ aborted' \subseteq AskForSpeed
        BY <1>4, <3>1, <3>3, <3>5, <4>2
      <4>4. NonblockingAt(28, f)'
        BY <2>2, <2>3, <2>4 DEF NonblockingAt
      <4> QED BY <2>5, <4>3, <4>4
    <3>6. CASE j \in {18, 19}
      <4>1. j = 18 => conn[f] \in {"syn", "up", "fin"}
        BY <1>2 DEF NonblockingAt
      <4>2. j = 19 => Accepted(f)
        BY <1>2 DEF NonblockingAt
      <4>6. asked[f] = 0
        <5>1. Unasked(j, f) /\ j \in 13..19
          BY <1>1, <3>6 DEF AssertsInv
        <5>2. aborted = {}
          BY DEF Run, Calls, LeaveOut, Socket, NoSocket, SendSyn, OnSocket, Close,
                 Spawn, Wait, NetifUp
        <5> QED BY <5>1, <5>2 DEF Unasked
      <4>3. r = "write" /\ Accepted(f)
        BY <1>2, <2>2, <3>1, <3>3, <3>6, <4>1, <4>2, <4>6, Replies
      <4>4. at'["main"] = j + 1 /\ aborted' \subseteq AskForSpeed /\ j + 1 \in {19, 20}
        BY <1>4, <3>1, <3>3, <3>6, <4>3
      <4>5. NonblockingAt(j + 1, f)'
        BY <2>2, <2>3, <2>4, <3>4, <4>3, <4>4 DEF NonblockingAt, Accepted
      <4> QED BY <2>5, <4>4, <4>5
    <3> QED BY <2>11, <3>5, <3>6
  <2> QED BY <1>1, <1>8, <2>6, <2>7, <2>8, <2>9, <2>10, <2>11
<1> QED
  BY <1>5, <1>6, <1>7, <1>8

\* sockex_testrecv(): half a request is not answered; then the test asks for speed.
LEMMA TestRecvAsserts ==
    ASSUME Shaped, Preserved, AssertsInv, Run("main"), at["main"] > 2,
           test = "testrecv", \E g, h \in Fd : g # h
    PROVE  AssertsInv'
<1> DEFINE c == At("main")
           f == var[S]
<1>1. PICK j \in 3..12 : j = at["main"] /\ c = TestRecv[j - 2]
  BY TestRecvAtCall
<1>2. /\ test \in Asserts /\ Unheard /\ TestRecvAt(j, f) /\ aborted \subseteq AskForSpeed
      /\ S \in Names /\ "main" \in Threads
      /\ at \in [Threads -> Nat] /\ var \in [Names -> Fd \cup {Unset}]
      /\ j \notin Holding => Open = {}
      /\ Open \subseteq Fd
  BY <1>1, Variables
  DEF Asserts, AssertsInv, AssertsHold, Shaped, Threads, Preserved, OneSocket, Open
<1>3. ASSUME NEW k, at'["main"] = k, test' = test, Unheard', TestRecvAt(k, f)',
             aborted' \subseteq AskForSpeed
      PROVE  AssertsInv'
  BY <1>3 DEF AssertsInv, AssertsHold, AskForSpeed
<1>4. ASSUME NEW r, GoesOn(r)
      PROVE  /\ r \in c.want => at'["main"] = j + 1 /\ aborted' \subseteq AskForSpeed
             /\ r \notin c.want /\ c \in AskForSpeed =>
                   at'["main"] = j /\ aborted' \subseteq AskForSpeed
  BY <1>1, <1>2, <1>4 DEF GoesOn
<1>5. CASE j = 3
  <2>1. c.do = "socket" /\ c.on = S /\ c.last = Any /\ c.want = {"ok"}
    BY <1>1, <1>5 DEF TestRecv, Call, When
  <2>2. Open = {} /\ Open # Fd
    BY <1>2, <1>5 DEF Holding
  <2>3. test' = test /\ GoesOn("ok") /\ Unheard'
    BY <1>2, <2>1, <2>2, SocketGiven
  <2>4. PICK g \in Fd \ Open :
            /\ var' = [var EXCEPT ![S] = g]
            /\ Open' = Open \cup {g}
            /\ conn'[g] = "idle" /\ ~nonblock'[g] /\ asked'[g] = 0
    BY <1>2, <2>1, <2>2, SocketGiven
  <2>5. var'[S] = g
    BY <1>2, <2>4
  <2>6. at'["main"] = 4 /\ aborted' \subseteq AskForSpeed
    BY <1>4, <1>5, <2>1, <2>3
  <2>7. TestRecvAt(4, f)'
    BY <2>4, <2>5 DEF TestRecvAt, Connectable, Blocking
  <2> QED BY <1>3, <2>3, <2>6, <2>7
<1>6. CASE j = 12
  <2>1. c.do = "close" /\ c.on = S /\ c.last = Any /\ c.want = {"ok"}
    BY <1>1, <1>6 DEF TestRecv, Call, When
  <2>2. f \in Open
    BY <1>2, <1>6 DEF TestRecvAt, Holding
  <2>3. test' = test /\ Unheard' /\ GoesOn("ok")
    BY <1>2, <2>1, <2>2, CloseOnce
  <2>4. at'["main"] = 13 /\ aborted' \subseteq AskForSpeed
    BY <1>4, <1>6, <2>1, <2>3
  <2>5. TestRecvAt(13, f)'
    BY <2>3 DEF TestRecvAt, Holding
  <2> QED BY <1>3, <2>3, <2>4, <2>5
<1>7. CASE j = 11 /\ LeaveOut("main")
  <2>1. /\ UNCHANGED <<test, aborted, var, nonblock, asked, conn, unread>>
        /\ at' = [at EXCEPT !["main"] = @ + 1]
    BY <1>7 DEF LeaveOut, stack
  <2>2. at'["main"] = 12 /\ at'["thread"] = at["thread"]
    <3>1. "thread" \in Threads /\ at["main"] = 11
      BY <1>1, <1>7 DEF Threads
    <3> QED BY <1>2, <2>1, <3>1
  <2>3. Unheard' /\ Open' = Open
    BY <1>2, <2>1, <2>2 DEF Unheard, Open, Started
  <2>4. f \in Open
    BY <1>2, <1>7 DEF TestRecvAt, Holding
  <2>5. TestRecvAt(12, f)'
    BY <2>1, <2>3, <2>4 DEF TestRecvAt
  <2> QED BY <1>2, <1>3, <2>1, <2>2, <2>3, <2>5
<1>8. CASE j \in 4..11 /\ ~(j = 11 /\ LeaveOut("main"))
  <2>1. /\ c.on = S
        /\ c.do \notin {"socket", "close", "spawn", "wait", "netif_up", "bind"}
        /\ j \in 4..10 => c.last = Any
    BY <1>1, <1>8 DEF TestRecv, Call, When
  <2>2. f \in Open
    BY <1>1, <1>2, <1>8 DEF TestRecvAt, Holding
  <2>3. SendSyn("main") \/ OnSocket("main")
    <3>1. returned["main"] \in Any
      BY <1>2 DEF Shaped
    <3> QED BY <1>2, <1>8, <2>1, <3>1, Acts
  <2>4. /\ UNCHANGED <<test, var>> /\ Open' = Open /\ Unheard'
        /\ (Connects(f) /\ asked'[f] = asked[f]) \/ Asks(f)
    BY <1>2, <2>1, <2>2, <2>3, CallOnSocket
  <2>5. var'[S] = f
    BY <2>4
  <2>6. ASSUME NEW k \in Nat, at'["main"] = k, aborted' \subseteq AskForSpeed, TestRecvAt(k, f)'
        PROVE  AssertsInv'
    BY <1>3, <2>4, <2>6
  <2>7. CASE j = 4
    <3>1. c.do = "connect" /\ c.want = {"ok"}
      BY <1>1, <2>7 DEF TestRecv, Call, When
    <3>2. Connectable(f) /\ Blocking(f) /\ asked[f] = 0
      BY <1>2, <2>7 DEF TestRecvAt
    <3>3. CASE Connects(f) /\ asked'[f] = asked[f]
      <4>1. conn'[f] = "syn" /\ ~nonblock'[f] /\ Waits
        <5>1. conn'[f] = "syn" /\ Waits
          BY <3>1, <3>2, <3>3 DEF Connects
        <5>2. nonblock'[f] = nonblock[f] /\ ~nonblock[f]
          BY <3>2, <3>3 DEF Connects, Blocking
        <5> QED BY <5>1, <5>2
      <4>2. TestRecvAt(4, f)'
        BY <2>2, <2>4, <2>5, <3>2, <3>3, <4>1 DEF TestRecvAt, Connectable, Blocking
      <4> QED BY <1>1, <1>2, <2>6, <2>7, <4>1, <4>2 DEF Waits
    <3>4. CASE Asks(f)
      <4>1. GoesOn("ok") /\ Accepted(f) /\ conn'[f] = conn[f] /\ asked'[f] = 0
        BY <1>2, <2>2, <3>1, <3>2, <3>4, Replies DEF Asks
      <4>2. at'["main"] = 5 /\ aborted' \subseteq AskForSpeed
        BY <1>4, <2>7, <3>1, <4>1
      <4>3. TestRecvAt(5, f)'
        BY <2>2, <2>4, <2>5, <4>1 DEF TestRecvAt, Accepted
      <4> QED BY <2>6, <4>2, <4>3
    <3> QED BY <2>4, <3>3, <3>4
  <2>8. CASE j \in {5, 7}
    <3>1. c.do = "send" /\ c.want = {"ok"}
      BY <1>1, <2>8 DEF TestRecv, Call, When
    <3>2. Accepted(f) /\ (j = 5 => asked[f] = 0)
      BY <1>2, <2>8 DEF TestRecvAt
    <3>3. Asks(f)
      BY <2>4, <3>1 DEF Connects
    <3>4. GoesOn("ok") /\ conn'[f] = conn[f] /\ asked'[f] = asked[f] + 1
      BY <1>2, <2>2, <3>1, <3>2, <3>3, Replies DEF Asks
    <3>5. at'["main"] = j + 1 /\ aborted' \subseteq AskForSpeed /\ j + 1 \in {6, 8}
      BY <1>4, <2>8, <3>1, <3>4
    <3>6. TestRecvAt(j + 1, f)'
      BY <2>2, <2>4, <2>5, <3>2, <3>4, <3>5 DEF TestRecvAt, Accepted
    <3> QED BY <2>6, <3>5, <3>6
  <2>9. CASE j = 6
    <3>1. c.do = "recv_timeout" /\ c.want = {"again"}
      BY <1>1, <2>9 DEF TestRecv, Call, When
    <3>2. Accepted(f) /\ asked[f] = 1
      BY <1>2, <2>9 DEF TestRecvAt
    <3>3. Asks(f)
      BY <2>4, <3>1 DEF Connects
    <3>4. GoesOn("again") /\ conn'[f] = conn[f] /\ asked'[f] = 1
      BY <1>2, <2>2, <3>1, <3>2, <3>3, Replies DEF Asks
    <3>5. at'["main"] = 7 /\ aborted' \subseteq AskForSpeed
      BY <1>4, <2>9, <3>1, <3>4
    <3>6. TestRecvAt(7, f)'
      BY <2>2, <2>4, <2>5, <3>2, <3>4 DEF TestRecvAt, Accepted
    <3> QED BY <2>6, <3>5, <3>6
  <2>10. CASE j \in {8, 9, 10, 11}
    <3>1. /\ c.do \in {"recv_timeout", "select_read"}
          /\ j # 10 => c \in AskForSpeed
          /\ j = 10 => c.do = "recv_timeout" /\ c.want = Any
      <4>1. j # 10 => j - 2 \in {6, 7, 9}
        BY <2>10
      <4>2. j # 10 => c \in AskForSpeed
        BY <1>1, <4>1 DEF AskForSpeed
      <4> QED BY <1>1, <2>10, <4>2 DEF TestRecv, Call, When
    <3>2. Asks(f)
      BY <2>4, <3>1 DEF Connects
    <3>3. PICK r \in Returns(c.do, f) : GoesOn(r)
      BY <3>2 DEF Asks
    <3>4. r \in Any
      BY <3>3, Results
    <3>5. PICK k \in {j, j + 1} : at'["main"] = k /\ aborted' \subseteq AskForSpeed
      BY <1>4, <3>1, <3>3, <3>4
    <3>6. k \in 8..12
      BY <2>10, <3>5
    <3>7. TestRecvAt(k, f)'
      BY <2>2, <2>4, <2>5, <3>6 DEF TestRecvAt
    <3> QED BY <2>6, <3>5, <3>6, <3>7
  <2> QED BY <1>8, <2>7, <2>8, <2>9, <2>10
<1> QED
  BY <1>5, <1>6, <1>7, <1>8

\* sockex_testtwoselects(): both sockets get connected, and the waiters are waited for.
LEMMA TwoSelectsAsserts ==
    ASSUME Shaped, Preserved, AssertsInv, Run("main"), at["main"] > 2,
           test = "twoselects", \E g, h \in Fd : g # h
    PROVE  AssertsInv'
<1> DEFINE c == At("main")
           f1 == var[S1]
           f2 == var[S2]
<1>1. PICK j \in 3..18 : j = at["main"] /\ c = TwoSelects[j - 2]
  BY TwoSelectsAtCall
<1>2. /\ test \in Asserts /\ Unheard /\ TwoSelectsAt(j, f1, f2) /\ aborted \subseteq AskForSpeed
      /\ S1 \in Names /\ S2 \in Names /\ S1 # S2 /\ {"main", "thread"} \subseteq Threads
      /\ Waiters \subseteq Threads /\ "main" \notin Waiters /\ "thread" \notin Waiters
      /\ at \in [Threads -> Nat] /\ var \in [Names -> Fd \cup {Unset}]
      /\ Open \subseteq Fd /\ returned["main"] \in Any
  BY <1>1, Variables DEF Asserts, AssertsInv, AssertsHold, Shaped, Threads, Waiters, Open
<1>3. /\ Open = (IF j \in 4..17 THEN {f1} ELSE {}) \cup (IF j \in 5..18 THEN {f2} ELSE {})
      /\ j \in 5..17 => f1 # f2
  BY <1>1 DEF Preserved, TwoSockets
<1>4. ASSUME NEW k, at'["main"] = k, test' = test, Unheard', TwoSelectsAt(k, f1, f2)',
             aborted' \subseteq AskForSpeed
      PROVE  AssertsInv'
  BY <1>4 DEF AssertsInv, AssertsHold, AskForSpeed
<1>5. ASSUME NEW r \in c.want, GoesOn(r)
      PROVE  at'["main"] = j + 1 /\ aborted' \subseteq AskForSpeed
  BY <1>1, <1>2, <1>5 DEF GoesOn
<1>6. CASE j \in {3, 4}
  <2>1. /\ c.do = "socket" /\ c.last = Any /\ c.want = {"ok"}
        /\ c.on = IF j = 3 THEN S1 ELSE S2
    BY <1>1, <1>6, TwoSelectsCalls
  <2>2. Open # Fd
    <3>1. Open = {} \/ Open = {f1}
      BY <1>3, <1>6
    <3> QED BY <3>1
  <2>3. test' = test /\ GoesOn("ok") /\ Unheard'
    BY <1>2, <2>1, <2>2, SocketGiven
  <2>4. PICK g \in Fd \ Open :
            /\ var' = [var EXCEPT ![c.on] = g]
            /\ conn'[g] = "idle" /\ ~nonblock'[g]
            /\ \A h \in Fd : h # g => SameSocket(h)
    BY <1>2, <2>1, <2>2, SocketGiven
  <2>5. at'["main"] = j + 1 /\ aborted' \subseteq AskForSpeed
    BY <1>5, <2>1, <2>3
  <2>6. Connectable(g)'
    BY <2>4 DEF Connectable
  <2>7. CASE j = 3
    <3>1. var'[S1] = g
      BY <1>2, <2>1, <2>4, <2>7
    <3>2. TwoSelectsAt(4, f1, f2)'
      BY <2>4, <2>6, <3>1 DEF TwoSelectsAt, Connectable, Blocking
    <3> QED BY <1>4, <2>3, <2>5, <2>7, <3>2
  <2>8. CASE j = 4
    <3>1. var'[S2] = g /\ var'[S1] = f1
      BY <1>2, <2>1, <2>4, <2>8
    <3>2. f1 \in Open /\ Connectable(f1) /\ Blocking(f1)
      BY <1>2, <1>3, <2>8 DEF TwoSelectsAt
    <3>3. SameSocket(f1)
      BY <1>2, <2>4, <3>2
    <3>4. conn'[f1] = conn[f1] /\ ~nonblock'[f1]
      <4>1. nonblock'[f1] = nonblock[f1] /\ ~nonblock[f1]
        BY <3>2, <3>3 DEF SameSocket, Blocking
      <4> QED BY <3>3, <4>1 DEF SameSocket
    <3>5. TwoSelectsAt(5, f1, f2)'
      BY <2>4, <2>6, <3>1, <3>2, <3>4 DEF TwoSelectsAt, Connectable, Blocking
    <3> QED BY <1>4, <2>3, <2>5, <2>8, <3>5
  <2> QED BY <1>6, <2>7, <2>8
<1>7. CASE j \in {5, 6, 7, 8}
  <2> DEFINE f == IF j \in {5, 7} THEN f1 ELSE f2
  <2>1. /\ c.do = (IF j \in {5, 6} THEN "connect" ELSE "send")
        /\ c.on = (IF j \in {5, 7} THEN S1 ELSE S2)
        /\ c.last = Any /\ c.want = {"ok"}
    BY <1>1, <1>7, TwoSelectsCalls DEF TwoSelects, Call, When
  <2>2. f \in Open /\ f1 \in Open /\ f2 \in Open /\ f1 # f2 /\ f = var[c.on]
    BY <1>3, <1>7, <2>1
  <2>3. /\ UNCHANGED <<test, var>> /\ Unheard' /\ \A h \in Fd : h # f => SameSocket(h)
        /\ Connects(f) \/ Asks(f)
    BY <1>2, <2>1, <2>2, CallOfMain
  <2>4. var'[S1] = f1 /\ var'[S2] = f2
    BY <2>3
  <2>5. CASE j \in {7, 8}
    <3>1. Accepted(f) /\ c.do = "send" /\ Asks(f)
      BY <1>2, <2>1, <2>3, <2>5 DEF TwoSelectsAt, Connects
    <3>2. GoesOn("ok") /\ conn'[f] = conn[f]
      BY <1>2, <2>2, <3>1, Replies DEF Asks
    <3>3. at'["main"] = j + 1 /\ aborted' \subseteq AskForSpeed
      BY <1>5, <2>1, <3>2
    <3>4. CASE j = 7
      <4>1. Accepted(f2) /\ SameSocket(f2)
        BY <1>2, <2>2, <2>3, <3>4 DEF TwoSelectsAt
      <4>2. conn'[f2] = conn[f2]
        BY <4>1 DEF SameSocket
      <4>3. TwoSelectsAt(8, f1, f2)'
        BY <2>4, <4>1, <4>2 DEF TwoSelectsAt, Accepted
      <4> QED BY <1>4, <2>3, <3>3, <3>4, <4>3
    <3>5. CASE j = 8
      <4>1. TwoSelectsAt(9, f1, f2)'
        BY DEF TwoSelectsAt
      <4> QED BY <1>4, <2>3, <3>3, <3>5, <4>1
    <3> QED BY <2>5, <3>4, <3>5
  <2>6. CASE j \in {5, 6}
    <3>1. c.do = "connect" /\ Connectable(f) /\ Blocking(f)
      BY <1>2, <2>1, <2>6 DEF TwoSelectsAt
    <3>2. /\ j = 5 => Connectable(f2) /\ Blocking(f2) /\ SameSocket(f2)
          /\ j = 6 => Accepted(f1) /\ SameSocket(f1)
      BY <1>2, <2>2, <2>3, <2>6 DEF TwoSelectsAt
    <3>3. /\ j = 5 => conn'[f2] = conn[f2] /\ ~nonblock'[f2]
          /\ j = 6 => conn'[f1] = conn[f1]
      <4>1. j = 5 => conn'[f2] = conn[f2] /\ nonblock'[f2] = nonblock[f2] /\ ~nonblock[f2]
        BY <3>2 DEF SameSocket, Blocking
      <4>2. j = 6 => conn'[f1] = conn[f1]
        BY <3>2 DEF SameSocket
      <4> QED BY <4>1, <4>2
    <3>4. CASE Connects(f)
      <4>1. conn'[f] = "syn" /\ ~nonblock'[f] /\ Waits
        <5>1. conn'[f] = "syn" /\ Waits
          BY <3>1, <3>4 DEF Connects
        <5>2. nonblock'[f] = nonblock[f] /\ ~nonblock[f]
          BY <3>1, <3>4 DEF Connects, Blocking
        <5> QED BY <5>1, <5>2
      <4>2. TwoSelectsAt(j, f1, f2)'
        <5>1. CASE j = 5
          <6>1. conn'[f1] = "syn" /\ ~nonblock'[f1] /\ ~nonblock'[f2]
            BY <3>3, <4>1, <5>1 DEF Blocking
          <6> QED BY <2>4, <3>2, <3>3, <5>1, <6>1 DEF TwoSelectsAt, Connectable, Blocking
        <5>2. CASE j = 6
          <6>1. conn'[f2] = "syn" /\ ~nonblock'[f2]
            BY <4>1, <5>2 DEF Blocking
          <6> QED BY <2>4, <3>2, <3>3, <5>2, <6>1 DEF TwoSelectsAt, Connectable, Accepted, Blocking
        <5> QED BY <2>6, <5>1, <5>2
      <4> QED BY <1>1, <1>2, <1>4, <2>3, <4>1, <4>2 DEF Waits
    <3>5. CASE Asks(f)
      <4>1. GoesOn("ok") /\ Accepted(f) /\ conn'[f] = conn[f]
        BY <1>2, <2>2, <3>1, <3>5, Replies DEF Asks
      <4>2. at'["main"] = j + 1 /\ aborted' \subseteq AskForSpeed
        BY <1>5, <2>1, <4>1
      <4>3. CASE j = 5
        <5>1. conn'[f1] \in {"up", "fin"} /\ ~nonblock'[f2]
          BY <3>3, <4>1, <4>3 DEF Accepted, Blocking
        <5>2. TwoSelectsAt(6, f1, f2)'
          BY <2>4, <3>2, <3>3, <4>3, <5>1 DEF TwoSelectsAt, Connectable, Accepted, Blocking
        <5> QED BY <1>4, <2>3, <4>2, <4>3, <5>2
      <4>4. CASE j = 6
        <5>1. conn'[f2] \in {"up", "fin"}
          BY <4>1, <4>4 DEF Accepted
        <5>2. TwoSelectsAt(7, f1, f2)'
          BY <2>4, <3>2, <3>3, <4>4, <5>1 DEF TwoSelectsAt, Accepted
        <5> QED BY <1>4, <2>3, <4>2, <4>4, <5>2
      <4> QED BY <2>6, <4>3, <4>4
    <3> QED BY <2>3, <3>4, <3>5
  <2> QED BY <1>7, <2>5, <2>6
<1>8. CASE j \in 9..16
  <2>1. /\ c.last = Any
        /\ j \in {9, 10, 11, 12} => c.do = "spawn" /\ c.on \in Waiters
        /\ j \in {13, 14, 15, 16} => c.do = "wait" /\ c.want = Any
    BY <1>1, <1>8, TwoSelectsCalls DEF Waiters
  <2>2. /\ UNCHANGED <<test, aborted, conn, nonblock, unread, asked>>
        /\ at'["main"] = j + 1 /\ at'["thread"] = at["thread"]
    <3>1. CASE j \in {9, 10, 11, 12}
      <4>1. Spawn("main") /\ c.on \in Waiters
        BY <1>2, <2>1, <3>1, Acts
      <4> QED BY <1>1, <1>2, <4>1 DEF Spawn, stack
    <3>2. CASE j \in {13, 14, 15, 16}
      <4>1. Wait("main") /\ "ok" \in c.want
        BY <1>2, <2>1, <3>2, Acts DEF Any
      <4> QED BY <1>1, <1>2, <4>1 DEF Wait, Return, stack
    <3> QED BY <1>8, <3>1, <3>2
  <2>3. Unheard'
    BY <1>2, <2>2 DEF Unheard, Open, Started
  <2>4. j + 1 \in 10..17
    BY <1>8
  <2>5. TwoSelectsAt(j + 1, f1, f2)'
    BY <2>4 DEF TwoSelectsAt
  <2> QED BY <1>2, <1>4, <2>2, <2>3, <2>5
<1>9. CASE j \in {17, 18}
  <2>1. /\ c.do = "close" /\ c.last = Any /\ c.want = {"ok"}
        /\ c.on = IF j = 17 THEN S1 ELSE S2
    BY <1>1, <1>9, TwoSelectsCalls
  <2>2. var[c.on] \in Open /\ c.on \in Names
    BY <1>2, <1>3, <1>9, <2>1
  <2>3. test' = test /\ Unheard' /\ GoesOn("ok")
    BY <1>2, <2>1, <2>2, CloseOnce
  <2>4. at'["main"] = j + 1 /\ aborted' \subseteq AskForSpeed /\ j + 1 \in {18, 19}
    BY <1>5, <1>9, <2>1, <2>3
  <2>5. TwoSelectsAt(j + 1, f1, f2)'
    BY <2>4 DEF TwoSelectsAt
  <2> QED BY <1>4, <2>3, <2>4, <2>5
<1> QED
  BY <1>6, <1>7, <1>8, <1>9

\* With two descriptors to give, no assertion fails in sockex_nonblocking_connect(),
\* sockex_testrecv() and sockex_testtwoselects() but those that ask for speed
\* (AssertsHold); with fewer, socket() fails and they assert that it does not.
THEOREM AssertionsHold ==
    ASSUME \E g, h \in Fd : g # h
    PROVE  TestsSpec => []AssertsHold
<1>1. TestsInit => AssertsInv
  <2> SUFFICES ASSUME TestsInit PROVE AssertsInv
    OBVIOUS
  <2>1. Open = {} /\ at["main"] = 1 /\ at["thread"] = 0 /\ aborted = {}
    BY DEF TestsInit, Open, Threads
  <2>2. Unheard
    BY <2>1 DEF TestsInit, Unheard, Started
  <2>3. /\ test = "nonblocking" => NonblockingAt(at["main"], var[S])
        /\ test = "testrecv" => TestRecvAt(at["main"], var[S])
        /\ TwoSelectsAt(at["main"], var[S1], var[S2])
        /\ Unasked(at["main"], var[S])
    BY <2>1 DEF NonblockingAt, Unasked, TestRecvAt, TwoSelectsAt, Holding
  <2> QED BY <2>1, <2>2, <2>3 DEF AssertsInv, AssertsHold
<1>2. AssertsInv /\ TestsInv /\ [TestsNext]_testsVars => AssertsInv'
  <2> SUFFICES ASSUME AssertsInv, Shaped, Preserved, [TestsNext]_testsVars PROVE AssertsInv'
    BY DEF TestsInv, Preserved
  <2>1. CASE test \notin Asserts
    <3>1. UNCHANGED <<test, aborted>>
      BY <2>1, NeverAborted
    <3> QED BY <2>1, <3>1 DEF AssertsInv, AssertsHold, AskForSpeed, Asserts
  <2>2. CASE test \in Asserts
    <3>1. ASSUME Run("main") PROVE AssertsInv'
      <4>1. at["main"] \in Nat
        BY DEF Shaped, Threads
      <4>2. CASE at["main"] <= 2
        BY <2>2, <3>1, <4>2, StartUpAssertsNothing
      <4>3. CASE at["main"] > 2
        BY <2>2, <3>1, <4>3, NonblockingAsserts, TestRecvAsserts, TwoSelectsAsserts DEF Asserts
      <4> QED BY <4>1, <4>2, <4>3
    <3>2. ASSUME NEW t \in Threads \ {"main"}, Run(t) PROVE AssertsInv'
      BY <2>2, <3>2, OthersAssertNothing
    <3>3. ASSUME NEW f \in Fd, Stack(f) PROVE AssertsInv'
      <4>1. Unheard
        BY <2>2 DEF AssertsInv
      <4>2. /\ UNCHANGED <<test, at, aborted, var, nonblock, asked>> /\ Open' = Open
            /\ Unheard' /\ \A g \in Fd : Moves(g)
        BY <2>2, <3>3, <4>1, StackMoves
      <4> QED BY <2>2, <4>2, StillAt DEF Preserved
    <3>4. ASSUME UNCHANGED testsVars PROVE AssertsInv'
      <4>1. UNCHANGED <<test, at, aborted, var, nonblock, asked, conn, unread>> /\ Open' = Open
        BY <3>4 DEF testsVars, threads, stack, Open
      <4>2. Unheard' /\ \A g \in Fd : Moves(g)
        BY <2>2, <4>1 DEF AssertsInv, Unheard, Moves, Started
      <4> QED BY <2>2, <4>1, <4>2, StillAt DEF Preserved
    <3>5. ASSUME NEW t \in Threads, Run(t) PROVE AssertsInv'
      BY <3>1, <3>2, <3>5
    <3> QED BY <3>3, <3>4, <3>5 DEF TestsNext
  <2> QED BY <2>1, <2>2
<1>3. AssertsInv => AssertsHold
  BY DEF AssertsInv
<1> QED
  BY <1>1, <1>2, <1>3, TestsInvariant, PTL DEF TestsSpec
=============================================================================
