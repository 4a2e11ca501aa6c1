------------------------- MODULE TcpEchoServerProofs -------------------------
(***************************************************************************)
(* For any number of clients and slots, any buffer and window, whatever    *)
(* each client sends: the safety properties of TcpEchoServer, from its     *)
(* inductive invariant.                                                    *)
(***************************************************************************)
EXTENDS TcpEchoServer, SequenceTheorems, TLAPS

-----------------------------------------------------------------------------
(* Sequences and bytes.                                                    *)

\* The constants, one by one.
LEMMA Constants ==
    /\ Invalid \notin Client
    /\ MaxSocks \in Nat /\ MaxSocks > 0
    /\ BufSize \in Nat /\ BufSize > 0
    /\ Window \in Nat /\ Window > 0
    /\ MaxAgain \in Nat
    /\ \A c \in Client : Bytes[c] \in Nat
    /\ 1 \in Slot /\ 0 \in 0..BufSize + MaxAgain /\ 0 \in 0..BufSize
BY EchoAssumption DEF EchoAssumption, Slot

\* A numbered byte of a client, and what lies outside the buffer, are bytes.
LEMMA BytesAreBytes ==
    /\ Stray \in Byte
    /\ \A c \in Client : \A n \in 1..Bytes[c] : [of |-> c, n |-> n] \in Byte
BY DEF Byte

\* Least is one of the two, and no more than either.
LEMMA LeastOfTwo ==
    ASSUME NEW a \in Nat, NEW b \in Nat
    PROVE  /\ Least(a, b) \in Nat /\ Least(a, b) <= a /\ Least(a, b) <= b
           /\ a > 0 /\ b > 0 => Least(a, b) > 0
BY DEF Least

\* A block of n bytes after a sequence of them.
LEMMA AppendBlock ==
    ASSUME NEW s \in Seq(Byte), NEW n \in Nat, NEW t \in [1..n -> Byte]
    PROVE  /\ s \o t \in Seq(Byte)
           /\ Len(s \o t) = Len(s) + n
           /\ \A k \in 1..Len(s) : (s \o t)[k] = s[k]
           /\ \A k \in 1..n : (s \o t)[Len(s) + k] = t[k]
<1>1. t \in Seq(Byte) BY SeqDef
<1>2. Len(t) = n
  <2>1. Len(t) \in Nat /\ DOMAIN t = 1..Len(t) BY <1>1, LenProperties
  <2>2. 1..Len(t) = 1..n BY <2>1
  <2>3. n > 0 => n \in 1..Len(t) BY <2>2
  <2>4. Len(t) > 0 => Len(t) \in 1..n BY <2>1, <2>2
  <2> QED BY <2>1, <2>3, <2>4
<1>3. /\ s \o t \in Seq(Byte)
      /\ Len(s \o t) = Len(s) + n
      /\ \A i \in 1..Len(s) + n :
            (s \o t)[i] = IF i <= Len(s) THEN s[i] ELSE t[i - Len(s)]
  BY <1>1, <1>2, ConcatProperties
<1>4. Len(s) \in Nat BY LenProperties
<1>5. ASSUME NEW k \in 1..n PROVE (s \o t)[Len(s) + k] = t[k]
  <2>1. /\ Len(s) + k \in 1..Len(s) + n
        /\ ~(Len(s) + k <= Len(s)) /\ (Len(s) + k) - Len(s) = k
    BY <1>4
  <2> QED BY <1>3, <2>1
<1> QED BY <1>3, <1>4, <1>5

\* A queue without repetitions, and what it holds.
Distinct(q) == \A i, j \in 1..Len(q) : q[i] = q[j] => i = j
Has(q, c) == \E i \in 1..Len(q) : q[i] = c

\* Putting what a queue does not hold at its end.
LEMMA PushDistinct ==
    ASSUME NEW q \in Seq(Client), NEW x \in Client, Distinct(q), ~Has(q, x)
    PROVE  /\ Append(q, x) \in Seq(Client)
           /\ Distinct(Append(q, x))
           /\ \A c : Has(Append(q, x), c) <=> c = x \/ Has(q, c)
<1> DEFINE r == Append(q, x)
<1>1. /\ Len(q) \in Nat /\ Len(r) = Len(q) + 1 /\ r \in Seq(Client)
      /\ r[Len(q) + 1] = x /\ \A i \in 1..Len(q) : r[i] = q[i]
  OBVIOUS
<1>2. \A i \in 1..Len(r) : i \in 1..Len(q) \/ i = Len(q) + 1 BY <1>1
<1> HIDE DEF r
<1>3. Distinct(r)
  <2> SUFFICES ASSUME NEW i \in 1..Len(r), NEW j \in 1..Len(r), r[i] = r[j]
               PROVE  i = j
    BY DEF Distinct
  <2>1. CASE i \in 1..Len(q) /\ j \in 1..Len(q) BY <1>1, <2>1 DEF Distinct
  <2>2. CASE i = Len(q) + 1 /\ j \in 1..Len(q) BY <1>1, <2>2 DEF Has
  <2>3. CASE i \in 1..Len(q) /\ j = Len(q) + 1 BY <1>1, <2>3 DEF Has
  <2> QED BY <1>2, <2>1, <2>2, <2>3
<1>4. ASSUME NEW c PROVE Has(r, c) <=> c = x \/ Has(q, c)
  BY <1>1, <1>2 DEF Has
<1> QED BY <1>1, <1>3, <1>4 DEF r

\* Taking its head.
LEMMA PopDistinct ==
    ASSUME NEW q \in Seq(Client), q # <<>>, Distinct(q)
    PROVE  /\ Head(q) \in Client /\ Has(q, Head(q))
           /\ Tail(q) \in Seq(Client) /\ Distinct(Tail(q))
           /\ \A c : Has(Tail(q), c) <=> c # Head(q) /\ Has(q, c)
<1> DEFINE r == Tail(q)
<1>1. /\ Len(q) \in Nat \ {0} /\ Len(r) = Len(q) - 1 /\ r \in Seq(Client)
      /\ Head(q) = q[1] /\ Head(q) \in Client
      /\ \A i \in 1..Len(r) : r[i] = q[i + 1]
  OBVIOUS
<1> HIDE DEF r
<1>2. Distinct(r)
  <2> SUFFICES ASSUME NEW i \in 1..Len(r), NEW j \in 1..Len(r), r[i] = r[j]
               PROVE  i = j
    BY DEF Distinct
  <2>1. i + 1 \in 1..Len(q) /\ j + 1 \in 1..Len(q) /\ q[i + 1] = q[j + 1]
    BY <1>1
  <2>2. i + 1 = j + 1 BY <2>1 DEF Distinct
  <2> QED BY <2>2
<1>3. ASSUME NEW c, NEW i \in 1..Len(r), r[i] = c
      PROVE  c # q[1] /\ Has(q, c)
  <2>1. i + 1 \in 1..Len(q) /\ i + 1 # 1 /\ q[i + 1] = c /\ 1 \in 1..Len(q)
    BY <1>1, <1>3
  <2> QED BY <2>1 DEF Distinct, Has
<1>4. ASSUME NEW c, c # q[1], NEW k \in 1..Len(q), q[k] = c
      PROVE  Has(r, c)
  <2>1. k - 1 \in 1..Len(r) /\ r[k - 1] = q[(k - 1) + 1] BY <1>1, <1>4
  <2> QED BY <1>1, <1>4, <2>1 DEF Has
<1>5. Has(q, Head(q)) BY <1>1 DEF Has
<1>6. \A c : Has(r, c) <=> c # Head(q) /\ Has(q, c)
  BY <1>1, <1>3, <1>4 DEF Has
<1> QED BY <1>1, <1>2, <1>5, <1>6 DEF r

-----------------------------------------------------------------------------
(* The conjuncts of IInv, one after the other.                             *)

\* The steps that only move the task on.
Moves == Setup \/ NoAccept \/ SkipSlot \/ ReceiveNothing \/ SendDone

LEMMA MovesOnly ==
    ASSUME TypeOK, Sending, Moves
    PROVE  /\ pc # "stopped" /\ pc' \in {"accept", "serve"} /\ slot' \in Slot
           /\ to_write = 0
           /\ UNCHANGED <<sock, rx, len, to_write, client>>
BY Constants
   DEF Moves, Setup, NoAccept, SkipSlot, ReceiveNothing, SendDone, NextSlot,
       TypeOK, Sending, Slot

\* The steps of the clients that touch neither connections nor what was
\* received from them.
ClientMoves(c) == Put(c) \/ Read(c) \/ Leave(c, "fin") \/ Leave(c, "reset")

LEMMA ClientMovesOnly ==
    ASSUME NEW c \in Client, ClientMoves(c)
    PROVE  UNCHANGED <<server, backlog, conn, taken, echoed, refused>>
BY DEF ClientMoves, Put, Read, Leave

\* What a step of socket_recv() receives.
LEMMA ReceiveGets ==
    ASSUME IInv, Receive
    PROVE  LET c == sock[slot] IN
           \E n \in 1..BufSize :
              /\ c \in Client
              /\ taken[c] + n <= sent[c]
              /\ rx' = [k \in 1..BufSize |->
                          IF k <= n THEN [of |-> c, n |-> taken[c] + k] ELSE rx[k]]
              /\ taken' = [taken EXCEPT ![c] = @ + n]
              /\ len' = n /\ to_write' = n /\ pc' = "send"
              /\ UNCHANGED <<slot, sock, backlog, conn, peer, sent, echoed,
                             room, refused>>
<1> DEFINE c == sock[slot]
           n == Least(BufSize, sent[c] - taken[c])
<1>1. c \in Client /\ n > 0 BY DEF Receive, IInv, TypeOK
<1>2. sent[c] - taken[c] \in Nat /\ taken[c] \in Nat
  BY <1>1, Constants DEF IInv, TypeOK
<1>3. n \in Nat /\ n <= BufSize /\ n <= sent[c] - taken[c]
  BY <1>2, LeastOfTwo, Constants
<1>4. n \in 1..BufSize /\ taken[c] + n <= sent[c]
  BY <1>1, <1>2, <1>3, Constants DEF IInv, TypeOK
<1>5. /\ rx' = [k \in 1..BufSize |->
                  IF k <= n THEN [of |-> c, n |-> taken[c] + k] ELSE rx[k]]
      /\ taken' = [taken EXCEPT ![c] = @ + n]
      /\ len' = n /\ to_write' = n /\ pc' = "send"
      /\ UNCHANGED <<slot, sock, backlog, conn, peer, sent, echoed, room, refused>>
  BY DEF Receive
<1> HIDE DEF n
<1> QED BY <1>1, <1>4, <1>5

\* What a send() sends: the bytes of the buffer that follow what is written
\* already, or strays from before it.
LEMMA SendPuts ==
    ASSUME IInv, Send
    PROVE  LET c == sock[slot] IN
           \E n \in 1..to_write : \E t \in [1..n -> Byte] :
              /\ c \in Client /\ n <= room[c]
              /\ echoed' = [echoed EXCEPT ![c] = @ \o t]
              /\ room' = [room EXCEPT ![c] = @ - n]
              /\ to_write' = to_write - n
              /\ \A k \in 1..n : t[k].of \in {c, Invalid}
              /\ refused[c] = 0 =>
                    \A k \in 1..n : t[k] = [of |-> c, n |-> taken[c] - to_write + k]
              /\ pc = "send"
              /\ UNCHANGED <<pc, slot, sock, rx, len,
                             backlog, conn, peer, sent, taken, refused>>
<1> DEFINE c == sock[slot]
           n == Least(to_write, room[c])
           t == [k \in 1..n |-> DataAt(Offset + k)]
<1>1. c \in Client /\ n > 0 /\ to_write > 0 /\ pc = "send"
  BY DEF Send, Sending, IInv, TypeOK
<1>2. to_write \in Nat /\ room[c] \in Nat BY <1>1, Constants DEF IInv, TypeOK
<1>3. n \in Nat /\ n <= to_write /\ n <= room[c] BY <1>2, LeastOfTwo
<1>4. /\ echoed' = [echoed EXCEPT ![c] = @ \o t]
      /\ room' = [room EXCEPT ![c] = @ - n]
      /\ to_write' = to_write - n
      /\ UNCHANGED <<pc, slot, sock, rx, len,
                     backlog, conn, peer, sent, taken, refused>>
  BY DEF Send
<1>5. n \in 1..to_write BY <1>1, <1>2, <1>3
<1>6. /\ len \in Nat /\ len <= BufSize /\ taken[c] \in Nat
      /\ \A k \in 1..len : rx[k] = [of |-> c, n |-> taken[c] - len + k]
      /\ to_write <= len + refused[c] /\ refused[c] \in Nat
  BY <1>1, Constants DEF Sending, IInv, TypeOK
<1> HIDE DEF n, c
<1>7. ASSUME NEW k \in 1..n
      PROVE  /\ t[k] \in Byte /\ t[k].of \in {c, Invalid}
             /\ refused[c] = 0 => t[k] = [of |-> c, n |-> taken[c] - to_write + k]
  <2>0. k \in Nat /\ k > 0 /\ k <= n BY <1>3, <1>7
  <2>1. t[k] = DataAt(Offset + k) /\ Offset + k = len - to_write + k
    BY <1>7 DEF Offset
  <2>2. CASE len - to_write + k \in 1..len
    <3>1. len - to_write + k \in 1..BufSize
      BY <1>2, <1>6, <2>0, <2>2, Constants
    <3>2. t[k] = rx[len - to_write + k] BY <2>1, <3>1 DEF DataAt
    <3>3. t[k] = [of |-> c, n |-> taken[c] - len + (len - to_write + k)]
      BY <1>6, <2>2, <3>2
    <3>4. taken[c] - len + (len - to_write + k) = taken[c] - to_write + k
      BY <1>2, <1>3, <1>6, <2>0
    <3>5. t[k] \in Byte BY <3>1, <3>2 DEF IInv, TypeOK
    <3> QED BY <3>3, <3>4, <3>5
  <2>3. CASE len - to_write + k \notin 1..len
    <3>1. len - to_write + k <= len BY <1>2, <1>3, <1>6, <2>0
    <3>2. ~(len - to_write + k > 0) BY <1>2, <1>3, <1>6, <2>0, <2>3, <3>1
    <3>3. len - to_write + k \notin 1..BufSize BY <1>2, <1>6, <2>0, <3>2
    <3>4. t[k] = Stray BY <2>1, <3>3 DEF DataAt
    <3>5. refused[c] # 0 BY <1>2, <1>3, <1>6, <2>0, <3>2
    <3> QED BY <3>4, <3>5, BytesAreBytes DEF Stray
  <2> QED BY <2>2, <2>3
<1>8. t \in [1..n -> Byte] BY <1>7
<1> HIDE DEF t
<1> QED BY <1>1, <1>3, <1>4, <1>5, <1>7, <1>8 DEF c

\* What closing one slot, after recv() or send() failed, changes.
LEMMA ClosesOne ==
    ASSUME IInv, ReceiveFails \/ SendFails
    PROVE  /\ sock[slot] \in Client /\ pc \in {"serve", "send"}
           /\ pc' \in {"accept", "serve"} /\ slot' \in Slot /\ to_write' = 0
           /\ sock' = [sock EXCEPT ![slot] = Invalid]
           /\ conn' = [conn EXCEPT ![sock[slot]] = "closed"]
           /\ UNCHANGED <<rx, len, backlog, peer, sent, taken, echoed, room, refused>>
<1>1. /\ pc \in {"serve", "send"} /\ sock[slot] # Invalid /\ CloseSlot
      /\ to_write' = 0
  BY DEF ReceiveFails, SendFails, IInv, Sending
<1>2. slot \in Slot /\ sock[slot] \in Client BY <1>1 DEF IInv, TypeOK
<1>3. pc' \in {"accept", "serve"} /\ slot' \in Slot
  BY <1>1, <1>2, Constants DEF CloseSlot, NextSlot, Slot
<1> QED BY <1>1, <1>2, <1>3 DEF CloseSlot

\* What accept() gives to a slot.
LEMMA AcceptsOne ==
    ASSUME IInv, Accept
    PROVE  \E i \in Slot :
              /\ sock[i] = Invalid /\ backlog # <<>>
              /\ sock' = [sock EXCEPT ![i] = Head(backlog)]
              /\ conn' = [conn EXCEPT ![Head(backlog)] = "open"]
              /\ backlog' = Tail(backlog) /\ pc = "accept"
              /\ pc' = "serve" /\ slot' = 1
              /\ UNCHANGED <<rx, len, to_write, peer, sent, taken, echoed,
                             room, refused>>
BY DEF Accept, FirstFree

\* What a way into the error exit leaves: the array as it was, or with the
\* head of the backlog in a free slot.
LEMMA GivesUp ==
    ASSUME IInv, SetupFails \/ AcceptFails
    PROVE  /\ pc \in {"setup", "accept"} /\ CloseAll(sock')
           /\ UNCHANGED <<slot, rx, len, to_write, peer, sent, taken, echoed,
                          room, refused>>
           /\ \/ sock' = sock
              \/ \E i \in Slot : /\ sock[i] = Invalid /\ backlog # <<>>
                                 /\ sock' = [sock EXCEPT ![i] = Head(backlog)]
BY DEF SetupFails, AcceptFails, CloseAll, FirstFree

LEMMA TypeStep == IInv /\ [Next]_vars => TypeOK'
<1> SUFFICES ASSUME IInv, [Next]_vars PROVE TypeOK'
  OBVIOUS
<1>0. TypeOK /\ Sending BY DEF IInv
<1>1. CASE SetupFails \/ AcceptFails
  <2>1. sock' \in [Slot -> Client \cup {Invalid}]
    <3>1. backlog # <<>> => Head(backlog) \in Client BY <1>0 DEF TypeOK
    <3> QED BY <1>0, <1>1, <3>1, GivesUp DEF TypeOK
  <2>2. conn' \in [Client -> {"away", "backlog", "open", "closed"}]
    BY <1>0, <1>1, GivesUp DEF TypeOK, CloseAll
  <2>3. pc' = "stopped" /\ backlog' = <<>> BY <1>1, GivesUp DEF CloseAll
  <2>4. UNCHANGED <<slot, rx, len, to_write, peer, sent, taken, echoed, room, refused>>
    BY <1>1, GivesUp
  <2> QED BY <1>0, <2>1, <2>2, <2>3, <2>4 DEF TypeOK
<1>2. CASE Accept
  <2>1. PICK i \in Slot :
              /\ backlog # <<>> /\ sock' = [sock EXCEPT ![i] = Head(backlog)]
              /\ conn' = [conn EXCEPT ![Head(backlog)] = "open"]
              /\ backlog' = Tail(backlog) /\ pc' = "serve" /\ slot' = 1
              /\ UNCHANGED <<rx, len, to_write, peer, sent, taken, echoed,
                             room, refused>>
    BY <1>2, AcceptsOne
  <2>2. Head(backlog) \in Client /\ Tail(backlog) \in Seq(Client)
    BY <1>0, <2>1 DEF TypeOK
  <2> QED BY <1>0, <2>1, <2>2, Constants DEF TypeOK
<1>3. CASE Receive
  <2> DEFINE c == sock[slot]
  <2>1. PICK n \in 1..BufSize :
              /\ c \in Client
              /\ taken[c] + n <= sent[c]
              /\ rx' = [k \in 1..BufSize |->
                          IF k <= n THEN [of |-> c, n |-> taken[c] + k] ELSE rx[k]]
              /\ taken' = [taken EXCEPT ![c] = @ + n]
              /\ len' = n /\ to_write' = n /\ pc' = "send"
              /\ UNCHANGED <<slot, sock, backlog, conn, peer, sent, echoed,
                             room, refused>>
    BY <1>3, ReceiveGets
  <2>2. /\ taken[c] \in Nat /\ sent[c] \in Nat /\ sent[c] <= Bytes[c]
        /\ Bytes[c] \in Nat /\ n \in Nat
    BY <1>0, <2>1, Constants DEF TypeOK
  <2>3. ASSUME NEW k \in 1..BufSize PROVE rx'[k] \in Byte
    <3>1. CASE k <= n
      <4>1. k \in Nat /\ k > 0 BY <2>3, Constants
      <4>2. taken[c] + k \in 1..Bytes[c] BY <2>1, <2>2, <3>1, <4>1
      <4> QED BY <2>1, <2>3, <3>1, <4>2, BytesAreBytes
    <3>2. CASE ~(k <= n) BY <1>0, <2>1, <2>3, <3>2 DEF TypeOK
    <3> QED BY <3>1, <3>2
  <2>4. rx' \in [1..BufSize -> Byte] BY <2>1, <2>3
  <2>5. len' \in 0..BufSize /\ to_write' \in 0..BufSize + MaxAgain
    BY <2>1, Constants
  <2>6. /\ taken' \in [Client -> Nat]
        /\ \A d \in Client : taken'[d] <= sent[d] /\ sent[d] <= Bytes[d]
    BY <1>0, <2>1, <2>2 DEF TypeOK
  <2> QED BY <1>0, <2>1, <2>4, <2>5, <2>6 DEF TypeOK
<1>4. CASE Send
  <2> DEFINE c == sock[slot]
  <2>1. PICK n \in 1..to_write : \E t \in [1..n -> Byte] :
              /\ c \in Client /\ n <= room[c]
              /\ echoed' = [echoed EXCEPT ![c] = @ \o t]
              /\ room' = [room EXCEPT ![c] = @ - n]
              /\ to_write' = to_write - n
              /\ UNCHANGED <<pc, slot, sock, rx, len,
                             backlog, conn, peer, sent, taken, refused>>
    BY <1>4, SendPuts
  <2>2. PICK t \in [1..n -> Byte] : echoed' = [echoed EXCEPT ![c] = @ \o t]
    BY <2>1
  <2>3. /\ c \in Client /\ n \in Nat /\ n > 0 /\ n <= to_write /\ n <= room[c]
        /\ to_write \in Nat /\ room[c] \in 0..Window
        /\ echoed[c] \in Seq(Byte)
    BY <1>0, <2>1, Constants DEF TypeOK
  <2>4. echoed[c] \o t \in Seq(Byte) BY <2>3, AppendBlock
  <2>5. echoed' \in [Client -> Seq(Byte)] BY <1>0, <2>2, <2>4 DEF TypeOK
  <2>6. room[c] - n \in 0..Window BY <2>3, Constants
  <2>7. room' \in [Client -> 0..Window] BY <1>0, <2>1, <2>6 DEF TypeOK
  <2>8. to_write' \in 0..BufSize + MaxAgain
    BY <1>0, <2>1, <2>3, Constants DEF TypeOK
  <2> QED BY <1>0, <2>1, <2>5, <2>7, <2>8 DEF TypeOK
<1>5. CASE SendAgain
  <2> DEFINE c == sock[slot]
  <2>1. /\ c \in Client /\ refused[c] < MaxAgain /\ to_write <= len + refused[c]
        /\ refused[c] \in Nat /\ len \in 0..BufSize /\ to_write \in Nat
    BY <1>0, <1>5, Constants DEF SendAgain, TypeOK, Sending
  <2>2. to_write' \in 0..BufSize + MaxAgain
    BY <1>5, <2>1, Constants DEF SendAgain
  <2>3. refused' \in [Client -> 0..MaxAgain]
    <3>1. refused[c] + 1 \in 0..MaxAgain BY <2>1, Constants
    <3> QED BY <1>0, <1>5, <3>1 DEF SendAgain, TypeOK
  <2> QED BY <1>0, <1>5, <2>2, <2>3 DEF SendAgain, TypeOK
<1>6. CASE ReceiveFails \/ SendFails
  BY <1>0, <1>6, ClosesOne, Constants DEF TypeOK
<1>7. CASE Moves
  BY <1>0, <1>7, MovesOnly, Constants DEF TypeOK, client
<1>8. ASSUME NEW c \in Client, Connect(c) PROVE TypeOK'
  BY <1>0, <1>8 DEF Connect, TypeOK, server
<1>9. ASSUME NEW c \in Client, ClientMoves(c) PROVE TypeOK'
  <2> USE <1>0
  <2>1. UNCHANGED <<server, backlog, conn, taken, echoed, refused>>
    BY <1>9, ClientMovesOnly
  <2>2. CASE Put(c)
    <3>1. /\ sent' \in [Client -> Nat]
          /\ \A d \in Client : taken[d] <= sent'[d] /\ sent'[d] <= Bytes[d]
      <4>1. /\ sent[c] \in Nat /\ sent[c] < Bytes[c] /\ Bytes[c] \in Nat
            /\ taken[c] <= sent[c] /\ taken[c] \in Nat
            /\ sent' = [sent EXCEPT ![c] = @ + 1]
        BY <2>2, Constants DEF Put, TypeOK
      <4> QED BY <4>1 DEF TypeOK
    <3> QED BY <2>1, <2>2, <3>1 DEF Put, TypeOK, server
  <2>3. CASE Read(c)
    <3>1. Window \in 0..Window BY Constants
    <3> QED BY <2>1, <2>3, <3>1 DEF Read, TypeOK, server
  <2>4. CASE Leave(c, "fin") \/ Leave(c, "reset")
    BY <2>1, <2>4 DEF Leave, TypeOK, server
  <2> QED BY <1>9, <2>2, <2>3, <2>4 DEF ClientMoves
<1>10. CASE UNCHANGED vars BY <1>0, <1>10 DEF vars, server, client, TypeOK
<1> QED
  BY <1>1, <1>2, <1>3, <1>4, <1>5, <1>6, <1>7, <1>8, <1>9, <1>10
     DEF Next, Task, Moves, ClientMoves

\* The backlog gains who connects and loses who is accepted or dropped.
LEMMA PendingStep == IInv /\ [Next]_vars => Pending'
<1> SUFFICES ASSUME IInv, [Next]_vars PROVE Pending'
  OBVIOUS
<1> USE DEF Pending
<1>0. /\ Distinct(backlog)
      /\ \A c \in Client : conn[c] = "backlog" <=> Has(backlog, c)
      /\ backlog \in Seq(Client)
      /\ conn \in [Client -> {"away", "backlog", "open", "closed"}]
  BY DEF IInv, TypeOK, Distinct, Has
<1>1. ASSUME Distinct(backlog)',
             \A c \in Client : conn'[c] = "backlog" <=> Has(backlog, c)'
      PROVE  Pending'
  BY <1>1 DEF Distinct, Has
<1>2. CASE SetupFails \/ AcceptFails
  <2>1. /\ backlog' = <<>>
        /\ \A c \in Client : conn'[c] # "backlog"
    BY <1>0, <1>2, GivesUp DEF CloseAll
  <2> QED BY <2>1
<1>3. CASE Accept
  <2>1. /\ backlog # <<>> /\ conn' = [conn EXCEPT ![Head(backlog)] = "open"]
        /\ backlog' = Tail(backlog)
    BY <1>3, AcceptsOne
  <2>2. /\ Head(backlog) \in Client /\ Distinct(backlog)'
        /\ \A c : Has(backlog, c)' <=> c # Head(backlog) /\ Has(backlog, c)
    BY <1>0, <2>1, PopDistinct
  <2>3. \A c \in Client : conn'[c] = "backlog" <=> Has(backlog, c)'
    BY <1>0, <2>1, <2>2
  <2> QED BY <1>1, <2>2, <2>3
<1>4. ASSUME NEW c \in Client, Connect(c) PROVE Pending'
  <2>1. /\ conn[c] = "away" /\ conn' = [conn EXCEPT ![c] = "backlog"]
        /\ backlog' = Append(backlog, c)
    BY <1>4 DEF Connect
  <2>2. ~Has(backlog, c) BY <1>0, <2>1
  <2>3. /\ Distinct(backlog)'
        /\ \A d : Has(backlog, d)' <=> d = c \/ Has(backlog, d)
    BY <1>0, <2>1, <2>2, PushDistinct
  <2>4. \A d \in Client : conn'[d] = "backlog" <=> Has(backlog, d)'
    BY <1>0, <2>1, <2>3
  <2> QED BY <1>1, <2>3, <2>4
<1>5. CASE ReceiveFails \/ SendFails
  <2>1. /\ backlog' = backlog /\ sock[slot] \in Client
        /\ conn' = [conn EXCEPT ![sock[slot]] = "closed"]
    BY <1>5, ClosesOne
  <2>2. conn[sock[slot]] = "open"
    BY <1>5, <2>1 DEF IInv, TypeOK, SlotsAreOpen, ReceiveFails, SendFails
  <2>3. \A d \in Client : conn'[d] = "backlog" <=> conn[d] = "backlog"
    BY <1>0, <2>1, <2>2
  <2> QED BY <1>0, <2>1, <2>3 DEF Distinct, Has
<1>6. CASE UNCHANGED <<backlog, conn>> BY <1>6 DEF IInv
<1>7. CASE Moves BY <1>6, <1>7, MovesOnly DEF client, IInv
<1>8. CASE Receive \/ Send \/ SendAgain
  BY <1>6, <1>8 DEF Receive, Send, SendAgain
<1>9. ASSUME NEW c \in Client, ClientMoves(c) PROVE Pending'
  BY <1>6, <1>9, ClientMovesOnly
<1>10. CASE UNCHANGED vars BY <1>6, <1>10 DEF vars, client
<1> QED
  BY <1>2, <1>3, <1>4, <1>5, <1>7, <1>8, <1>9, <1>10
     DEF Next, Task, Moves, ClientMoves

\* The buffer and what is to be written of it belong to the client of the slot.
LEMMA SendingStep == IInv /\ [Next]_vars => Sending'
<1> SUFFICES ASSUME IInv, [Next]_vars PROVE Sending'
  OBVIOUS
<1>0. TypeOK /\ Sending BY DEF IInv
<1>1. CASE SetupFails \/ AcceptFails
  <2>1. to_write' = 0 /\ pc' = "stopped"
    BY <1>0, <1>1, GivesUp DEF CloseAll, Sending
  <2> QED BY <2>1 DEF Sending
<1>2. CASE Accept
  BY <1>0, <1>2, AcceptsOne DEF Sending
<1>3. CASE Receive
  <2> DEFINE c == sock[slot]
  <2>1. PICK n \in 1..BufSize :
              /\ c \in Client
              /\ rx' = [k \in 1..BufSize |->
                          IF k <= n THEN [of |-> c, n |-> taken[c] + k] ELSE rx[k]]
              /\ taken' = [taken EXCEPT ![c] = @ + n]
              /\ len' = n /\ to_write' = n /\ pc' = "send"
              /\ UNCHANGED <<slot, sock, refused>>
    BY <1>3, ReceiveGets
  <2>2. /\ taken[c] \in Nat /\ taken'[c] = taken[c] + n
        /\ refused'[c] \in Nat /\ n \in Nat /\ n > 0 /\ n <= BufSize
    BY <1>0, <2>1, Constants DEF TypeOK
  <2>3. ASSUME NEW k \in 1..n
        PROVE  rx'[k] = [of |-> c, n |-> taken'[c] - n + k]
    <3>1. k \in 1..BufSize /\ k <= n /\ k \in Nat BY <2>2, <2>3, Constants
    <3>2. taken'[c] - n + k = taken[c] + k BY <2>2, <3>1
    <3> QED BY <2>1, <3>1, <3>2
  <2>4. c # Invalid BY <2>1, Constants
  <2>5. /\ 0 < len' /\ len' <= taken'[c] /\ to_write' <= len' + refused'[c]
    BY <2>1, <2>2
  <2>6. sock'[slot'] = c BY <2>1
  <2> QED BY <2>1, <2>3, <2>4, <2>5, <2>6 DEF Sending
<1>4. CASE Send
  <2>1. PICK n \in 1..to_write :
              /\ to_write' = to_write - n
              /\ pc = "send"
              /\ UNCHANGED <<pc, slot, sock, rx, len, taken, refused>>
    BY <1>4, SendPuts
  <2>2. to_write' <= to_write /\ to_write' \in Int /\ to_write \in Int
    BY <1>0, <2>1, Constants DEF TypeOK
  <2>3. /\ len \in Int /\ refused[sock[slot]] \in Int
    BY <1>0, <2>1, Constants DEF TypeOK, Sending
  <2>4. to_write <= len + refused[sock[slot]] BY <1>0, <2>1 DEF Sending
  <2>5. to_write' <= len + refused[sock[slot]] BY <2>2, <2>3, <2>4
  <2> QED BY <1>0, <2>1, <2>5 DEF Sending
<1>5. CASE SendAgain
  <2> DEFINE c == sock[slot]
  <2>1. /\ pc = "send" /\ to_write' = to_write + 1
        /\ refused' = [refused EXCEPT ![c] = @ + 1]
        /\ UNCHANGED <<pc, slot, sock, rx, len, taken>>
    BY <1>5 DEF SendAgain
  <2>2. c \in Client /\ refused[c] \in Nat /\ len \in Nat /\ to_write \in Nat
    BY <1>0, <2>1, Constants DEF TypeOK, Sending
  <2>3. to_write' <= len + refused'[c]
    BY <1>0, <2>1, <2>2 DEF TypeOK, Sending
  <2> QED BY <1>0, <2>1, <2>3 DEF Sending
<1>6. CASE ReceiveFails \/ SendFails
  <2>1. pc' \in {"accept", "serve"} /\ to_write' = 0 BY <1>6, ClosesOne
  <2> QED BY <2>1 DEF Sending
<1>7. CASE Moves
  <2>1. pc' \in {"accept", "serve"} /\ to_write' = 0 BY <1>0, <1>7, MovesOnly
  <2> QED BY <2>1 DEF Sending
<1>8. CASE UNCHANGED <<server, taken, refused>>
  BY <1>0, <1>8 DEF server, Sending
<1>9. ASSUME NEW c \in Client, Connect(c) PROVE Sending'
  BY <1>8, <1>9 DEF Connect
<1>10. ASSUME NEW c \in Client, ClientMoves(c) PROVE Sending'
  BY <1>8, <1>10, ClientMovesOnly
<1>11. CASE UNCHANGED vars BY <1>8, <1>11 DEF vars, client
<1> QED
  BY <1>1, <1>2, <1>3, <1>4, <1>5, <1>6, <1>7, <1>9, <1>10, <1>11
     DEF Next, Task, Moves, ClientMoves

\* The client of the slot that is served is open.
LEMMA ServedIsOpen ==
    ASSUME IInv, pc # "stopped", sock[slot] # Invalid
    PROVE  sock[slot] \in Client /\ conn[sock[slot]] = "open"
BY DEF IInv, TypeOK, SlotsAreOpen

LEMMA UntouchedStep == IInv /\ [Next]_vars => Untouched'
<1> SUFFICES ASSUME IInv, [Next]_vars PROVE Untouched'
  OBVIOUS
<1> USE DEF Untouched
<1>0. TypeOK /\ Untouched BY DEF IInv
<1>1. ASSUME \A c \in Client :
                conn'[c] \in {"away", "backlog"} =>
                    conn[c] \in {"away", "backlog"},
             UNCHANGED <<taken, echoed>>
      PROVE  Untouched'
  BY <1>0, <1>1
<1>2. CASE SetupFails \/ AcceptFails
  <2>1. \A c \in Client : conn'[c] \in {"away", "backlog"} => conn'[c] = conn[c]
    BY <1>2, GivesUp DEF CloseAll
  <2> QED BY <1>1, <1>2, <2>1, GivesUp
<1>3. CASE Accept
  <2>1. /\ conn' = [conn EXCEPT ![Head(backlog)] = "open"]
        /\ UNCHANGED <<taken, echoed>>
    BY <1>3, AcceptsOne
  <2> QED BY <1>0, <1>1, <2>1 DEF TypeOK
<1>4. CASE Receive
  <2>1. PICK n \in 1..BufSize :
           /\ taken' = [taken EXCEPT ![sock[slot]] = @ + n]
           /\ UNCHANGED <<conn, echoed>>
    BY <1>4, ReceiveGets
  <2>2. conn[sock[slot]] = "open"
    BY <1>4, ServedIsOpen DEF Receive
  <2> QED BY <1>0, <2>1, <2>2 DEF TypeOK
<1>5. CASE Send
  <2>1. PICK n \in 1..to_write : \E t \in [1..n -> Byte] :
           /\ echoed' = [echoed EXCEPT ![sock[slot]] = @ \o t]
           /\ pc = "send" /\ sock[slot] \in Client
           /\ UNCHANGED <<conn, taken>>
    BY <1>5, SendPuts
  <2>2. conn[sock[slot]] = "open"
    BY <2>1, ServedIsOpen, Constants
  <2>3. \A c \in Client : c # sock[slot] => echoed'[c] = echoed[c]
    BY <1>0, <2>1 DEF TypeOK
  <2> QED BY <1>0, <2>1, <2>2, <2>3
<1>6. CASE ReceiveFails \/ SendFails
  <2>1. /\ conn' = [conn EXCEPT ![sock[slot]] = "closed"]
        /\ UNCHANGED <<taken, echoed>>
    BY <1>6, ClosesOne
  <2> QED BY <1>0, <1>1, <2>1 DEF TypeOK
<1>7. ASSUME NEW c \in Client, Connect(c) PROVE Untouched'
  <2>1. /\ conn[c] = "away" /\ conn' = [conn EXCEPT ![c] = "backlog"]
        /\ UNCHANGED <<taken, echoed>>
    BY <1>7 DEF Connect
  <2> QED BY <1>0, <1>1, <2>1 DEF TypeOK
<1>8. CASE UNCHANGED <<conn, taken, echoed>> BY <1>0, <1>8
<1>9. CASE Moves BY <1>0, <1>8, <1>9, MovesOnly DEF client, IInv
<1>10. CASE SendAgain BY <1>8, <1>10 DEF SendAgain
<1>11. ASSUME NEW c \in Client, ClientMoves(c) PROVE Untouched'
  BY <1>8, <1>11, ClientMovesOnly
<1>12. CASE UNCHANGED vars BY <1>8, <1>12 DEF vars, client
<1> QED
  BY <1>2, <1>3, <1>4, <1>5, <1>6, <1>7, <1>9, <1>10, <1>11, <1>12
     DEF Next, Task, Moves, ClientMoves

\* A client that comes off the backlog is in no slot yet.
LEMMA SlotsStep == IInv /\ [Next]_vars => SlotsAreOpen'
<1> SUFFICES ASSUME IInv, [Next]_vars PROVE SlotsAreOpen'
  OBVIOUS
<1> USE DEF SlotsAreOpen
<1>0. /\ SlotsAreOpen
      /\ sock \in [Slot -> Client \cup {Invalid}]
      /\ conn \in [Client -> {"away", "backlog", "open", "closed"}]
      /\ backlog # <<>> =>
            /\ Head(backlog) \in Client /\ conn[Head(backlog)] = "backlog"
  <2>1. backlog \in Seq(Client) BY DEF IInv, TypeOK
  <2>2. ASSUME backlog # <<>>
        PROVE  Head(backlog) \in Client /\ conn[Head(backlog)] = "backlog"
    <3>1. 1 \in 1..Len(backlog) /\ backlog[1] = Head(backlog) /\ Head(backlog) \in Client
      BY <2>1, <2>2
    <3> QED BY <3>1 DEF IInv, Pending
  <2> QED BY <2>2 DEF IInv, TypeOK
<1>1. CASE SetupFails \/ AcceptFails
  <2>1. /\ pc # "stopped" /\ pc' = "stopped"
        /\ conn' = [c \in Client |->
                      IF conn[c] = "backlog" \/ \E i \in Slot : sock'[i] = c
                      THEN "closed" ELSE conn[c]]
    BY <1>1, GivesUp DEF CloseAll
  <2>2. \A c \in Client : conn[c] = "open" => \E i \in Slot : sock'[i] = c
    BY <1>0, <1>1, <2>1, GivesUp, Constants
  <2>3. \A c \in Client : ~Connected(c)' BY <2>1, <2>2 DEF Connected
  <2>4. CASE sock' = sock BY <1>0, <2>1, <2>3, <2>4
  <2>5. CASE \E i \in Slot : /\ sock[i] = Invalid /\ backlog # <<>>
                             /\ sock' = [sock EXCEPT ![i] = Head(backlog)]
    <3>1. PICK i \in Slot : /\ sock[i] = Invalid /\ backlog # <<>>
                            /\ sock' = [sock EXCEPT ![i] = Head(backlog)]
      BY <2>5
    <3>2. \A j \in Slot : sock[j] # Head(backlog) BY <1>0, <2>1, <3>1
    <3>3. \A j, k \in Slot : sock'[j] = sock'[k] /\ sock'[j] # Invalid => j = k
      BY <1>0, <3>1, <3>2
    <3> QED BY <2>1, <2>3, <3>3
  <2> QED BY <1>1, <2>4, <2>5, GivesUp
<1>2. CASE Accept
  <2>1. PICK i \in Slot :
              /\ sock[i] = Invalid /\ backlog # <<>>
              /\ sock' = [sock EXCEPT ![i] = Head(backlog)]
              /\ conn' = [conn EXCEPT ![Head(backlog)] = "open"]
              /\ pc = "accept" /\ pc' = "serve"
    BY <1>2, AcceptsOne
  <2>2. \A j \in Slot : sock[j] # Head(backlog) BY <1>0, <2>1
  <2>3. \A j, k \in Slot : sock'[j] = sock'[k] /\ sock'[j] # Invalid => j = k
    BY <1>0, <2>1, <2>2
  <2>4. ASSUME NEW c \in Client
        PROVE  conn'[c] = "open" <=> \E j \in Slot : sock'[j] = c
    <3>1. CASE c = Head(backlog) BY <1>0, <2>1, <3>1
    <3>2. CASE c # Head(backlog)
      <4>1. \A j \in Slot : sock'[j] = c <=> sock[j] = c
        BY <1>0, <2>1, <3>2, Constants
      <4> QED BY <1>0, <2>1, <3>2, <4>1
    <3> QED BY <3>1, <3>2
  <2> QED BY <2>1, <2>3, <2>4
<1>3. CASE ReceiveFails \/ SendFails
  <2> DEFINE c == sock[slot]
  <2>1. /\ c \in Client /\ pc # "stopped" /\ pc' # "stopped"
        /\ sock' = [sock EXCEPT ![slot] = Invalid]
        /\ conn' = [conn EXCEPT ![c] = "closed"]
        /\ slot \in Slot
    BY <1>3, ClosesOne DEF IInv, TypeOK
  <2> HIDE DEF c
  <2>2. \A j \in Slot : sock[j] = c => j = slot BY <1>0, <2>1, Constants DEF c
  <2>3. \A j, k \in Slot : sock'[j] = sock'[k] /\ sock'[j] # Invalid => j = k
    BY <1>0, <2>1
  <2>4. ASSUME NEW d \in Client
        PROVE  conn'[d] = "open" <=> \E j \in Slot : sock'[j] = d
    <3>1. CASE d = c
      <4>1. \A j \in Slot : sock'[j] # d
        BY <1>0, <2>1, <2>2, <3>1, Constants
      <4> QED BY <1>0, <2>1, <3>1, <4>1
    <3>2. CASE d # c
      <4>1. \A j \in Slot : sock'[j] = d <=> sock[j] = d
        BY <1>0, <2>1, <3>2, Constants DEF c
      <4> QED BY <1>0, <2>1, <3>2, <4>1
    <3> QED BY <3>1, <3>2
  <2> QED BY <2>1, <2>3, <2>4
<1>4. ASSUME NEW c \in Client, Connect(c) PROVE SlotsAreOpen'
  <2>1. /\ conn[c] = "away" /\ conn' = [conn EXCEPT ![c] = "backlog"]
        /\ pc # "stopped" /\ UNCHANGED <<pc, sock>>
    BY <1>4 DEF Connect, server
  <2> QED BY <1>0, <2>1
<1>5. ASSUME UNCHANGED <<sock, conn>>, (pc' = "stopped") <=> (pc = "stopped")
      PROVE  SlotsAreOpen'
  BY <1>0, <1>5 DEF Connected
<1>6. CASE Moves
  <2>1. pc # "stopped" /\ pc' \in {"accept", "serve"} /\ UNCHANGED <<sock, conn>>
    BY <1>6, MovesOnly DEF client, IInv
  <2> QED BY <1>5, <2>1
<1>7. CASE Receive \/ Send \/ SendAgain
  BY <1>5, <1>7 DEF Receive, Send, SendAgain
<1>8. ASSUME NEW c \in Client, ClientMoves(c) PROVE SlotsAreOpen'
  BY <1>5, <1>8, ClientMovesOnly DEF server
<1>9. CASE UNCHANGED vars BY <1>5, <1>9 DEF vars, server, client
<1> QED
  BY <1>1, <1>2, <1>3, <1>4, <1>6, <1>7, <1>8, <1>9
     DEF Next, Task, Moves, ClientMoves

\* Every byte sent to a client is its own, or strays from outside the buffer.
LEMMA NoCrossTalkStep == IInv /\ [Next]_vars => NoCrossTalk'
<1> SUFFICES ASSUME IInv, [Next]_vars PROVE NoCrossTalk'
  OBVIOUS
<1>0. TypeOK /\ NoCrossTalk BY DEF IInv
<1>1. CASE Send
  <2> DEFINE c == sock[slot]
  <2>1. PICK n \in 1..to_write : \E t \in [1..n -> Byte] :
           /\ c \in Client
           /\ echoed' = [echoed EXCEPT ![c] = @ \o t]
           /\ \A k \in 1..n : t[k].of \in {c, Invalid}
    BY <1>1, SendPuts
  <2>2. PICK t \in [1..n -> Byte] :
           /\ echoed' = [echoed EXCEPT ![c] = @ \o t]
           /\ \A k \in 1..n : t[k].of \in {c, Invalid}
    BY <2>1
  <2>3. n \in Nat /\ echoed[c] \in Seq(Byte) /\ c \in Client
    BY <1>0, <2>1 DEF TypeOK
  <2>4. /\ \A d \in Client : d # c => echoed'[d] = echoed[d]
        /\ echoed'[c] = echoed[c] \o t
    BY <1>0, <2>2, <2>3 DEF TypeOK
  <2>5. ASSUME NEW k \in 1..Len(echoed'[c]) PROVE echoed'[c][k].of \in {c, Invalid}
    <3> DEFINE s == echoed[c]
    <3>0. echoed'[c] = s \o t /\ s \in Seq(Byte) /\ n \in Nat BY <2>3, <2>4
    <3> HIDE DEF s
    <3>1. /\ Len(echoed'[c]) = Len(s) + n /\ Len(s) \in Nat
          /\ \A j \in 1..Len(s) : echoed'[c][j] = s[j]
          /\ \A j \in 1..n : echoed'[c][Len(s) + j] = t[j]
      BY <3>0, AppendBlock, LenProperties
    <3>2. CASE k <= Len(s)
      <4>1. k \in 1..Len(s) BY <2>5, <3>1, <3>2
      <4> QED BY <1>0, <2>3, <3>1, <4>1 DEF NoCrossTalk, s
    <3>3. CASE ~(k <= Len(s))
      <4>1. k - Len(s) \in 1..n /\ k = Len(s) + (k - Len(s))
        BY <2>3, <2>5, <3>1, <3>3
      <4> QED BY <2>2, <3>1, <4>1
    <3> QED BY <3>2, <3>3
  <2> QED BY <1>0, <2>4, <2>5 DEF NoCrossTalk
<1>2. CASE UNCHANGED echoed BY <1>0, <1>2 DEF NoCrossTalk
<1>3. CASE SetupFails \/ AcceptFails BY <1>2, <1>3, GivesUp
<1>4. CASE Accept BY <1>2, <1>4, AcceptsOne
<1>5. CASE ReceiveFails \/ SendFails BY <1>2, <1>5, ClosesOne
<1>6. CASE Moves BY <1>2, <1>6, MovesOnly DEF client, IInv
<1>7. CASE Receive \/ SendAgain BY <1>2, <1>7 DEF Receive, SendAgain
<1>8. ASSUME NEW c \in Client, Connect(c) PROVE NoCrossTalk'
  BY <1>2, <1>8 DEF Connect
<1>9. ASSUME NEW c \in Client, ClientMoves(c) PROVE NoCrossTalk'
  BY <1>2, <1>9, ClientMovesOnly
<1>10. CASE UNCHANGED vars BY <1>2, <1>10 DEF vars, client
<1> QED
  BY <1>1, <1>3, <1>4, <1>5, <1>6, <1>7, <1>8, <1>9, <1>10
     DEF Next, Task, Moves, ClientMoves

\* What EchoExact says of one client.
Exact(c) ==
    refused[c] = 0 /\ conn[c] = "open" =>
        /\ Len(echoed[c]) = taken[c] - Owed(c)
        /\ \A k \in 1..Len(echoed[c]) : echoed[c][k] = [of |-> c, n |-> k]

\* Bytes received and not echoed yet are those socket_send() still has.
LEMMA EchoExactStep == IInv /\ [Next]_vars => EchoExact'
<1> SUFFICES ASSUME IInv, [Next]_vars, NEW d \in Client PROVE Exact(d)'
  BY DEF EchoExact, Exact
<1>0. TypeOK /\ Sending /\ Exact(d) BY DEF IInv, EchoExact, Exact
<1>1. ASSUME conn'[d] = "open" => conn[d] = "open", Owed(d)' = Owed(d),
             taken'[d] = taken[d], echoed'[d] = echoed[d],
             refused'[d] = 0 => refused[d] = 0
      PROVE  Exact(d)'
  BY <1>0, <1>1 DEF Exact
<1>2. pc # "send" => Owed(d) = 0 BY DEF Owed
<1>3. ASSUME pc' # "send" PROVE Owed(d)' = 0 BY <1>3 DEF Owed
<1>4. CASE SetupFails \/ AcceptFails
  <2>1. /\ pc # "send" /\ pc' # "send"
        /\ conn'[d] = "open" => conn[d] = "open"
        /\ UNCHANGED <<taken, echoed, refused>>
    BY <1>4, GivesUp DEF CloseAll
  <2> QED BY <1>1, <1>2, <1>3, <2>1
<1>5. CASE Accept
  <2>1. /\ pc # "send" /\ pc' # "send" /\ backlog # <<>>
        /\ conn' = [conn EXCEPT ![Head(backlog)] = "open"]
        /\ UNCHANGED <<taken, echoed, refused>>
    BY <1>5, AcceptsOne
  <2>2. CASE d = Head(backlog)
    <3>1. 1 \in 1..Len(backlog) /\ backlog[1] = d
      BY <1>0, <2>1, <2>2 DEF TypeOK
    <3>2. conn[d] = "backlog" BY <3>1 DEF IInv, Pending
    <3>3. taken[d] = 0 /\ echoed[d] = <<>> BY <3>2 DEF IInv, Untouched
    <3>4. taken'[d] = 0 /\ echoed'[d] = <<>> /\ Owed(d)' = 0
      BY <1>3, <2>1, <3>3
    <3>5. Len(echoed'[d]) = 0 BY <3>4
    <3> QED BY <3>4, <3>5 DEF Exact
  <2>3. CASE d # Head(backlog)
    BY <1>0, <1>1, <1>2, <1>3, <2>1, <2>3 DEF TypeOK
  <2> QED BY <2>2, <2>3
<1>6. CASE Receive
  <2> DEFINE c == sock[slot]
  <2>1. PICK n \in 1..BufSize :
           /\ c \in Client
           /\ taken' = [taken EXCEPT ![c] = @ + n]
           /\ to_write' = n /\ pc' = "send"
           /\ UNCHANGED <<slot, sock, conn, echoed, refused>>
    BY <1>6, ReceiveGets
  <2>2. pc # "send" /\ Owed(d) = 0 BY <1>2, <1>6 DEF Receive
  <2>3. CASE d # c
    <3>1. Owed(d)' = 0 /\ taken'[d] = taken[d]
      BY <1>0, <2>1, <2>3 DEF Owed, TypeOK
    <3> QED BY <1>1, <2>1, <2>2, <3>1
  <2>4. CASE d = c
    <3>1. Owed(d)' = n /\ taken'[d] = taken[d] + n
      BY <1>0, <2>1, <2>4 DEF Owed, TypeOK
    <3>2. taken[d] - 0 = (taken[d] + n) - n /\ taken[d] \in Nat
      BY <1>0, <2>1, Constants DEF TypeOK
    <3> QED BY <1>0, <2>1, <2>2, <3>1, <3>2 DEF Exact
  <2> QED BY <2>3, <2>4
<1>7. CASE Send
  <2> DEFINE c == sock[slot]
  <2>1. PICK n \in 1..to_write : \E t \in [1..n -> Byte] :
           /\ c \in Client
           /\ echoed' = [echoed EXCEPT ![c] = @ \o t]
           /\ to_write' = to_write - n
           /\ refused[c] = 0 =>
                 \A k \in 1..n : t[k] = [of |-> c, n |-> taken[c] - to_write + k]
           /\ pc = "send"
           /\ UNCHANGED <<pc, slot, sock, conn, taken, refused>>
    BY <1>7, SendPuts
  <2>2. CASE d # c
    <3>1. Owed(d)' = Owed(d) /\ echoed'[d] = echoed[d]
      BY <1>0, <2>1, <2>2 DEF Owed, TypeOK
    <3> QED BY <1>1, <2>1, <3>1
  <2>3. CASE d = c
    <3> SUFFICES ASSUME refused[d] = 0, conn[d] = "open"
                 PROVE  /\ Len(echoed'[d]) = taken[d] - Owed(d)'
                        /\ \A k \in 1..Len(echoed'[d]) :
                              echoed'[d][k] = [of |-> d, n |-> k]
      BY <2>1 DEF Exact
    <3>1. PICK t \in [1..n -> Byte] :
           /\ echoed' = [echoed EXCEPT ![c] = @ \o t]
           /\ \A k \in 1..n : t[k] = [of |-> c, n |-> taken[c] - to_write + k]
      BY <2>1, <2>3
    <3> DEFINE s == echoed[d]
    <3>2. n \in Nat /\ s \in Seq(Byte) /\ to_write \in Nat /\ taken[d] \in Nat
      BY <1>0, <2>1, Constants DEF TypeOK
    <3>3. echoed'[d] = s \o t BY <1>0, <2>3, <3>1 DEF TypeOK
    <3>4. /\ Len(echoed'[d]) = Len(s) + n /\ Len(s) \in Nat
          /\ \A j \in 1..Len(s) : echoed'[d][j] = s[j]
          /\ \A j \in 1..n : echoed'[d][Len(s) + j] = t[j]
      BY <3>2, <3>3, AppendBlock
    <3>5. Owed(d) = to_write /\ Owed(d)' = to_write - n
      BY <2>1, <2>3 DEF Owed
    <3>6. /\ Len(s) = taken[d] - to_write
          /\ \A k \in 1..Len(s) : s[k] = [of |-> d, n |-> k]
      BY <1>0, <3>5 DEF Exact
    <3> HIDE DEF s
    <3>7. Len(echoed'[d]) = taken[d] - Owed(d)' BY <3>2, <3>4, <3>5, <3>6
    <3>8. ASSUME NEW k \in 1..Len(echoed'[d])
          PROVE  echoed'[d][k] = [of |-> d, n |-> k]
      <4>1. CASE k <= Len(s)
        <5>1. k \in 1..Len(s) BY <3>2, <3>4, <3>8, <4>1
        <5> QED BY <3>4, <3>6, <5>1
      <4>2. CASE ~(k <= Len(s))
        <5> DEFINE j == k - Len(s)
        <5>1. j \in 1..n /\ Len(s) + j = k
          BY <3>2, <3>4, <3>8, <4>2
        <5> HIDE DEF j
        <5>2. echoed'[d][k] = t[j] BY <3>4, <5>1
        <5>3. t[j] = [of |-> d, n |-> taken[d] - to_write + j]
          BY <2>3, <3>1, <5>1
        <5>4. taken[d] - to_write + j = k BY <3>6, <5>1
        <5> QED BY <5>2, <5>3, <5>4
      <4> QED BY <4>1, <4>2
    <3> QED BY <3>7, <3>8
  <2> QED BY <2>2, <2>3
<1>8. CASE SendAgain
  <2> DEFINE c == sock[slot]
  <2>1. /\ pc = "send" /\ refused' = [refused EXCEPT ![c] = @ + 1]
        /\ UNCHANGED <<pc, slot, sock, conn, taken, echoed>>
    BY <1>8 DEF SendAgain
  <2>2. CASE d # c
    <3>1. Owed(d)' = Owed(d) /\ refused'[d] = refused[d]
      BY <1>0, <2>1, <2>2 DEF Owed, TypeOK
    <3> QED BY <1>1, <2>1, <3>1
  <2>3. CASE d = c
    <3>1. refused[d] \in Nat /\ refused'[d] = refused[d] + 1
      BY <1>0, <2>1, <2>3, Constants DEF TypeOK
    <3> QED BY <3>1 DEF Exact
  <2> QED BY <2>2, <2>3
<1>9. CASE ReceiveFails \/ SendFails
  <2> DEFINE c == sock[slot]
  <2>1. /\ pc' # "send" /\ conn' = [conn EXCEPT ![c] = "closed"]
        /\ UNCHANGED <<taken, echoed, refused>>
    BY <1>9, ClosesOne
  <2>2. CASE d = c BY <1>0, <2>1, <2>2 DEF Exact, TypeOK
  <2>3. CASE d # c
    <3>1. Owed(d) = 0 BY <2>3 DEF Owed
    <3> QED BY <1>0, <1>1, <1>3, <2>1, <2>3, <3>1 DEF TypeOK
  <2> QED BY <2>2, <2>3
<1>10. CASE Moves
  <2>1. /\ pc' # "send" /\ to_write = 0 /\ UNCHANGED <<conn, taken, echoed, refused>>
    BY <1>0, <1>10, MovesOnly DEF client
  <2>2. Owed(d) = 0 BY <2>1 DEF Owed
  <2> QED BY <1>1, <1>3, <2>1, <2>2
<1>11. ASSUME NEW c \in Client, Connect(c) PROVE Exact(d)'
  <2>1. /\ conn' = [conn EXCEPT ![c] = "backlog"]
        /\ UNCHANGED <<server, taken, echoed, refused>>
    BY <1>11 DEF Connect
  <2>2. Owed(d)' = Owed(d) BY <2>1 DEF Owed, server
  <2> QED BY <1>0, <1>1, <2>1, <2>2 DEF TypeOK
<1>12. CASE UNCHANGED <<server, conn, taken, echoed, refused>>
  <2>1. Owed(d)' = Owed(d) BY <1>12 DEF Owed, server
  <2> QED BY <1>1, <1>12, <2>1
<1>13. ASSUME NEW c \in Client, ClientMoves(c) PROVE Exact(d)'
  BY <1>12, <1>13, ClientMovesOnly
<1>14. CASE UNCHANGED vars BY <1>12, <1>14 DEF vars, client
<1> QED
  BY <1>4, <1>5, <1>6, <1>7, <1>8, <1>9, <1>10, <1>11, <1>13, <1>14
     DEF Next, Task, Moves, ClientMoves

-----------------------------------------------------------------------------
(* The theorems.                                                           *)

LEMMA Invariance == Spec => []IInv
<1>1. Init => IInv
  <2> SUFFICES ASSUME Init PROVE IInv
    OBVIOUS
  <2> USE Constants DEF Init
  <2>1. TypeOK
    <3>1. /\ 0 \in 0..MaxAgain /\ Window \in 0..Window /\ Stray \in Byte
      BY BytesAreBytes
    <3>2. rx \in [1..BufSize -> Byte] BY <3>1
    <3> QED BY <3>1, <3>2 DEF TypeOK
  <2>2. Pending /\ Sending /\ Untouched BY DEF Pending, Sending, Untouched
  <2>3. SlotsAreOpen BY DEF SlotsAreOpen
  <2>4. NoCrossTalk /\ EchoExact BY DEF NoCrossTalk, EchoExact
  <2> QED BY <2>1, <2>2, <2>3, <2>4 DEF IInv
<1>2. IInv /\ [Next]_vars => IInv'
  BY TypeStep, PendingStep, SendingStep, UntouchedStep, SlotsStep,
     NoCrossTalkStep, EchoExactStep
     DEF IInv
<1> QED BY <1>1, <1>2, PTL DEF Spec

\* The types, among them that the server takes no more than a client sent and
\* that the buffer holds only numbered bytes of clients.
THEOREM Types == Spec => []TypeOK
<1>1. IInv => TypeOK BY DEF IInv
<1> QED BY <1>1, Invariance, PTL

\* No connection is forgotten open, served from two slots or kept in one after
\* its close, and the error exit closes all of them.
THEOREM SlotsHoldTheOpen == Spec => []SlotsAreOpen
<1>1. IInv => SlotsAreOpen BY DEF IInv
<1> QED BY <1>1, Invariance, PTL

\* The shared buffer never carries a byte from one client to another.
THEOREM ClientsApart == Spec => []NoCrossTalk
<1>1. IInv => NoCrossTalk BY DEF IInv
<1> QED BY <1>1, Invariance, PTL

\* A client whose socket never was full gets its bytes back, once and in order.
THEOREM EchoedExactly == Spec => []EchoExact
<1>1. IInv => EchoExact BY DEF IInv
<1> QED BY <1>1, Invariance, PTL

=============================================================================
