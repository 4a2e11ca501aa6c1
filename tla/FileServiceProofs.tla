-------------------------- MODULE FileServiceProofs --------------------------
(***************************************************************************)
(* For any set of clients, file size and chunk size: what a client of a    *)
(* FileService receives is in order, and a connection closed on a client   *)
(* that stayed carried the whole file.                                     *)
(***************************************************************************)
EXTENDS FileService, TLAPS

\* Appending the next segment to an incomplete prefix keeps it a prefix.
LEMMA AppendTiles ==
    ASSUME Parameters, NEW w \in Seq(Segment), Tiles(w), ~Complete(w)
    PROVE  /\ NextSegment(w) \in Segment
           /\ Tiles(Append(w, NextSegment(w)))
<1> DEFINE seg == NextSegment(w)
           x == Append(w, seg)
<1>1. CASE w = <<>>
  <2>1. seg = Header BY <1>1 DEF NextSegment
  <2>2. seg \in Segment BY <2>1, Parameters DEF Header, Segment, Parameters
  <2>3. Len(x) = 1 /\ x[1] = Header /\ x # <<>> BY <1>1, <2>1, <2>2
  <2>4. Received(x) = 0 BY <2>3 DEF Received, End, Header
  <2> QED BY <2>2, <2>3, <2>4, Parameters DEF Tiles, Parameters
<1>2. CASE w # <<>>
  <2>1. Len(w) \in Nat /\ Len(w) >= 1 /\ w[Len(w)] \in Segment BY <1>2
  <2>2. Received(w) \in Nat BY <1>2, <2>1 DEF Received, End, Segment
  <2>3. Received(w) < FileSize
    BY <1>2, <2>2, Parameters DEF Complete, Tiles, Parameters
  <2>4. seg = ChunkAt(Received(w)) BY <1>2 DEF NextSegment
  <2>5. /\ seg.from = Received(w)
        /\ seg.len \in 1..ChunkSize
        /\ End(seg) <= FileSize
        /\ seg \in Segment
    BY <2>2, <2>3, <2>4, Parameters DEF ChunkAt, Segment, End, Parameters
  <2>6. /\ x \in Seq(Segment) /\ Len(x) = Len(w) + 1 /\ x # <<>>
        /\ x[Len(w) + 1] = seg
        /\ \A i \in 1..Len(w) : x[i] = w[i]
    BY <2>1, <2>5
  <2>7. Received(x) = End(seg) BY <2>1, <2>6 DEF Received
  <2>8. Received(w) = End(w[Len(w)]) BY <1>2 DEF Received
  <2>9. \A i \in 1..Len(x) - 1 :
           x[i + 1].from = End(x[i]) /\ x[i + 1].len \in 1..ChunkSize
    <3> SUFFICES ASSUME NEW i \in 1..Len(w)
                 PROVE  /\ x[i + 1].from = End(x[i])
                        /\ x[i + 1].len \in 1..ChunkSize
      BY <2>1, <2>6
    <3>1. CASE i = Len(w) BY <3>1, <2>1, <2>5, <2>6, <2>8
    <3>2. CASE i # Len(w)
      <4>1. i \in 1..Len(w) - 1 /\ i + 1 \in 1..Len(w) BY <3>2, <2>1
      <4> QED BY <4>1, <2>6 DEF Tiles
    <3> QED BY <3>1, <3>2
  <2>10. x[1] = Header BY <1>2, <2>1, <2>6 DEF Tiles
  <2> QED BY <2>5, <2>6, <2>7, <2>9, <2>10 DEF Tiles
<1> QED BY <1>1, <1>2

\* The invariant is the type, the order of what was received, and that only a
\* complete or abandoned connection is closed; it is inductive as it stands.
ServiceInv == ServiceTypeOK /\ InOrder /\ ClosedComplete

LEMMA ServiceBegins ==
    ASSUME Parameters
    PROVE  ServiceInit => ServiceInv
BY Parameters DEF Parameters, ServiceInit, ServiceInv, ServiceTypeOK, InOrder,
   ClosedComplete, Tiles, Received

\* Every action of the service preserves it.
LEMMA ServiceStep ==
    ASSUME Parameters
    PROVE  ServiceInv /\ [ServiceNext]_serviceVars => ServiceInv'
<1> SUFFICES ASSUME ServiceInv, [ServiceNext]_serviceVars
             PROVE  ServiceInv'
  OBVIOUS
<1> USE DEF ServiceInv
<1>1. ASSUME NEW c \in Conn, Open(c) \/ Refuse(c)
      PROVE  ServiceInv'
  BY <1>1 DEF Open, Refuse, ServiceTypeOK, InOrder, ClosedComplete
<1>2. ASSUME NEW c \in Conn, Deliver(c)
      PROVE  ServiceInv'
  <2>1. Tiles(wire[c]) /\ ~Complete(wire[c]) /\ wire[c] \in Seq(Segment)
    BY <1>2 DEF Deliver, InOrder, ServiceTypeOK
  <2>2. /\ NextSegment(wire[c]) \in Segment
        /\ Tiles(Append(wire[c], NextSegment(wire[c])))
    BY <2>1, AppendTiles, Parameters
  <2>3. wire' = [wire EXCEPT ![c] = Append(@, NextSegment(@))]
    BY <1>2 DEF Deliver
  <2>4. wire' \in [Conn -> Seq(Segment)]
    BY <2>1, <2>2, <2>3 DEF ServiceTypeOK
  <2>5. \A d \in Conn : Tiles(wire'[d])
    BY <2>2, <2>3 DEF InOrder, ServiceTypeOK
  <2>6. InOrder' BY <2>5 DEF InOrder
  <2>7. ClosedComplete'
    BY <1>2, <2>3 DEF Deliver, ClosedComplete, ServiceTypeOK
  <2> QED BY <1>2, <2>4, <2>6, <2>7 DEF Deliver, ServiceTypeOK
<1>3. ASSUME NEW c \in Conn, Leave(c)
      PROVE  ServiceInv'
  BY <1>3 DEF Leave, ServiceTypeOK, InOrder, ClosedComplete
<1>4. ASSUME NEW c \in Conn, Close(c)
      PROVE  ServiceInv'
  BY <1>4 DEF Close, ServiceTypeOK, InOrder, ClosedComplete
<1>5. CASE UNCHANGED serviceVars
  BY <1>5 DEF serviceVars, ServiceTypeOK, InOrder, ClosedComplete
<1> QED BY <1>1, <1>2, <1>3, <1>4, <1>5 DEF ServiceNext

\* So it is an invariant of the service.
LEMMA ServiceInductive ==
    ASSUME Parameters
    PROVE  ServiceSpec => []ServiceInv
BY Parameters, ServiceBegins, ServiceStep, PTL DEF ServiceSpec

\* Every client receives the header and a prefix of the file, in order.
THEOREM ReceivedInOrder ==
    ASSUME Parameters
    PROVE  ServiceSpec => []InOrder
<1>1. ServiceInv => InOrder BY DEF ServiceInv
<1> QED BY <1>1, ServiceInductive, PTL

\* The server closes a connection only when its file is complete, unless the
\* client has gone.
THEOREM ClosedIsComplete ==
    ASSUME Parameters
    PROVE  ServiceSpec => []ClosedComplete
<1>1. ServiceInv => ClosedComplete BY DEF ServiceInv
<1> QED BY <1>1, ServiceInductive, PTL

=============================================================================
