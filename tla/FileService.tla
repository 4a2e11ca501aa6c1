----------------------------- MODULE FileService -----------------------------
(***************************************************************************)
(* What both servers of async-server promise, whatever their threads do:   *)
(* an accepted client receives the HTTP header and then the file, chunk    *)
(* after chunk, and the server closes the connection only when the file is *)
(* complete or the client has gone.                                        *)
(***************************************************************************)
EXTENDS Integers, Sequences

CONSTANTS
    Conn,       \* the client connections
    FileSize,   \* bytes of index.html
    ChunkSize   \* bytes of one send

\* What the servers' parameters satisfy.
Parameters == FileSize \in Nat /\ ChunkSize \in Nat \ {0}

VARIABLES
    status,     \* per connection
    gone,       \* the client has reset the connection
    wire        \* the segments that reached the client, in order

serviceVars == <<status, gone, wire>>

\* A segment is a range of the file; the header is the empty one at its start.
Segment == [from : Nat, len : Nat]
Header == [from |-> 0, len |-> 0]
End(seg) == seg.from + seg.len

\* The chunk at an offset below FileSize: a full one, or what is left.
ChunkAt(off) ==
    [from |-> off,
     len  |-> IF FileSize - off > ChunkSize THEN ChunkSize ELSE FileSize - off]

Received(w) == IF w = <<>> THEN 0 ELSE End(w[Len(w)])
Complete(w) == w # <<>> /\ Received(w) = FileSize

ServiceTypeOK ==
    /\ status \in [Conn -> {"unseen", "open", "closed", "refused"}]
    /\ gone \in [Conn -> BOOLEAN]
    /\ wire \in [Conn -> Seq(Segment)]

ServiceInit ==
    /\ status = [c \in Conn |-> "unseen"]
    /\ gone = [c \in Conn |-> FALSE]
    /\ wire = [c \in Conn |-> <<>>]

Open(c) ==
    /\ status[c] = "unseen"
    /\ status' = [status EXCEPT ![c] = "open"]
    /\ UNCHANGED <<gone, wire>>

Refuse(c) ==
    /\ status[c] = "unseen"
    /\ status' = [status EXCEPT ![c] = "refused"]
    /\ UNCHANGED <<gone, wire>>

\* The header, or the chunk that follows what was delivered.
NextSegment(w) == IF w = <<>> THEN Header ELSE ChunkAt(Received(w))

Deliver(c) ==
    /\ status[c] = "open" /\ ~gone[c] /\ ~Complete(wire[c])
    /\ wire' = [wire EXCEPT ![c] = Append(@, NextSegment(@))]
    /\ UNCHANGED <<status, gone>>

Leave(c) ==
    /\ status[c] = "open" /\ ~gone[c]
    /\ gone' = [gone EXCEPT ![c] = TRUE]
    /\ UNCHANGED <<status, wire>>

Close(c) ==
    /\ status[c] = "open"
    /\ Complete(wire[c]) \/ gone[c]
    /\ status' = [status EXCEPT ![c] = "closed"]
    /\ UNCHANGED <<gone, wire>>

ServiceNext ==
    \E c \in Conn : Open(c) \/ Refuse(c) \/ Deliver(c) \/ Leave(c) \/ Close(c)

ServiceSpec == ServiceInit /\ [][ServiceNext]_serviceVars

-----------------------------------------------------------------------------

\* The segments are the header and then a prefix of the file cut into chunks.
Tiles(w) ==
    /\ w # <<>> => w[1] = Header
    /\ \A i \in 1..Len(w) - 1 :
          w[i + 1].from = End(w[i]) /\ w[i + 1].len \in 1..ChunkSize
    /\ Received(w) <= FileSize

\* What a client has received is in order: no byte is skipped, repeated or
\* taken from past the end of the file.
InOrder == \A c \in Conn : Tiles(wire[c])

\* A closed connection whose client stayed carried the whole file.
ClosedComplete ==
    \A c \in Conn : status[c] = "closed" /\ ~gone[c] => Complete(wire[c])

=============================================================================
