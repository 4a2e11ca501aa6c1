------------------------------ MODULE AeadChannel ------------------------------
(***************************************************************************)
(* ascon: a sender that seals a counted greeting every two seconds and a   *)
(* receiver that opens whatever datagrams arrive, over a network that      *)
(* loses, repeats, reorders and damages them, while the sender restarts.   *)
(*                                                                         *)
(* A byte is a bit here, so that xor is addition modulo 2, and the lengths *)
(* are a quarter of those of Ascon and of the mock: counter and associated *)
(* data 8 bytes, nonce, tag and key 16.  Ascon, AES-GCM and ChaCha20-      *)
(* Poly1305 are calls of libraries and stand as one ideal cipher,          *)
(* "sealing"; the mock provider is computed as its code computes it.       *)
(***************************************************************************)
EXTENDS Integers, Sequences, FiniteSets

CONSTANTS
    Provider,   \* the providers looked at
    MaxCounter, \* bound of the model: datagrams sent in one run of the sender
    MaxBoots,   \* bound of the model: how often the sender starts
    MaxFlight   \* bound of the model: datagrams in the network

CounterLen == 2
NonceLen == 4
TagLen == 4

ASSUME AeadAssumption ==
    /\ Provider \subseteq {"sealing", "mock"}
    /\ MaxCounter \in 1..3 /\ MaxBoots \in Nat /\ MaxFlight \in Nat

VARIABLES
    provider,   \* the provider both are built with
    sender,     \* where the sender is: off, sealing a message, sending it, ended
    counter,
    packet,     \* the datagram being sent
    net,        \* datagrams in flight
    boots,      \* how often the sender has started
    sealed,     \* what has been sealed: datagrams with their text (history)
    used,       \* the nonces passed to aead_encrypt(), in order, each with the run
                \* of the sender it belongs to (history)
    receiver,   \* where the receiver is: listening, ended
    opened      \* the last datagram recvfrom() returned, with what was shown

sending == <<sender, counter, packet, boots, sealed, used>>
receiving == <<receiver, opened>>
aeadVars == <<provider, sending, net, receiving>>

Hello == <<1, 0>>
Key == <<0, 1, 1, 0>>

\* What is shown for a datagram that is not opened.
Refused == <<>>

AeadInit ==
    /\ provider \in Provider
    /\ sender = "off"
    /\ counter = 0
    /\ packet = <<>>
    /\ net = {}
    /\ boots = 0
    /\ sealed = {}
    /\ used = <<>>
    /\ receiver = "listening"
    /\ opened = {}

----------------------------------------------------------------------------
\* The providers.

\* The element of s that an index reaches when it wraps round, s[i % LEN].
Round(s, i) == s[((i - 1) % Len(s)) + 1]

\* All bits that land on place i of the accumulator.
Folded(s, i) ==
    Cardinality({j \in DOMAIN s : (j - 1) % TagLen = i - 1 /\ s[j] = 1})

FakeTag(ct, ad, npub) ==
    [i \in 1..TagLen |->
        (Round(Key, i) + Round(npub, i) + Folded(ct, i) + Folded(ad, i)) % 2]

Mask(text, npub) ==
    [i \in DOMAIN text |-> (text[i] + Round(Key, i) + Round(npub, i)) % 2]

\* The tag an ideal cipher gives: it fits what it was made for and nothing else.
Tag(ct, ad, npub) ==
    IF provider = "mock" THEN FakeTag(ct, ad, npub) ELSE <<ct, ad, npub>>

\* aead_encrypt(): the cipher text with its tag.
Encrypt(m, ad, npub) ==
    LET ct == Mask(m, npub)
    IN  [nonce |-> npub, ct |-> ct, tag |-> Tag(ct, ad, npub)]

\* aead_decrypt(): the text, unless the tag does not fit.
Decrypt(p, ad) ==
    IF p.tag = Tag(p.ct, ad, p.nonce) THEN Mask(p.ct, p.nonce) ELSE Refused

----------------------------------------------------------------------------
\* The sender.

\* be64(): the highest byte first.  Mutant: the lowest.
Le64(x) == <<x % 2, x \div 2>>
Be64(x) == <<x \div 2, x % 2>>

\* The nonce is the counter followed by the zeros of the static array.
Nonce(x) == Be64(x) \o [i \in 1..(NonceLen - CounterLen) |-> 0]

Aad(x) == Be64(x)

\* app_main() to the loop; the counter is not kept from the last run.
Boot ==
    /\ sender = "off"
    /\ boots < MaxBoots
    /\ boots' = boots + 1
    /\ \E next \in {"seal", "ended"} : sender' = next
    /\ counter' = 1
    /\ UNCHANGED <<provider, packet, net, sealed, used, receiving>>

Seal ==
    /\ sender = "seal"
    /\ counter <= MaxCounter
    /\ packet' = Encrypt(Hello, Aad(counter), Nonce(counter))
    /\ sealed' = sealed \cup {[packet |-> packet', text |-> Hello]}
    /\ used' = Append(used, [boot |-> boots, nonce |-> Nonce(counter)])
    /\ sender' = "send"
    /\ UNCHANGED <<provider, counter, net, boots, receiving>>

\* sendto(), and the two seconds to the next.
SendTo ==
    /\ sender = "send"
    /\ Cardinality(net) < MaxFlight
    /\ net' = net \cup {packet}
    /\ counter' = counter + 1
    /\ sender' = "seal"
    /\ UNCHANGED <<provider, packet, boots, sealed, used, receiving>>

\* Either call fails: the loop is left for close().
Fails ==
    /\ sender \in {"seal", "send"}
    /\ sender' = "ended"
    /\ UNCHANGED <<provider, counter, packet, net, boots, sealed, used, receiving>>

\* The board is reset, at any point.
Reset ==
    /\ sender # "off"
    /\ sender' = "off"
    /\ packet' = <<>>
    /\ UNCHANGED <<provider, counter, net, boots, sealed, used, receiving>>

Sender == Boot \/ Seal \/ SendTo \/ Fails \/ Reset

----------------------------------------------------------------------------
\* The network.

Flip(s, i) == [s EXCEPT ![i] = 1 - @]

\* One byte is damaged on the way: of the nonce, of the cipher text or of the
\* tag; or the datagram is cut, or somebody else's.
Damaged(p) ==
    {[p EXCEPT !.nonce = Flip(@, i)] : i \in DOMAIN p.nonce}
      \cup {[p EXCEPT !.ct = Flip(@, i)] : i \in DOMAIN p.ct}
      \cup {[p EXCEPT !.tag = IF provider = "mock" THEN Flip(@, 1) ELSE <<0>>]}
      \cup {[p EXCEPT !.ct = <<>>, !.tag = <<>>]}

Lose(p) == net' = net \ {p} /\ UNCHANGED <<provider, sending, receiving>>

Channel == \E p \in net : Lose(p)

----------------------------------------------------------------------------
\* The receiver.

\* Shorter than a nonce and a tag: ignored.
TooShort(p) == p.tag = <<>>

\* The associated data is rebuilt from the nonce.  Mutant: from its low bytes.
AadLow(p) == SubSeq(p.nonce, NonceLen - CounterLen + 1, NonceLen)
AadOf(p) == SubSeq(p.nonce, 1, CounterLen)

Shown(p) == IF TooShort(p) THEN Refused ELSE Decrypt(p, AadOf(p))

\* recvfrom() takes a datagram as it was sent or damaged; the network may have
\* kept a copy of it.
Recvfrom(p) ==
    /\ receiver = "listening"
    /\ \E q \in {p} \cup Damaged(p) : opened' = {[packet |-> q, text |-> Shown(q)]}
    /\ net' \in {net, net \ {p}}
    /\ UNCHANGED <<provider, sending, receiver>>

\* recvfrom() fails, which ends the receiver.
RecvfromFails ==
    /\ receiver = "listening"
    /\ receiver' = "ended"
    /\ UNCHANGED <<provider, sending, net, opened>>

Receiver == RecvfromFails \/ \E p \in net : Recvfrom(p)

AeadNext == Sender \/ Channel \/ Receiver

AeadSpec == AeadInit /\ [][AeadNext]_aeadVars

----------------------------------------------------------------------------

\* The count that a nonce carries, be64() read back.
Count(npub) == npub[1] * 2 + npub[2]

\* "128-bit nonce with a monotonically increasing 64-bit counter": while the sender
\* runs, whatever becomes of its datagrams, each nonce counts higher than those
\* before it, so that none is used twice.
NoncesGrow ==
    \A i, j \in 1..Len(used) :
        i < j /\ used[i].boot = used[j].boot => Count(used[i].nonce) < Count(used[j].nonce)

\* "Ensure uniqueness per key": the key is a constant of the program, so no nonce may
\* be used twice at all.  The code does not keep its counter over a reset.
NoncesUnique ==
    \A i, j \in 1..Len(used) : used[i].nonce = used[j].nonce => i = j

\* Whatever was lost, repeated, late or left over from an earlier run of the
\* sender, a datagram that arrives as it was sealed is opened to its text; and
\* none is shown that was not sealed, unless the mock provider opened it.
OpensWhatWasSealed ==
    \A o \in opened :
        IF \E s \in sealed : s.packet = o.packet
        THEN o \in sealed
        ELSE provider = "sealing" => o.text = Refused

----------------------------------------------------------------------------
(* The inductive invariant of the proofs.                                  *)

AeadTypeOK ==
    /\ provider \in Provider
    /\ sender \in {"off", "seal", "send", "ended"}
    /\ counter \in 0..MaxCounter + 1
    /\ boots \in 0..MaxBoots
    /\ receiver \in {"listening", "ended"}

\* What is sealed for a count, in whichever run of the sender.
Sealing(k) == [packet |-> Encrypt(Hello, Aad(k), Nonce(k)), text |-> Hello]

\* Only sealed datagrams are in flight.
Originals == {s.packet : s \in sealed}
Sealed ==
    /\ sender \in {"seal", "send"} => counter >= 1
    /\ sender = "send" => counter <= MaxCounter
    /\ \A s \in sealed : \E k \in 1..MaxCounter : s = Sealing(k)
    /\ net \subseteq Originals
    /\ sender = "send" => packet \in Originals

\* The receiver has shown what the datagram says, and nothing for one it refused.
Answered ==
    \A o \in opened :
        /\ o = [packet |-> o.packet, text |-> Shown(o.packet)]
        /\ o.packet \in Originals \/ (provider = "sealing" => o.text = Refused)

\* Nothing was used in a run to come, and in this run only what the counter has
\* passed, or is at while the datagram has still to be sent.
Passed(k) == IF sender = "send" THEN k <= counter ELSE k < counter
Counted ==
    /\ used \in Seq([boot : 1..MaxBoots, nonce : {Nonce(k) : k \in 1..MaxCounter}])
    /\ sender # "off" => boots >= 1
    /\ \A i \in 1..Len(used) :
          /\ used[i].boot <= boots
          /\ used[i].boot = boots /\ sender \in {"seal", "send"} => Passed(Count(used[i].nonce))

AeadInv == AeadTypeOK /\ Sealed /\ Answered /\ Counted /\ NoncesGrow

=============================================================================
