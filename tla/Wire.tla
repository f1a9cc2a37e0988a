-------------------------------- MODULE Wire --------------------------------
(***************************************************************************)
(* One connection, byte by byte (shared/src/networking.c).  The threads    *)
(* that write to it make three sends for a packet: its header, the size of *)
(* its payload and the payload.  The thread at the other end runs the loop *)
(* of packet_handler: it reads the three fields, each in as many recvs as  *)
(* it takes, and tries again six times when a read fails.                  *)
(***************************************************************************)
EXTENDS Serialization

CONSTANTS Packets,     \* Packets[link][t]: what thread t sends over that connection
          MaxPackets,  \* how many packets are sent
          SocketBuffer \* how many bytes the connection holds

\* The packets with a payload of that type.
Carrying(type, Bodies) == [header : 0 .. 255, type : {type}, body : Bodies]

ASSUME PacketsAssumption ==
    \A l \in DOMAIN Packets : \A t \in DOMAIN Packets[l] : \A p \in Packets[l][t] :
        \/ p \in Carrying("process", Processes)
        \/ p \in Carrying("pcb", Pcbs)
        \/ p \in Carrying("numbers", Seq(Uint32s))
\* A handler is chosen by the header.
ASSUME HeadersAssumption ==
    \A l \in DOMAIN Packets : \A t, u \in DOMAIN Packets[l] :
        \A p \in Packets[l][t], q \in Packets[l][u] :
            p.header = q.header => p.type = q.type
ASSUME MaxPacketsAssumption == MaxPackets \in Nat
ASSUME SocketBufferAssumption == SocketBuffer \in Nat \ {0}

\* What a packet carries decides which function serialises it.
Payload(p) ==
    CASE p.type = "process" -> StreamAdd(StreamAddProcess(p.body))
      [] p.type = "pcb" -> StreamAdd(StreamAddPcb(p.body))
      [] p.type = "numbers" ->
           StreamAdd(FlattenSeq([i \in DOMAIN p.body |-> StreamAddUint32(p.body[i])]))

\* No size outgrows the uint32_t that it is sent in.
ASSUME SizesAssumption ==
    \A l \in DOMAIN Packets : \A t \in DOMAIN Packets[l] : \A p \in Packets[l][t] :
        Payload(p).offset \in Uint32s

VARIABLES
    link,       \* which connection this is
    begun,      \* how many packets have been begun
    packet,     \* packet[t]: the packet thread t is sending
    unsent,     \* unsent[t]: what is left of its three sends
    alive,      \* the sending program has not died
    bytes,      \* what is on its way
    sent,       \* the packets whose last byte has been sent, oldest first
    field,      \* the field the reader is at
    got,        \* its bytes so far
    header,     \* the header read
    size,       \* the size read
    tries,      \* how many receives have failed one after another
    delivered,  \* the packets handed to a handler, taken apart
    unread      \* how many bytes of their payloads were not taken

senderVars == <<link, begun, packet, unsent, alive, sent>>
readerVars == <<field, got, header, size, tries, delivered, unread>>
wireVars == <<senderVars, bytes, readerVars>>

Threads == DOMAIN Packets[link]

Nothing == [type |-> "nothing"]

WireInit ==
    /\ link \in DOMAIN Packets
    /\ begun = 0
    /\ packet = [t \in Threads |-> Nothing]
    /\ unsent = [t \in Threads |-> <<>>]
    /\ alive = TRUE
    /\ bytes = <<>>
    /\ sent = <<>>
    /\ field = "header"
    /\ got = <<>>
    /\ header = 0
    /\ size = 0
    /\ tries = 0
    /\ delivered = <<>>
    /\ unread = 0

-----------------------------------------------------------------------------
(* The senders. *)

\* A thread has a packet to send.  No lock is taken.
SocketSendPacket(t) ==
    /\ alive
    /\ unsent[t] = <<>>
    /\ begun < MaxPackets
    /\ \E p \in Packets[link][t] :
         /\ packet' = [packet EXCEPT ![t] = p]
         /\ unsent' = [unsent EXCEPT ![t] =
              <<<<p.header>>, Uint32(Payload(p).offset), Payload(p).stream>>]
    /\ begun' = begun + 1
    /\ UNCHANGED <<link, alive, sent, bytes, readerVars>>

\* send takes what there is room for, and the loop sends the rest; with no
\* payload the third send makes no call.
SendWrapper(t) ==
    /\ alive
    /\ unsent[t] # <<>>
    /\ Len(bytes) < SocketBuffer
    /\ LET part == Head(unsent[t])
           taken == Min({Len(part), SocketBuffer - Len(bytes)})
           left == SubSeq(part, taken + 1, Len(part))
           rest == (IF left = <<>> THEN <<>> ELSE <<left>>) \o Tail(unsent[t])
       IN  /\ bytes' = bytes \o SubSeq(part, 1, taken)
           /\ unsent' = [unsent EXCEPT ![t] = IF rest = <<<<>>>> THEN <<>> ELSE rest]
    /\ sent' = IF unsent'[t] = <<>> THEN Append(sent, packet[t]) ELSE sent
    /\ UNCHANGED <<link, begun, packet, alive, readerVars>>

\* The sending program dies, between two sends or in the middle of one.
Die ==
    /\ alive
    /\ alive' = FALSE
    /\ UNCHANGED <<link, begun, packet, unsent, sent, bytes, readerVars>>

-----------------------------------------------------------------------------
(* What the handler of a packet makes of its payload. *)

\* What the packets with header h carry on this connection.
TypeOf(h) ==
    LET known == {p \in UNION {Packets[link][t] : t \in Threads} : p.header = h} IN
    IF known = {} THEN "unknown" ELSE (CHOOSE p \in known : TRUE).type

\* The payload s taken apart, and how far its handler gets.
Taken(type, s) ==
    CASE type = "process" -> StreamTakeProcess(s, 0)
      [] type = "pcb" -> StreamTakePcb(s, 0)
      [] type = "numbers" -> StreamTakeNumbers(s)
      [] type = "unknown" -> s

TakenUpTo(type, s) ==
    CASE type = "process" -> AfterProcess(s, 0)
      [] type = "pcb" -> AfterPcb(s, 0)
      [] type = "numbers" -> 4 * (Len(s) \div 4)
      [] type = "unknown" -> 0

-----------------------------------------------------------------------------
(* The reader. *)

\* socket_retry_packet makes six more attempts after the first.
Attempts == 7

Closed == tries = Attempts

FieldSize == [header |-> 1, size |-> 4, payload |-> size]

\* A whole packet goes to its handler, and the loop starts again.
Deliver(payload) ==
    /\ delivered' = Append(delivered,
         [header |-> header, type |-> TypeOf(header), body |-> Taken(TypeOf(header), payload)])
    /\ unread' = unread + Len(payload) - TakenUpTo(TypeOf(header), payload)
    /\ field' = "header"
    /\ tries' = 0
    /\ UNCHANGED <<header, size>>

\* The field is complete.  A payload of size 0 is not read.
NextField(value) ==
    \/ /\ field = "header"
       /\ header' = value[1]
       /\ field' = "size"
       /\ UNCHANGED <<size, tries, delivered, unread>>
    \/ /\ field = "size" /\ ValueOf(value) > 0
       /\ size' = ValueOf(value)
       /\ field' = "payload"
       /\ UNCHANGED <<header, tries, delivered, unread>>
    \/ field = "size" /\ ValueOf(value) = 0 /\ Deliver(<<>>)
    \/ field = "payload" /\ Deliver(value)

\* recv returns some of the bytes that are there, no more than are missing.
ReceiveWrapper ==
    /\ ~Closed
    /\ \E n \in 1 .. Min({FieldSize[field] - Len(got), Len(bytes)}) :
         \E value \in {got \o SubSeq(bytes, 1, n)} :
           /\ bytes' = SubSeq(bytes, n + 1, Len(bytes))
           /\ IF Len(value) = FieldSize[field]
              THEN got' = <<>> /\ NextField(value)
              ELSE got' = value /\ UNCHANGED <<field, header, size, tries, delivered, unread>>
    /\ UNCHANGED senderVars

\* A plausible bug: the count of attempts starts again.
ReceiveFails_Forever ==
    /\ ~Closed
    /\ bytes = <<>> /\ ~alive
    /\ got' = <<>>
    /\ field' = "header"
    /\ tries' = IF tries = Attempts - 1 THEN 1 ELSE tries + 1
    /\ UNCHANGED <<senderVars, bytes, header, size, delivered, unread>>

\* Nothing is left and nobody will send more: recv returns 0, the packet is
\* dropped and, after the last attempt, the socket is closed.
ReceiveFails ==
    /\ ~Closed
    /\ bytes = <<>> /\ ~alive
    /\ got' = <<>>
    /\ field' = "header"
    /\ tries' = tries + 1
    /\ UNCHANGED <<senderVars, bytes, header, size, delivered, unread>>

-----------------------------------------------------------------------------

Reader == ReceiveWrapper \/ ReceiveFails

Ended == Closed /\ UNCHANGED wireVars

WireNext ==
    \/ \E t \in Threads : SocketSendPacket(t) \/ SendWrapper(t)
    \/ Die
    \/ Reader
    \/ Ended

\* The reader is a thread that runs until it blocks.  Senders may stop at any point.
WireSpec == WireInit /\ [][WireNext]_wireVars /\ WF_wireVars(Reader)

-----------------------------------------------------------------------------
(* Properties. *)

\* One thread sends packets over each connection, as everywhere but from the kernel
\* to the memory server.
OneSender == \A l \in DOMAIN Packets : \E t : DOMAIN Packets[l] = {t}

AllPackets ==
    UNION {UNION {Packets[l][t] : t \in DOMAIN Packets[l]} : l \in DOMAIN Packets}

Undelivered == SubSeq(sent, Len(delivered) + 1, Len(sent))

Connection ==
    INSTANCE Channel WITH Packet <- AllPackets,
                          in_transit <- Undelivered,
                          received <- delivered

(***************************************************************************)
(* With one thread sending, the bytes implement the channel of whole       *)
(* packets: whatever pieces send and recv cut them into, and whenever the  *)
(* sender dies, the handlers get exactly the packets that were completely  *)
(* sent, in order, with every field as it was added, and a packet cut      *)
(* short is never handed over.                                             *)
(***************************************************************************)
ImplementsChannel == Connection!ChannelSpec

(***************************************************************************)
(* Buffers are never overrun: a packet is sent from within its block, and  *)
(* taking a received one apart ends exactly at the end of its payload.     *)
(***************************************************************************)
StreamsInBounds ==
    /\ \A t \in Threads :
         packet[t] # Nothing => Payload(packet[t]).offset <= Payload(packet[t]).malloc_size
    /\ unread = 0

(***************************************************************************)
(* A dead peer is noticed: after the last packet has been read and seven   *)
(* receives have failed the socket is closed.                              *)
(***************************************************************************)
DeadPeerNoticed == ~alive ~> Closed

\* "Pide a memoria creacion de estructuras segun pid y size" (kernel.c,
\* new_to_ready), "Pide suspension a memoria" (io_listener): what a thread of the
\* kernel asks of the memory server reaches it.
RequestsArrive ==
    \A i \in DOMAIN delivered : i <= Len(sent) /\ delivered[i] = sent[i]

=============================================================================
