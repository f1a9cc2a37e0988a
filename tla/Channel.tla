------------------------------ MODULE Channel ------------------------------
(***************************************************************************)
(* What a connection promises the programs: every packet that was sent is  *)
(* received, whole, once and in order.  Sockets takes this for granted;    *)
(* Wire shows it of the bytes.                                             *)
(***************************************************************************)
EXTENDS Sequences

CONSTANT Packet

VARIABLES in_transit,  \* packets sent and not received
          received     \* packets received, oldest first

ChannelInit == in_transit = <<>> /\ received = <<>>

Put == \E p \in Packet : in_transit' = Append(in_transit, p) /\ UNCHANGED received

Get ==
    /\ in_transit # <<>>
    /\ received' = Append(received, Head(in_transit))
    /\ in_transit' = Tail(in_transit)

ChannelNext == Put \/ Get

ChannelSpec ==
    /\ ChannelInit
    /\ [][ChannelNext]_<<in_transit, received>>
    /\ WF_<<in_transit, received>>(Get)

=============================================================================
