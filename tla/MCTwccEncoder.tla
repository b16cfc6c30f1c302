--------------------------- MODULE MCTwccEncoder ---------------------------
(***************************************************************************)
(* The packet lists buildTransportCCPacket encodes, grown one packet at a *)
(* time: a lost packet (Timestamp 0) or a received one arriving Step      *)
(* microseconds after the previous received one (a negative step is a    *)
(* packet that arrived before its predecessor in sequence order).  Steps  *)
(* in Jumps may be taken at most MaxJumps times, which keeps the number of *)
(* lists small while every chunk kind is reached.                          *)
(***************************************************************************)
EXTENDS TwccEncoder

CONSTANTS
  MaxLen,    \* longest tccPkts list
  T0,        \* arrival time of the packet before the list, in microseconds
  Steps,     \* inter-arrival steps that may be taken any number of times
  Jumps,     \* inter-arrival steps that may be taken MaxJumps times
  MaxJumps

ASSUME MCTwccAssumption ==
  /\ MaxLen \in Nat /\ T0 \in Nat \ {0} /\ MaxJumps \in Nat
  /\ Steps \subseteq Int /\ Jumps \subseteq Int

VARIABLES
  pkts,     \* tccPkts: Timestamp of each packet, 0 when lost
  lastTs,   \* Timestamp of the last received packet
  jumps     \* steps of Jumps taken

vars == <<pkts, lastTs, jumps>>

\* A packet that arrived 2 ms before its predecessor in sequence order.
MCBackStep == {-2000}

Init == pkts = <<>> /\ lastTs = T0 /\ jumps = 0

FeedLost ==
  /\ Len(pkts) < MaxLen
  /\ pkts' = Append(pkts, 0)
  /\ UNCHANGED <<lastTs, jumps>>

FeedReceived(d) ==
  /\ Len(pkts) < MaxLen
  /\ lastTs + d > 0
  /\ d \in Steps \/ (d \in Jumps /\ jumps < MaxJumps)
  /\ pkts' = Append(pkts, lastTs + d)
  /\ lastTs' = lastTs + d
  /\ jumps' = IF d \in Steps THEN jumps ELSE jumps + 1

Next == FeedLost \/ \E d \in Steps \cup Jumps : FeedReceived(d)

Spec == Init /\ [][Next]_vars

\* A list as the code hands it to the encoder ends with a received packet:
\* gap entries are only inserted before a received one.
Complete == Len(pkts) > 0 /\ pkts[Len(pkts)] # 0

(***************************************************************************)
(* Properties.                                                             *)
(***************************************************************************)

\* While the loop of buildTransportCCPacket runs, the chunks written so far
\* followed by the pending statusList stand for exactly the packets seen:
\* lost where a packet was lost, and with the delta sizes the deltas buffer
\* holds.  This is what the run-length, two-bit and one-bit packing and the
\* recount after a two-bit chunk (twcc.go 341-416) must preserve.
StatusesTrackPackets ==
  LET a == EncodeLoop(pkts)
  IN Agrees(DecodeChunks(a.chunks) \o a.list, a.deltas, pkts)

\* The finished feedback decodes, for the packet status count of its header,
\* to the packets' received/lost pattern with matching delta sizes (spec
\* 4.4: "feedback exactly reflects received/lost packets").
FeedbackDecodes ==
  Complete =>
    LET a == Encode(pkts)
    IN Agrees(DecodeChunks(a.chunks), a.deltas, pkts)

\* Spec property 6: the arrival times a sender reconstructs from the
\* reference time and the deltas are within 250 us of the real ones.
ArrivalWithinQuantum ==
  Complete =>
    LET a   == Encode(pkts)
        rec == Reconstructed(a.ref, a.deltas)
        arr == Arrivals(pkts)
    IN \A k \in 1 .. Len(arr) : rec[k] - arr[k] < 250 /\ arr[k] - rec[k] < 250

\* A delta never says a packet arrived before its predecessor when it
\* arrived after it, nor the reverse: the clamp of a large delta keeps its
\* sign.
DeltaSignKept ==
  LET a   == Encode(pkts)
      arr == Arrivals(pkts)
  IN \A k \in 2 .. Len(arr) : (a.deltas[k].val < 0) <=> (arr[k] < arr[k - 1])

\* t.deltas is a [200]byte array, and a batch holds at most 101 received
\* packets (Push builds as soon as len(extInfo) > 100): room for 100 large
\* deltas, 2 bytes short of 101.  The instance keeps that proportion for
\* batches of MaxLen packets.
DeltasCap == 2 * (MaxLen - 1)

\* writeDelta never writes past the end of t.deltas: the deltas of one
\* feedback fit in the array (a write past it panics in Push, under the
\* Responder's lock).
DeltasFit == DeltaLen(Encode(pkts).deltas) <= DeltasCap
=============================================================================
