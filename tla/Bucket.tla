------------------------------- MODULE Bucket -------------------------------
(***************************************************************************)
(* The RTP packet ring of pkg/buffer/bucket.go.                            *)
(*                                                                         *)
(* A Bucket owns maxSteps+1 slots of maxPktSize bytes.  A slot is          *)
(* abstracted to the two things get and set look at: the RTP sequence      *)
(* number stored in the packet's header (bytes 4..5 of the slot) and       *)
(* whether the bytes were written by this stream ("cur") or were left in   *)
(* the pooled byte slice by an earlier stream or never written.  The       *)
(* payload itself is not modelled.                                         *)
(*                                                                         *)
(* Sequence arithmetic is kept at the code's width: uint16, i.e. % 2^16.   *)
(* The caller (Buffer.Write, not under src/) passes latest = TRUE exactly  *)
(* when the sequence number is newer than the highest one seen.           *)
(***************************************************************************)
EXTENDS Integers, FiniteSets

CONSTANTS
  MaxSteps,    \* maxSteps: floor(len(buf)/maxPktSize) - 1; slots 0..MaxSteps
  FirstSeqs,   \* sequence numbers a stream may start with
  MaxGap,      \* largest forward jump of a newer packet (MaxGap - 1 lost)
  MaxBack,     \* how far behind the head a late packet may arrive
  StaleSeqs,   \* seqs a recycled sync.Pool slice may still hold per slot
  MaxAdds      \* bound on the number of AddPacket calls explored

\* The uint16 sequence numbers, 0 .. 65535 (written as a bound on Nat so
\* that the proofs reason about it arithmetically).
SeqNum == {n \in Nat : n < 65536}

\* The ring holds fewer than 2^16 slots: set compares against
\* uint16(b.maxSteps+1) (bucket.go:144), which is maxSteps+1 only below
\* 2^16; the factory's slices hold trackingPackets slots (part_003:81,
\* 500 in its example).
ASSUME BucketAssumption ==
  /\ MaxSteps \in Nat \ {0} /\ MaxSteps < 65535
  /\ FirstSeqs \subseteq SeqNum
  /\ MaxGap \in Nat \ {0}
  /\ MaxBack \in Nat
  /\ StaleSeqs \subseteq SeqNum
  /\ MaxAdds \in Nat

U16(x) == x % 65536

Slots == 0 .. MaxSteps

\* The content of a slot as seen by get/set.
SlotContent == [sn : SeqNum, cur : BOOLEAN]

\* A slot of a fresh make([]byte, ...) reads sequence number 0.
Zeroed == [sn |-> 0, cur |-> FALSE]

\* Result of get when it returns nil (errPacketNotFound).
NotFound == [sn |-> -1, cur |-> FALSE]

VARIABLES
  init,     \* b.init
  step,     \* b.step: the slot the next in-order packet is pushed to
  headSN,   \* b.headSN: highest sequence number added
  buf,      \* b.buf, one SlotContent per slot
  sent,     \* ghost: sequence numbers this stream stored successfully
  contig,   \* ghost: length of the gap-free run of pushes ending at headSN
  adds      \* ghost: number of AddPacket calls so far (bounded by MaxAdds)

vars == <<init, step, headSN, buf, sent, contig, adds>>

(***************************************************************************)
(* Helpers translated from bucket.go.                                      *)
(***************************************************************************)

\* The skip loop of AddPacket: k = diff-1 increments of step, each wrapping
\* to 0 when step >= maxSteps.  Closed form of the loop: from maxSteps the
\* first increment wraps to 0; below it the loop counts modulo maxSteps.
\* MCBucket checks it against the loop written out step by step.
SkipSteps(s, k) ==
  IF k = 0 THEN s
  ELSE IF s >= MaxSteps THEN (k - 1) % MaxSteps
  ELSE (s + k) % MaxSteps

\* Mutant of NextStep: push wraps like the skip loop (>= instead of >).
NextStepWrapEarly(s) == IF s + 1 >= MaxSteps THEN 0 ELSE s + 1

\* Mutant of NextStep: push wraps one slot too late (off by one).
NextStepWrapLate(s) == IF s + 1 > MaxSteps + 1 THEN 0 ELSE s + 1

\* push: the slot following s, wrapping to 0 when step > maxSteps.
NextStep(s) == IF s + 1 > MaxSteps THEN 0 ELSE s + 1

\* get: the slot a sequence number maps to, or -1 when the distance check
\* rejects it.  headSN - sn + 1 is computed in uint16.
GetPos(sn) ==
  LET pos == step - U16(U16(headSN - sn) + 1)
  IN IF pos < 0
       THEN IF -pos > MaxSteps + 1 THEN -1 ELSE MaxSteps + pos + 1
       ELSE pos

\* get: the packet returned for sn, or NotFound.
Get(sn) ==
  LET pos == GetPos(sn)
  IN IF pos = -1 \/ buf[pos].sn # sn THEN NotFound ELSE buf[pos]

\* set: the slot a late packet is written to (its guard is in AddOld).
SetPos(sn) ==
  LET pos == step - (U16(headSN - sn) + 1)
  IN IF pos < 0 THEN MaxSteps + pos + 1 ELSE pos

\* The caller's ordering test: sn is newer than the current head.
IsNewer(sn) == ~init \/ U16(sn - headSN) \in 1 .. 32767

(***************************************************************************)
(* Operations.                                                             *)
(***************************************************************************)

Init ==
  /\ init = FALSE
  /\ step = 0
  /\ headSN = 0
  /\ buf \in [Slots -> {Zeroed} \cup {[sn |-> s, cur |-> FALSE] : s \in StaleSeqs}]
  /\ sent = {}
  /\ contig = 0
  /\ adds = 0

\* AddPacket(pkt, sn, latest = TRUE): skip the lost slots, push at the head.
AddLatest(sn) ==
  LET head0 == IF init THEN headSN ELSE U16(sn - 1)
      s     == SkipSteps(step, U16(sn - head0) - 1)
  IN /\ adds < MaxAdds
     /\ IsNewer(sn)
     /\ init' = TRUE
     /\ headSN' = sn
     /\ buf' = [buf EXCEPT ![s] = [sn |-> sn, cur |-> TRUE]]
     /\ step' = NextStep(s)
     /\ sent' = sent \cup {sn}
     /\ contig' = IF init /\ U16(sn - headSN) = 1 THEN contig + 1 ELSE 1
     /\ adds' = adds + 1

\* AddPacket(pkt, sn, latest = FALSE) -> set: refuse a packet too old or one
\* whose slot already holds sn (errPacketTooOld, errRTXPacket), else
\* overwrite the slot.
AddOld(sn) ==
  /\ adds < MaxAdds
  /\ init
  /\ ~IsNewer(sn)
  /\ adds' = adds + 1
  /\ IF U16(headSN - sn) >= MaxSteps + 1 \/ buf[SetPos(sn)].sn = sn
       THEN UNCHANGED <<buf, sent>>
       ELSE /\ buf' = [buf EXCEPT ![SetPos(sn)] = [sn |-> sn, cur |-> TRUE]]
            /\ sent' = sent \cup {sn}
  /\ UNCHANGED <<init, step, headSN, contig>>

\* The sequence numbers the network may deliver next.
NewerSeqs == IF init THEN {U16(headSN + d) : d \in 1 .. MaxGap} ELSE FirstSeqs
OlderSeqs == {U16(headSN - d) : d \in 0 .. MaxBack}

Next ==
  \/ \E sn \in NewerSeqs : AddLatest(sn)
  \/ \E sn \in OlderSeqs : AddOld(sn)

Spec == Init /\ [][Next]_vars

(***************************************************************************)
(* Properties.                                                             *)
(***************************************************************************)

TypeOK ==
  /\ init \in BOOLEAN
  /\ step \in Slots
  /\ headSN \in SeqNum
  /\ buf \in [Slots -> SlotContent]
  /\ sent \subseteq SeqNum
  /\ contig \in 0 .. MaxAdds
  /\ adds \in 0 .. MaxAdds

\* What the ring does guarantee: the packets pushed in order since the last
\* loss (at most maxSteps+1 of them) are all returned by get, whatever late
\* packets arrived in between.  A late packet never lands on one of them.
InOrderRetrievable ==
  \A d \in 0 .. MaxSteps :
    d < contig => Get(U16(headSN - d)) = [sn |-> U16(headSN - d), cur |-> TRUE]

\* Completeness of retransmission (Bucket.get, used by RetransmitPackets):
\* every packet this stream stored within the last maxSteps+1 sequence
\* numbers is still returned by get, also after gaps and late arrivals.
BucketComplete ==
  \A sn \in sent :
    U16(headSN - sn) <= MaxSteps => Get(sn) = [sn |-> sn, cur |-> TRUE]

\* Soundness of get: for a sequence number of this stream, get returns
\* either nothing or that stream's packet, never bytes left in a recycled
\* slice by an earlier stream.
BucketSound ==
  \A sn \in sent : Get(sn) \in {NotFound, [sn |-> sn, cur |-> TRUE]}

=============================================================================
