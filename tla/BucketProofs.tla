---------------------------- MODULE BucketProofs ----------------------------
(***************************************************************************)
(* Proofs about the packet ring of pkg/buffer/bucket.go (module Bucket),   *)
(* for every ring size, every starting sequence number and every bound.    *)
(*                                                                         *)
(* SeqNum (the uint16 range) is kept opaque: the facts about it are the    *)
(* two lemmas below, and every arithmetic leaf is sent to SMT.             *)
(***************************************************************************)
EXTENDS Bucket, TLAPS

\* The remainder of Go's unsigned wraparound arithmetic and of the ring's
\* modulus: x % n lies in 0 .. n-1 for every positive n.
LEMMA ModInRange ==
  ASSUME NEW n \in Nat \ {0}, NEW x \in Int
  PROVE  x % n \in 0 .. n - 1
BY SMT

\* A uint16 conversion (U16) always yields a uint16.
LEMMA U16Range ==
  ASSUME NEW x \in Int
  PROVE  U16(x) \in SeqNum
BY SMT DEF U16, SeqNum

\* A uint16 is a non-negative integer.
LEMMA SeqNumNat ==
  ASSUME NEW x \in SeqNum
  PROVE  x \in Nat
BY SMT DEF SeqNum

\* The slot index arithmetic of AddPacket never leaves the ring: the skip
\* loop of bucket.go:86-91 ends on a slot of 0..maxSteps for any number of
\* skipped sequence numbers.
LEMMA SkipStepsInSlots ==
  ASSUME NEW s \in Slots, NEW k \in Int
  PROVE  SkipSteps(s, k) \in Slots
<1>1. MaxSteps \in Nat \ {0} /\ k - 1 \in Int /\ s + k \in Int
  BY BucketAssumption, SMT DEF Slots
<1>2. (k - 1) % MaxSteps \in 0 .. MaxSteps - 1
  BY <1>1, ModInRange, Zenon
<1>3. (s + k) % MaxSteps \in 0 .. MaxSteps - 1
  BY <1>1, ModInRange, Zenon
<1>4. QED
  BY <1>2, <1>3, BucketAssumption, SMT DEF SkipSteps, Slots

\* push's increment of b.step (bucket.go:117-120) stays in 0..maxSteps.
LEMMA NextStepInSlots ==
  ASSUME NEW s \in Slots
  PROVE  NextStep(s) \in Slots
BY BucketAssumption, SMT DEF NextStep, Slots

\* set writes a late packet to a slot of the ring whenever its distance
\* check (bucket.go:144-146) lets it through.
LEMMA SetPosInSlots ==
  ASSUME NEW st \in Slots, NEW d \in SeqNum, d < MaxSteps + 1
  PROVE  (IF st - (d + 1) < 0 THEN MaxSteps + (st - (d + 1)) + 1 ELSE st - (d + 1)) \in Slots
<1>1. d \in Nat
  BY SeqNumNat
<1>2. QED
  BY <1>1, BucketAssumption, SMT DEF Slots

\* TypeOK strengthened: the in-order run is never longer than the number of
\* AddPacket calls, which keeps contig within its bound.
IInv == TypeOK /\ contig <= adds

\* Every sequence number the network may deliver is a uint16.
LEMMA DeliveredSeqsAreU16 ==
  ASSUME TypeOK
  PROVE  NewerSeqs \subseteq SeqNum /\ OlderSeqs \subseteq SeqNum
<1>1. headSN \in Nat
  BY SeqNumNat DEF TypeOK
<1>2. \A d \in Int : U16(headSN + d) \in SeqNum /\ U16(headSN - d) \in SeqNum
  BY <1>1, U16Range
<1>3. 1 .. MaxGap \subseteq Int /\ 0 .. MaxBack \subseteq Int
  BY BucketAssumption, SMT
<1>4. FirstSeqs \subseteq SeqNum
  BY BucketAssumption
<1>5. NewerSeqs \subseteq SeqNum
  BY <1>2, <1>3, <1>4, Zenon DEF NewerSeqs
<1>6. OlderSeqs \subseteq SeqNum
  BY <1>2, <1>3, Zenon DEF OlderSeqs
<1>7. QED
  BY <1>5, <1>6

\* Every initial state satisfies the strengthened type invariant.
LEMMA InitIInv == Init => IInv
<1> SUFFICES ASSUME Init PROVE IInv
  OBVIOUS
<1>1. 0 \in SeqNum
  BY SMT DEF SeqNum
<1>2. {Zeroed} \cup {[sn |-> x, cur |-> FALSE] : x \in StaleSeqs} \subseteq SlotContent
  <2>1. Zeroed \in SlotContent
    BY <1>1 DEF SlotContent, Zeroed
  <2>2. \A x \in StaleSeqs : [sn |-> x, cur |-> FALSE] \in SlotContent
    BY BucketAssumption DEF SlotContent
  <2>3. QED
    BY <2>1, <2>2
<1>3. buf \in [Slots -> SlotContent]
  BY <1>2 DEF Init
<1>4. init \in BOOLEAN /\ headSN \in SeqNum /\ sent \subseteq SeqNum
  BY <1>1 DEF Init
<1>5. step \in Slots /\ contig \in 0 .. MaxAdds /\ adds \in 0 .. MaxAdds /\ contig <= adds
  BY BucketAssumption, SMT DEF Init, Slots
<1>6. QED
  BY <1>3, <1>4, <1>5 DEF IInv, TypeOK

\* Every step of the ring preserves the strengthened type invariant.
LEMMA NextIInv == IInv /\ [Next]_vars => IInv'
<1> SUFFICES ASSUME IInv, [Next]_vars PROVE IInv'
  OBVIOUS
<1>0. headSN \in Nat /\ step \in Slots
  BY SeqNumNat DEF IInv, TypeOK
<1>1. ASSUME NEW sn \in NewerSeqs, AddLatest(sn) PROVE IInv'
  <2> DEFINE head0 == IF init THEN headSN ELSE U16(sn - 1)
             s     == SkipSteps(step, U16(sn - head0) - 1)
  <2>1. sn \in SeqNum /\ sn \in Nat
    BY DeliveredSeqsAreU16, SeqNumNat DEF IInv
  <2>2. head0 \in Nat
    <3>1. U16(sn - 1) \in SeqNum
      BY <2>1, U16Range
    <3>2. U16(sn - 1) \in Nat
      BY <3>1, SeqNumNat
    <3>3. QED
      BY <1>0, <3>2
  <2>3. U16(sn - head0) \in Nat
    <3>1. U16(sn - head0) \in SeqNum
      BY <2>1, <2>2, U16Range
    <3>2. QED
      BY <3>1, SeqNumNat
  <2>4. s \in Slots
    BY <1>0, <2>3, SkipStepsInSlots
  <2>5. step' = NextStep(s) /\ buf' = [buf EXCEPT ![s] = [sn |-> sn, cur |-> TRUE]]
    BY <1>1, Zenon DEF AddLatest
  <2>6. step' \in Slots
    BY <2>4, <2>5, NextStepInSlots
  <2>7. buf' \in [Slots -> SlotContent]
    BY <2>1, <2>4, <2>5, Zenon DEF IInv, TypeOK, SlotContent
  <2>8. contig' <= adds' /\ adds' \in 0 .. MaxAdds /\ contig' \in 0 .. MaxAdds
    BY <1>1, BucketAssumption, SMT DEF AddLatest, IInv, TypeOK
  <2>9. init' \in BOOLEAN /\ headSN' \in SeqNum /\ sent' \subseteq SeqNum
    BY <1>1, <2>1, Zenon DEF AddLatest, IInv, TypeOK
  <2>10. QED
    BY <2>6, <2>7, <2>8, <2>9, Zenon DEF IInv, TypeOK
<1>2. ASSUME NEW sn \in OlderSeqs, AddOld(sn) PROVE IInv'
  <2>1. sn \in SeqNum /\ sn \in Nat
    BY DeliveredSeqsAreU16, SeqNumNat DEF IInv
  <2>2. adds' \in 0 .. MaxAdds /\ contig' <= adds' /\ contig' \in 0 .. MaxAdds
    BY <1>2, BucketAssumption, SMT DEF AddOld, IInv, TypeOK
  <2>3. UNCHANGED <<init, step, headSN>>
    BY <1>2 DEF AddOld
  <2>4. CASE U16(headSN - sn) >= MaxSteps + 1 \/ buf[SetPos(sn)].sn = sn
    <3>1. UNCHANGED <<buf, sent>>
      BY <1>2, <2>4, Zenon DEF AddOld
    <3>2. QED
      BY <2>2, <2>3, <3>1, Zenon DEF IInv, TypeOK
  <2>5. CASE ~(U16(headSN - sn) >= MaxSteps + 1 \/ buf[SetPos(sn)].sn = sn)
    <3>0. U16(headSN - sn) \in SeqNum
      BY <1>0, <2>1, U16Range
    <3>1. U16(headSN - sn) \in SeqNum /\ U16(headSN - sn) < MaxSteps + 1
      <4>1. U16(headSN - sn) \in Nat
        BY <3>0, SeqNumNat
      <4>2. QED
        BY <3>0, <4>1, <2>5, BucketAssumption, SMT
    <3>2. SetPos(sn) \in Slots
      BY <1>0, <3>1, SetPosInSlots DEF SetPos
    <3>3. buf' = [buf EXCEPT ![SetPos(sn)] = [sn |-> sn, cur |-> TRUE]]
          /\ sent' = sent \cup {sn}
      BY <1>2, <2>5, Zenon DEF AddOld
    <3>4. buf' \in [Slots -> SlotContent] /\ sent' \subseteq SeqNum
      BY <2>1, <3>2, <3>3, Zenon DEF IInv, TypeOK, SlotContent
    <3>5. QED
      BY <2>2, <2>3, <3>4, Zenon DEF IInv, TypeOK
  <2>6. QED
    BY <2>4, <2>5
<1>3. CASE UNCHANGED vars
  BY <1>3, Zenon DEF vars, IInv, TypeOK
<1>4. QED
  BY <1>1, <1>2, <1>3 DEF Next

\* Type correctness of the ring: b.step always indexes a slot, every slot
\* holds a uint16 sequence number, and the bookkeeping stays in its bounds,
\* whatever gaps, late packets and retransmissions arrive.
THEOREM TypeCorrect == Spec => []TypeOK
<1>1. IInv => TypeOK
  BY DEF IInv
<1>2. QED
  BY <1>1, InitIInv, NextIInv, PTL DEF Spec

(***************************************************************************)
(* The in-order run in the ring.                                           *)
(***************************************************************************)

\* The slot d+1 behind st, wrapping as get and set do: where the packet d
\* behind the head was pushed when the pushes since were in order.
RingSlot(st, d) ==
  IF st - (d + 1) < 0 THEN MaxSteps + (st - (d + 1)) + 1 ELSE st - (d + 1)

\* The last contig pushes sit in the slots behind b.step, newest first,
\* each holding its own sequence number.
InOrderRun ==
  \A d \in 0 .. MaxSteps :
    d < contig => buf[RingSlot(step, d)] = [sn |-> U16(headSN - d), cur |-> TRUE]

\* The inductive invariant of InOrderRetrievable.
RInv == IInv /\ InOrderRun

\* The slot RingSlot names lies in the ring.
LEMMA RingSlotInSlots ==
  ASSUME NEW st \in Slots, NEW d \in 0 .. MaxSteps
  PROVE  RingSlot(st, d) \in Slots
BY BucketAssumption, SMT DEF RingSlot, Slots

\* Different distances behind the same step name different slots.
LEMMA RingSlotInjective ==
  ASSUME NEW st \in Slots, NEW d \in 0 .. MaxSteps, NEW e \in 0 .. MaxSteps, d # e
  PROVE  RingSlot(st, d) # RingSlot(st, e)
BY BucketAssumption, SMT DEF RingSlot, Slots

\* push (bucket.go:113-120) moves the run one slot further behind b.step:
\* the packet just written to s is 0 behind NextStep(s), the one d behind
\* s is d+1 behind it, and no packet of the run but the newest is in s.
LEMMA RingSlotAfterPush ==
  ASSUME NEW s \in Slots, NEW d \in 0 .. MaxSteps - 1
  PROVE  /\ RingSlot(NextStep(s), 0) = s
         /\ RingSlot(NextStep(s), d + 1) = RingSlot(s, d)
         /\ RingSlot(s, d) # s
BY BucketAssumption, SMT DEF RingSlot, NextStep, Slots

\* The uint16 distance from h back to h - y is y.
LEMMA U16Twice ==
  ASSUME NEW h \in SeqNum, NEW y \in SeqNum
  PROVE  U16(h - U16(h - y)) = y
BY SMT DEF U16, SeqNum

\* When x follows h in uint16 order, counting back d+1 from x is counting
\* back d from h.
LEMMA U16Succ ==
  ASSUME NEW h \in SeqNum, NEW x \in SeqNum, U16(x - h) = 1, NEW d \in Int
  PROVE  U16(x - (d + 1)) = U16(h - d)
BY SMT DEF U16, SeqNum

\* get (bucket.go:123-138) finds a packet of the run: the packet d behind
\* the head maps back to distance d, so to the slot it was pushed to, and
\* the distance check never rejects it.
LEMMA GetOfRun ==
  ASSUME TypeOK, NEW d \in 0 .. MaxSteps,
         buf[RingSlot(step, d)] = [sn |-> U16(headSN - d), cur |-> TRUE]
  PROVE  Get(U16(headSN - d)) = [sn |-> U16(headSN - d), cur |-> TRUE]
<1> DEFINE x == U16(headSN - d)
<1>1. d \in SeqNum /\ d + 1 \in SeqNum
  BY BucketAssumption, SMT DEF SeqNum
<1>2. U16(U16(headSN - x) + 1) = d + 1
  <2>1. U16(headSN - x) = d
    BY <1>1, U16Twice DEF TypeOK
  <2>2. U16(d + 1) = d + 1
    BY <1>1, SMT DEF U16, SeqNum
  <2>3. QED
    BY <2>1, <2>2
<1>3. GetPos(x) = RingSlot(step, d)
  BY <1>2, BucketAssumption, SMT DEF GetPos, RingSlot, TypeOK, Slots
<1>4. RingSlot(step, d) # -1
  BY RingSlotInSlots, SMT DEF TypeOK, Slots
<1>5. QED
  BY <1>3, <1>4 DEF Get

\* The sequence number get reads from a slot this stream wrote.
LEMMA SlotSeq ==
  ASSUME NEW c, NEW v, c = [sn |-> v, cur |-> TRUE]
  PROVE  c.sn = v
OBVIOUS

\* AddPacket with latest = TRUE (bucket.go:79-95) writes the slot that
\* SkipSteps picks, which lies in the ring.
LEMMA LatestSlotInSlots ==
  ASSUME TypeOK, NEW sn \in SeqNum
  PROVE  SkipSteps(step, U16(sn - (IF init THEN headSN ELSE U16(sn - 1))) - 1) \in Slots
<1> DEFINE head0 == IF init THEN headSN ELSE U16(sn - 1)
<1>1. sn \in Nat /\ headSN \in Nat /\ U16(sn - 1) \in Nat
  BY U16Range, SeqNumNat DEF TypeOK
<1>2. head0 \in Nat
  BY <1>1
<1>3. U16(sn - head0) \in SeqNum
  BY <1>1, <1>2, U16Range
<1>4. U16(sn - head0) \in Nat
  BY <1>3, SeqNumNat
<1>5. QED
  BY <1>4, SkipStepsInSlots DEF TypeOK

\* Every step keeps the in-order run in the slots behind b.step: an
\* in-order push shifts the run by one slot, a push after a gap starts a
\* new run of one, and a late packet is never written over a packet of the
\* run, since set's duplicate check finds it there first.
LEMMA NextRun == IInv /\ InOrderRun /\ [Next]_vars => InOrderRun'
<1> SUFFICES ASSUME IInv, InOrderRun, [Next]_vars PROVE InOrderRun'
  OBVIOUS
<1>0. headSN \in SeqNum /\ step \in Slots /\ contig \in Nat
  BY DEF IInv, TypeOK
<1>1. ASSUME NEW sn \in NewerSeqs, AddLatest(sn) PROVE InOrderRun'
  <2> DEFINE head0 == IF init THEN headSN ELSE U16(sn - 1)
             s     == SkipSteps(step, U16(sn - head0) - 1)
  <2>1. sn \in SeqNum
    BY DeliveredSeqsAreU16 DEF IInv
  <2>2. s \in Slots
    BY <2>1, LatestSlotInSlots DEF IInv
  <2>3. /\ step' = NextStep(s)
        /\ buf' = [buf EXCEPT ![s] = [sn |-> sn, cur |-> TRUE]]
        /\ headSN' = sn
        /\ contig' = IF init /\ U16(sn - headSN) = 1 THEN contig + 1 ELSE 1
    BY <1>1, Zenon DEF AddLatest
  <2>4. buf \in [Slots -> SlotContent]
    BY DEF IInv, TypeOK
  <2> SUFFICES ASSUME NEW d \in 0 .. MaxSteps, d < contig'
               PROVE  buf'[RingSlot(step', d)] = [sn |-> U16(sn - d), cur |-> TRUE]
    BY <2>3 DEF InOrderRun
  <2>5. CASE d = 0
    <3>1. RingSlot(step', 0) = s
      BY <2>2, <2>3, RingSlotAfterPush, BucketAssumption, SMT
    <3>2. U16(sn - 0) = sn
      BY <2>1, SMT DEF U16, SeqNum
    <3>3. QED
      BY <2>2, <2>3, <2>4, <2>5, <3>1, <3>2
  <2>6. CASE d # 0
    <3>1. init /\ U16(sn - headSN) = 1 /\ d - 1 < contig
      BY <1>0, <2>3, <2>6, SMT
    <3>2. s = step
      BY <3>1 DEF SkipSteps
    <3>3. d - 1 \in 0 .. MaxSteps - 1 /\ d - 1 \in 0 .. MaxSteps /\ (d - 1) + 1 = d
      BY <2>6, BucketAssumption, SMT
    <3>4. RingSlot(step', d) = RingSlot(step, d - 1) /\ RingSlot(step, d - 1) # step
      BY <1>0, <2>3, <3>2, <3>3, RingSlotAfterPush
    <3>5. buf[RingSlot(step, d - 1)] = [sn |-> U16(headSN - (d - 1)), cur |-> TRUE]
      BY <3>1, <3>3 DEF InOrderRun
    <3>6. U16(sn - d) = U16(headSN - (d - 1))
      BY <1>0, <2>1, <3>1, <3>3, U16Succ
    <3>7. RingSlot(step, d - 1) \in Slots
      BY <1>0, <3>3, RingSlotInSlots
    <3>8. QED
      BY <2>3, <2>4, <3>2, <3>4, <3>5, <3>6, <3>7
  <2>7. QED
    BY <2>5, <2>6
<1>2. ASSUME NEW sn \in OlderSeqs, AddOld(sn) PROVE InOrderRun'
  <2>1. sn \in SeqNum
    BY DeliveredSeqsAreU16 DEF IInv
  <2>2. UNCHANGED <<step, headSN, contig>>
    BY <1>2 DEF AddOld
  <2>3. CASE U16(headSN - sn) >= MaxSteps + 1 \/ buf[SetPos(sn)].sn = sn
    <3>1. UNCHANGED buf
      BY <1>2, <2>3, Zenon DEF AddOld
    <3>2. QED
      BY <2>2, <3>1 DEF InOrderRun
  <2>4. CASE ~(U16(headSN - sn) >= MaxSteps + 1 \/ buf[SetPos(sn)].sn = sn)
    <3> DEFINE e == U16(headSN - sn)
    <3>1. e \in 0 .. MaxSteps
      <4>1. e \in Nat
        BY <1>0, <2>1, U16Range, SeqNumNat
      <4>2. QED
        BY <4>1, <2>4, BucketAssumption, SMT
    <3>2. SetPos(sn) = RingSlot(step, e)
      BY DEF SetPos, RingSlot
    <3>3. buf' = [buf EXCEPT ![RingSlot(step, e)] = [sn |-> sn, cur |-> TRUE]]
      BY <1>2, <2>4, <3>2, Zenon DEF AddOld
    <3>4. buf[RingSlot(step, e)].sn # sn
      BY <2>4, <3>2
    <3> SUFFICES ASSUME NEW d \in 0 .. MaxSteps, d < contig
                 PROVE  buf'[RingSlot(step, d)] = [sn |-> U16(headSN - d), cur |-> TRUE]
      BY <2>2 DEF InOrderRun
    <3>5. d # e
      <4>1. U16(headSN - e) = sn
        BY <1>0, <2>1, U16Twice
      <4>2. buf[RingSlot(step, d)] = [sn |-> U16(headSN - d), cur |-> TRUE]
        BY DEF InOrderRun
      <4>3. buf[RingSlot(step, d)].sn = U16(headSN - d)
        BY <4>2, SlotSeq
      <4>4. QED
        BY <3>4, <4>1, <4>3
    <3>6. RingSlot(step, d) # RingSlot(step, e)
      BY <1>0, <3>1, <3>5, RingSlotInjective
    <3>7. buf \in [Slots -> SlotContent] /\ RingSlot(step, d) \in Slots
      BY <1>0, RingSlotInSlots DEF IInv, TypeOK
    <3>8. QED
      BY <3>3, <3>6, <3>7 DEF InOrderRun
  <2>5. QED
    BY <2>3, <2>4
<1>3. CASE UNCHANGED vars
  BY <1>3 DEF vars, InOrderRun
<1>4. QED
  BY <1>1, <1>2, <1>3 DEF Next

\* get returns every packet pushed in order since the last loss, up to
\* maxSteps+1 of them (InOrderRetrievable), for every ring size below 2^16,
\* every starting sequence number and every mix of gaps and late packets.
THEOREM InOrderRetrievableHolds == Spec => []InOrderRetrievable
<1>1. Init => RInv
  BY InitIInv DEF Init, RInv, InOrderRun
<1>2. RInv /\ [Next]_vars => RInv'
  BY NextIInv, NextRun DEF RInv
<1>3. RInv => InOrderRetrievable
  BY GetOfRun DEF RInv, IInv, InOrderRun, InOrderRetrievable
<1>4. QED
  BY <1>1, <1>2, <1>3, PTL DEF Spec

=============================================================================
