---------------------------- MODULE TwccEncoder ----------------------------
(***************************************************************************)
(* The second half of Responder.buildTransportCCPacket (twcc.go 255-486): *)
(* the loop that turns the gap-filled, sorted packet list tccPkts into    *)
(* packet status chunks and receive deltas, and the final flush.  A       *)
(* packet is its Timestamp in microseconds; 0 marks a lost packet, as in  *)
(* the code.                                                               *)
(*                                                                         *)
(* A chunk is kept as what its 16 bits say: a run-length chunk as its     *)
(* symbol and length, a status vector chunk as its symbol size and the    *)
(* symbols written into it (masked to the symbol size, as                  *)
(* setNBitsOfUint16 does).  A delta is kept as its size in bytes and the  *)
(* value a receiver reads back from those bytes.                           *)
(*                                                                         *)
(* The decoder at the end is the receiver's side of the draft             *)
(* (draft-holmer-rmcat-transport-wide-cc-extensions-01, section 3.1),     *)
(* written from the draft and not from the code: the reference the        *)
(* encoder is checked against.                                             *)
(***************************************************************************)
EXTENDS Integers, Sequences

\* rtcp.TypeTCCPacket* status symbols and rtcp.TypeTCCSymbolSize* sizes.
NotReceived  == 0
SmallDelta   == 1
LargeDelta   == 2
WithoutDelta == 3
OneBit == 0
TwoBit == 1

\* Go's integer division truncates toward zero.
GoDiv(a, b) == IF a >= 0 THEN a \div b ELSE -((-a) \div b)

\* Go's int16(x): two's complement wrap.
Int16(x) == ((x + 32768) % 65536) - 32768

MaxStatus(a, b) == IF a > b THEN a ELSE b

\* rDelta := int16(delta) and its clamp, which tests the sign of the
\* wrapped value rDelta rather than of delta.
ClampDelta(d) ==
  LET r == Int16(d)
  IN IF r = d THEN r ELSE IF r > 0 THEN 32767 ELSE -32768

\* writeRunLengthChunk.
RunChunk(sym, n) == [kind |-> "run", sym |-> sym, n |-> n]

\* createStatusSymbolChunk for each symbol, then writeStatusSymbolChunk:
\* setNBitsOfUint16 keeps the low symbolSize+1 bits of each symbol.
VecChunk(size, syms) ==
  [kind |-> "vec", size |-> size,
   syms |-> [i \in 1 .. Len(syms) |-> syms[i] % (IF size = TwoBit THEN 4 ELSE 2)]]

\* The loop's local variables and the Responder fields it writes.
InitAcc ==
  [first |-> FALSE, same |-> TRUE, ts |-> 0, last |-> WithoutDelta,
   max |-> NotReceived, list |-> <<>>, chunks |-> <<>>, deltas |-> <<>>,
   ref |-> 0, ctn |-> 0]

\* A received packet: writeHeader on the first one (reference time in
\* 64 ms ticks, pktCtn++), then its delta in 250 us units from the previous
\* received packet's exact timestamp, written by writeDelta.
Receive(acc, t) ==
  LET ref   == IF acc.first THEN acc.ref ELSE t \div 64000
      prev  == IF acc.first THEN acc.ts ELSE ref * 64000
      delta == GoDiv(t - prev, 250)
  IN [acc EXCEPT !.first  = TRUE,
                 !.ref    = ref,
                 !.ctn    = IF acc.first THEN @ ELSE @ + 1,
                 !.deltas = Append(@, IF delta < 0 \/ delta > 255
                                        THEN [size |-> 2, val |-> ClampDelta(delta)]
                                        ELSE [size |-> 1, val |-> delta]),
                 !.ts     = t]

\* A change of status ends a run: a run of more than 7 becomes a
\* run-length chunk, a shorter one turns the list into a mixed one.
CloseRun(acc, status) ==
  IF acc.same /\ status # acc.last /\ acc.last # WithoutDelta
    THEN IF Len(acc.list) > 7
           THEN [acc EXCEPT !.chunks = Append(@, RunChunk(acc.last, Len(acc.list))),
                            !.list = <<>>, !.last = WithoutDelta,
                            !.max = NotReceived, !.same = TRUE]
           ELSE [acc EXCEPT !.same = FALSE]
    ELSE acc

\* The recount over the statuses left after a two-bit chunk (392-402).
Rescan(rest) ==
  LET f[k \in Nat] ==
        IF k = 0 THEN [last |-> WithoutDelta, max |-> NotReceived, same |-> TRUE]
        ELSE LET r == f[k - 1]
                 s == rest[k]
             IN [last |-> s, max |-> MaxStatus(r.max, s),
                 same |-> r.same /\ ~(r.last # WithoutDelta /\ s # r.last)]
  IN f[Len(rest)]

\* Mutant of TwoBitPack: the chunk takes six symbols and drops the seventh.
TwoBitPackShort(acc) ==
  LET rest == SubSeq(acc.list, 8, Len(acc.list))
      r    == Rescan(rest)
  IN [acc EXCEPT !.chunks = Append(@, VecChunk(TwoBit, SubSeq(acc.list, 1, 6))),
                 !.list = rest, !.last = r.last, !.max = r.max, !.same = r.same]

\* Seven statuses with a large delta among them: a two-bit vector chunk.
TwoBitPack(acc) ==
  LET rest == SubSeq(acc.list, 8, Len(acc.list))
      r    == Rescan(rest)
  IN [acc EXCEPT !.chunks = Append(@, VecChunk(TwoBit, SubSeq(acc.list, 1, 7))),
                 !.list = rest, !.last = r.last, !.max = r.max, !.same = r.same]

\* Fourteen mixed statuses: a one-bit vector chunk.
OneBitPack(acc) ==
  [acc EXCEPT !.chunks = Append(@, VecChunk(OneBit, SubSeq(acc.list, 1, 14))),
              !.list = SubSeq(acc.list, 15, Len(acc.list)),
              !.last = WithoutDelta, !.max = NotReceived, !.same = TRUE]

\* One iteration of the loop over tccPkts (280-417).
EncodeStep(acc, t) ==
  LET a1     == IF t # 0 THEN Receive(acc, t) ELSE acc
      status == IF t = 0 THEN NotReceived
                ELSE IF a1.deltas[Len(a1.deltas)].size = 2 THEN LargeDelta
                ELSE SmallDelta
      a2     == CloseRun(a1, status)
      a3     == [a2 EXCEPT !.list = Append(@, status),
                           !.max = MaxStatus(@, status), !.last = status]
  IN IF ~a3.same /\ a3.max = LargeDelta /\ Len(a3.list) > 6 THEN TwoBitPack(a3)
     ELSE IF ~a3.same /\ Len(a3.list) > 13 THEN OneBitPack(a3)
     ELSE a3

\* The loop over the whole list.
EncodeLoop(pkts) ==
  LET f[k \in Nat] == IF k = 0 THEN InitAcc ELSE EncodeStep(f[k - 1], pkts[k])
  IN f[Len(pkts)]

\* for i := 0; i < statusList.Len(); i++ { statusList.PopFront() ... }
\* pops while i < the shrinking length: ceil(n/2) of n statuses.
Popped(n) == (n + 1) \div 2

\* The flush of the statuses left after the loop (420-437).
Flush(acc) ==
  LET n == Len(acc.list)
      k == Popped(n)
  IN IF n = 0 THEN acc
     ELSE IF acc.same
       THEN [acc EXCEPT !.chunks = Append(@, RunChunk(acc.last, n))]
     ELSE [acc EXCEPT !.chunks = Append(@, VecChunk(IF acc.max = LargeDelta THEN TwoBit ELSE OneBit,
                                                    SubSeq(acc.list, 1, k))),
                      !.list = SubSeq(acc.list, k + 1, n)]

\* The feedback built from tccPkts: chunks, deltas, reference time.
Encode(pkts) == Flush(EncodeLoop(pkts))

(***************************************************************************)
(* The receiver's decoder (reference).                                     *)
(***************************************************************************)

\* The statuses a chunk stands for: a vector chunk always carries 7 two-bit
\* or 14 one-bit symbols, the unwritten ones read as 0.
ChunkSymbols(c) ==
  IF c.kind = "run" THEN [i \in 1 .. c.n |-> c.sym]
  ELSE [i \in 1 .. (IF c.size = TwoBit THEN 7 ELSE 14) |->
          IF i <= Len(c.syms) THEN c.syms[i] ELSE NotReceived]

DecodeChunks(chunks) ==
  LET f[k \in Nat] == IF k = 0 THEN <<>> ELSE f[k - 1] \o ChunkSymbols(chunks[k])
  IN f[Len(chunks)]

\* The size in bytes of the delta a received status announces.
DeltaSize(s) == IF s = LargeDelta THEN 2 ELSE 1

\* The statuses and delta sizes agree with the packets: status i says
\* received exactly when packet i was, and the received statuses announce,
\* in order, the sizes of the deltas written.
Agrees(statuses, deltas, pkts) ==
  /\ Len(statuses) >= Len(pkts)
  /\ LET st   == SubSeq(statuses, 1, Len(pkts))
         recv == SelectSeq(st, LAMBDA s : s # NotReceived)
     IN /\ \A i \in 1 .. Len(pkts) : (st[i] # NotReceived) <=> (pkts[i] # 0)
        /\ Len(recv) = Len(deltas)
        /\ \A i \in 1 .. Len(recv) : DeltaSize(recv[i]) = deltas[i].size

\* The arrival times a sender reconstructs: the reference time plus the
\* running sum of the deltas, in microseconds.
Reconstructed(ref, deltas) ==
  LET f[k \in Nat] == IF k = 0 THEN ref * 64000 ELSE f[k - 1] + 250 * deltas[k].val
  IN [k \in 1 .. Len(deltas) |-> f[k]]

Arrivals(pkts) == SelectSeq(pkts, LAMBDA t : t # 0)

\* t.deltaLen after the loop: writeDelta advances it by 1 for a small and by
\* 2 for a large delta (637-650).
DeltaLen(deltas) ==
  LET f[k \in Nat] == IF k = 0 THEN 0 ELSE f[k - 1] + deltas[k].size
  IN f[Len(deltas)]
=============================================================================
