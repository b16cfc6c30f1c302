--------------------------- MODULE TwccResponder ---------------------------
(***************************************************************************)
(* The TWCC Responder of pkg/twcc/twcc.go: Push, the report trigger and   *)
(* the first half of buildTransportCCPacket (sort, skip below lastExtSN,  *)
(* gap fill, header), with the packet network in front of it.             *)
(*                                                                         *)
(* The publisher numbers its packets with consecutive transport-wide      *)
(* sequence numbers FirstSeq, FirstSeq+1, ... (the true extended numbers; *)
(* the wire carries them mod 2^16).  The network loses packets, delivers  *)
(* a packet at most Reorder-1 places late, and may deliver a packet again. *)
(* Every delivery is a Push(sn, timeNS, marker) under the Responder's lock.*)
(*                                                                         *)
(* The status chunks and deltas of the feedback are the subject of module *)
(* TwccEncoder; here a feedback is its header (base sequence number,      *)
(* packet status count, feedback packet count) and the extended numbers   *)
(* it covers and says were received.                                       *)
(***************************************************************************)
EXTENDS Integers, Sequences, FiniteSets, TLC

CONSTANTS
  MinBatch,     \* Push builds only when len(extInfo) > MinBatch (20 in the code)
  MaxBatch,     \* ... or len(extInfo) > MaxBatch (100 in the code)
  ReportDelta,  \* tccReportDelta, ns
  MarkDelta,    \* tccReportDeltaAfterMark, ns
  FirstSeq,     \* true extended transport seq of the first packet
  NumPkts,      \* packets the publisher sends
  Reorder,      \* a packet is delivered before every packet Reorder places after it
  MaxDup,       \* duplicate deliveries the network may make
  T0,           \* arrival time of the first delivery, ns
  TimeSteps     \* time between two deliveries, ns

ASSUME ResponderAssumption ==
  /\ MinBatch \in Nat /\ MaxBatch \in Nat /\ MinBatch < MaxBatch
  /\ ReportDelta \in Nat /\ MarkDelta \in Nat
  /\ FirstSeq \in Nat \ {0} /\ NumPkts \in Nat \ {0}
  /\ Reorder \in Nat \ {0} /\ MaxDup \in Nat
  /\ T0 \in Nat \ {0} /\ TimeSteps \subseteq Nat

U16(x) == x % 65536

\* The header of a feedback that has not been written yet (t.len = 0).
NoHeader == [base |-> 0, count |-> 0, ctn |-> 0, lo |-> 0, hi |-> -1, recv |-> {}]

VARIABLES
  extInfo,     \* t.extInfo: [ext, ts, true] (true: ghost, the packet's true number)
  lastReport,  \* t.lastReport
  cycles,      \* t.cycles
  lastSn,      \* t.lastSn
  lastExtSN,   \* t.lastExtSN
  pktCtn,      \* t.pktCtn
  hdr,         \* the feedback t.payload[:t.len] holds
  now,         \* time of the last delivery, ns
  pending,     \* indices 0..NumPkts-1 of the packets not yet delivered or lost
  dups,        \* duplicate deliveries made
  pushed,      \* ghost: extended numbers Push has recorded
  misnumbered, \* ghost: Push has given some packet a wrong extended number
  fb           \* ghost: the feedback packets onFeedback received, in order

vars == <<extInfo, lastReport, cycles, lastSn, lastExtSN, pktCtn, hdr, now,
          pending, dups, pushed, misnumbered, fb>>

(***************************************************************************)
(* buildTransportCCPacket, first half.                                     *)
(***************************************************************************)

\* sort.Slice of extInfo by ExtTSN.
Sorted(info) == SortSeq(info, LAMBDA a, b : a.ext < b.ext)

\* Mutant of GapFill: the gap loop starts one past lastExtSN+1.
GapFillFromLast(sorted, last0) ==
  LET f[k \in Nat] ==
        IF k = 0 THEN [last |-> last0, n |-> 0, base |-> 0, recv |-> {}]
        ELSE LET a   == f[k - 1]
                 e   == sorted[k]
                 gap == IF a.last # 0 /\ e.ext > a.last + 2 THEN e.ext - a.last - 2 ELSE 0
             IN IF e.ext < a.last THEN a
                ELSE [last |-> e.ext, n |-> a.n + gap + 1,
                      base |-> IF a.n > 0 THEN a.base ELSE IF gap > 0 THEN a.last + 2 ELSE e.ext,
                      recv |-> a.recv \cup {e.ext}]
  IN f[Len(sorted)]

\* Mutant of GapFill: entries below lastExtSN are not skipped.
GapFillNoSkip(sorted, last0) ==
  LET f[k \in Nat] ==
        IF k = 0 THEN [last |-> last0, n |-> 0, base |-> 0, recv |-> {}]
        ELSE LET a   == f[k - 1]
                 e   == sorted[k]
                 gap == IF a.last # 0 /\ e.ext > a.last + 1 THEN e.ext - a.last - 1 ELSE 0
             IN [last |-> e.ext, n |-> a.n + gap + 1,
                 base |-> IF a.n > 0 THEN a.base ELSE IF gap > 0 THEN a.last + 1 ELSE e.ext,
                 recv |-> a.recv \cup {e.ext}]
  IN f[Len(sorted)]

\* The loop of 231-250: skip what is below lastExtSN, insert a not-received
\* entry for every number between lastExtSN and the next entry (not when
\* lastExtSN is still 0), advance lastExtSN.  n is len(tccPkts), base the
\* ExtTSN of tccPkts[0], recv the numbers of the received entries.
GapFill(sorted, last0) ==
  LET f[k \in Nat] ==
        IF k = 0 THEN [last |-> last0, n |-> 0, base |-> 0, recv |-> {}]
        ELSE LET a   == f[k - 1]
                 e   == sorted[k]
                 gap == IF a.last # 0 /\ e.ext > a.last + 1 THEN e.ext - a.last - 1 ELSE 0
             IN IF e.ext < a.last THEN a
                ELSE [last |-> e.ext, n |-> a.n + gap + 1,
                      base |-> IF a.n > 0 THEN a.base ELSE IF gap > 0 THEN a.last + 1 ELSE e.ext,
                      recv |-> a.recv \cup {e.ext}]
  IN f[Len(sorted)]

\* The feedback a build emits and the header it leaves in t.payload.  The
\* header is written (with the current pktCtn, which then increments) only
\* when tccPkts has a received entry; otherwise t.len and t.payload still
\* hold the previous feedback, and that is what is sent.
Feedback(g, old) ==
  IF g.n > 0
    THEN [base |-> U16(g.base), count |-> U16(g.n), ctn |-> pktCtn,
          lo |-> g.base, hi |-> g.last, recv |-> g.recv]
    ELSE old

(***************************************************************************)
(* Push.                                                                   *)
(***************************************************************************)

\* The cycle test of Push (155-157).
NextCycles(sn) == IF sn < 4095 /\ lastSn > 61440 THEN cycles + 65536 ELSE cycles

\* Push(sn, timeNS, marker) of the packet whose true number is tr.
Push(sn, tr, t, marker) ==
  LET cyc   == NextCycles(sn)
      ext   == cyc + sn
      info  == Append(extInfo, [ext |-> ext, ts |-> t \div 1000, true |-> tr])
      lr    == IF lastReport = 0 THEN t ELSE lastReport
      delta == t - lr
      fire  == /\ Len(info) > MinBatch
               /\ \/ delta >= ReportDelta
                  \/ Len(info) > MaxBatch
                  \/ marker /\ delta >= MarkDelta
      g     == GapFill(Sorted(info), lastExtSN)
      f     == Feedback(g, hdr)
  IN /\ cycles' = cyc
     /\ lastSn' = sn
     /\ pushed' = pushed \cup {ext}
     /\ misnumbered' = (misnumbered \/ ext # tr)
     /\ IF fire
          THEN /\ extInfo' = <<>>
               /\ lastExtSN' = g.last
               /\ hdr' = f
               /\ pktCtn' = IF g.n > 0 THEN (pktCtn + 1) % 256 ELSE pktCtn
               /\ fb' = Append(fb, f)
               /\ lastReport' = t
          ELSE /\ extInfo' = info
               /\ lastReport' = lr
               /\ UNCHANGED <<lastExtSN, hdr, pktCtn, fb>>

(***************************************************************************)
(* The network.                                                            *)
(***************************************************************************)

\* Packet i may be delivered while no packet Reorder or more places before
\* it is still pending.
Deliverable(i) == i \in pending /\ \A j \in pending : j > i - Reorder

Init ==
  /\ extInfo = <<>>
  /\ lastReport = 0
  /\ cycles = 0
  /\ lastSn = 0
  /\ lastExtSN = 0
  /\ pktCtn = 0
  /\ hdr = NoHeader
  /\ now = T0
  /\ pending = 0 .. NumPkts - 1
  /\ dups = 0
  /\ pushed = {}
  /\ misnumbered = FALSE
  /\ fb = <<>>

\* The packet reaches the SFU, d ns after the previous delivery.
Deliver(i, d, marker) ==
  /\ Deliverable(i)
  /\ pending' = pending \ {i}
  /\ now' = now + d
  /\ Push(U16(FirstSeq + i), FirstSeq + i, now + d, marker)
  /\ UNCHANGED dups

\* The packet is lost.
Lose(i) ==
  /\ Deliverable(i)
  /\ pending' = pending \ {i}
  /\ UNCHANGED <<extInfo, lastReport, cycles, lastSn, lastExtSN, pktCtn, hdr,
                 now, dups, pushed, misnumbered, fb>>

\* A packet already delivered arrives again.
Duplicate(i, d, marker) ==
  /\ i \in 0 .. NumPkts - 1
  /\ i \notin pending
  /\ dups < MaxDup
  /\ dups' = dups + 1
  /\ now' = now + d
  /\ Push(U16(FirstSeq + i), FirstSeq + i, now + d, marker)
  /\ UNCHANGED pending

Next ==
  \/ \E i \in 0 .. NumPkts - 1, d \in TimeSteps, m \in BOOLEAN : Deliver(i, d, m)
  \/ \E i \in 0 .. NumPkts - 1 : Lose(i)
  \/ \E i \in 0 .. NumPkts - 1, d \in TimeSteps, m \in BOOLEAN : Duplicate(i, d, m)

Spec == Init /\ [][Next]_vars

(***************************************************************************)
(* Properties.                                                             *)
(***************************************************************************)

\* Each feedback starts where the previous one ended: its base sequence
\* number is the previous base plus the previous packet status count (mod
\* 2^16), so the sender sees every transport sequence number in exactly one
\* feedback, whatever was lost or reordered (twcc.go 231-250, 300-302) --
\* as long as Push has numbered every packet right (ExtSeqCorrect).
ReportsChained ==
  ~misnumbered =>
    \A k \in 1 .. Len(fb) - 1 : fb[k + 1].base = U16(fb[k].base + fb[k].count)

\* A feedback the build writes (pktCtn advances) never reports as lost a
\* packet Push had already recorded when it was sent (in the Responder's
\* extended numbering), also when the network duplicates packets: the sort,
\* the skip below lastExtSN and the gap fill of 220-253 only insert
\* not-received entries for numbers no entry of the batch has.  (A resent
\* stale feedback is the subject of FeedbackCountAdvances.)
LostMeansMissing ==
  [][Len(fb') > Len(fb) /\ pktCtn' # pktCtn =>
       LET r == fb'[Len(fb')]
       IN \A x \in pushed' : r.lo <= x /\ x <= r.hi => x \in r.recv]_vars

\* Every recorded extended number is the packet's true one: the cycle
\* detection of Push follows the 2^16 wrap, also for reordered packets
\* (spec property 6: "reordered seq numbers including one 2^16 wrap").
ExtSeqCorrect == ~misnumbered

\* Every feedback sent carries a new feedback packet count: the draft
\* requires the count to increment with each feedback packet.
FeedbackCountAdvances ==
  \A k \in 1 .. Len(fb) - 1 : fb[k + 1].ctn # fb[k].ctn
=============================================================================
