----------------------------- MODULE NackQueue -----------------------------
(***************************************************************************)
(* The NACK queue of pkg/buffer/nack.go, driven by its caller.            *)
(*                                                                         *)
(* nackQueue keeps a list of (extended seq, times NACKed) sorted by seq.  *)
(* The jitter buffer (Buffer, not under src/; its calls are modelled from  *)
(* spec section 4.3) pushes every sequence number skipped by a newer       *)
(* packet, removes a sequence number when a late packet or retransmission  *)
(* arrives, and on its RTCP timer calls pairs(highest seq) to build a      *)
(* Generic NACK and decide whether to ask for a keyframe.                  *)
(*                                                                         *)
(* A NackPair is kept as its PacketID and the set of bit indices of its    *)
(* LostPackets bitmask; bit k names PacketID + k + 1.                      *)
(***************************************************************************)
EXTENDS Integers, Sequences, FiniteSets

CONSTANTS
  MaxNackCache,  \* maxNackCache (100 in the code)
  Base,          \* extended seq of the first packet of the stream
  W              \* number of sequence numbers the publisher sends

ASSUME NackAssumption ==
  /\ MaxNackCache \in Nat \ {0}
  /\ Base \in Nat
  /\ W \in Nat \ {0}
  /\ Base + W <= 2^30   \* extended seqs stay far below 2^32 - 2

MaxNackTimes == 3   \* maxNackTimes

U16(x) == x % 65536

\* nck.sn >= headSN-2 in uint32: when headSN < 2 the subtraction wraps to
\* 2^32 - 2 or 2^32 - 1, above every extended seq of the window.
Fresh(sn, headSN) == headSN >= 2 /\ sn >= headSN - 2

Window == Base .. Base + W - 1

Nack == [sn : Nat, nacked : Nat]

VARIABLES
  nacks,      \* n.nacks
  kfSN,       \* n.kfSN
  head,       \* Buffer: highest extended seq received
  received,   \* Buffer: extended seqs that reached the buffer
  out,        \* extended seqs named by the NACK the last pairs call built
  askKF,      \* whether the last pairs call asked for a keyframe
  nackCount,  \* ghost: how many NACKs have named each sequence number
  evicted     \* ghost: seqs dropped from the front when the queue overflowed

vars == <<nacks, kfSN, head, received, out, askKF, nackCount, evicted>>

(***************************************************************************)
(* nackQueue operations, as operators on the list.                        *)
(***************************************************************************)

\* sort.Search: the first index whose seq is >= x, or Len(q) + 1.
SearchIdx(q, x) ==
  LET ge == {j \in 1 .. Len(q) : q[j].sn >= x}
  IN IF ge = {} THEN Len(q) + 1 ELSE CHOOSE j \in ge : \A k \in ge : j <= k

\* Mutant of remove: the seq check after sort.Search is dropped.
RemoveUnchecked(q, x) ==
  LET i == SearchIdx(q, x)
  IN IF i > Len(q) THEN q ELSE SubSeq(q, 1, i - 1) \o SubSeq(q, i + 1, Len(q))

\* remove: delete the entry for x if there is one.
RemoveOp(q, x) ==
  LET i == SearchIdx(q, x)
  IN IF i > Len(q) \/ q[i].sn # x THEN q
     ELSE SubSeq(q, 1, i - 1) \o SubSeq(q, i + 1, Len(q))

\* push, overflow step: copy(n.nacks, n.nacks[1:]) shifts the list left by
\* one without shortening it, so the last entry ends up twice.
Overflow(q) == Tail(q) \o <<q[Len(q)]>>

\* push: insert x with count 0 unless present; shift when at capacity.
PushOp(q, x) ==
  LET i   == SearchIdx(q, x)
      ins == SubSeq(q, 1, i - 1) \o <<[sn |-> x, nacked |-> 0]>> \o SubSeq(q, i, Len(q))
  IN IF i <= Len(q) /\ q[i].sn = x THEN q
     ELSE IF Len(ins) >= MaxNackCache THEN Overflow(ins) ELSE ins

\* The Buffer pushes every seq in lo..hi, lowest first.
PushRange(q, lo, hi) ==
  LET f[k \in Nat] == IF k = 0 THEN q ELSE PushOp(f[k - 1], lo + k - 1)
  IN f[IF hi >= lo THEN hi - lo + 1 ELSE 0]

\* Mutant of the escalation test: a packet is NACKed maxNackTimes+1 times.
EscalateLate(nck) == nck.nacked > MaxNackTimes

\* The escalation test of pairs.
Escalate(nck) == nck.nacked >= MaxNackTimes

\* One iteration of the loop of pairs over entry nck.  The accumulator holds
\* the entries kept (n.nacks[:i]), the pair being built (pid, lost), the
\* pairs finished (nps), askKF and kfSN.
PairsStep(acc, nck, headSN) ==
  IF Escalate(nck)
    THEN [acc EXCEPT !.kfSN  = IF nck.sn > acc.kfSN THEN nck.sn ELSE @,
                     !.askKF = @ \/ nck.sn > acc.kfSN]
  ELSE IF Fresh(nck.sn, headSN)
    THEN [acc EXCEPT !.kept = Append(@, nck)]
  ELSE
    LET x    == U16(nck.sn)
        acc1 == [acc EXCEPT !.kept = Append(@, [sn |-> nck.sn, nacked |-> nck.nacked + 1])]
        bit  == U16(x - acc.pid - 1)
    IN IF acc.pid = 0 \/ x > U16(acc.pid + 16)
         THEN [acc1 EXCEPT !.nps  = IF acc.pid # 0
                                      THEN Append(@, [pid |-> acc.pid, lost |-> acc.lost])
                                      ELSE @,
                           !.pid  = x,
                           !.lost = {}]
         \* 1 << bit is 0 in a uint16 when bit >= 16
         ELSE [acc1 EXCEPT !.lost = IF bit < 16 THEN @ \cup {bit} ELSE @]

\* pairs(headSN): the whole loop, then the trailing pair.
PairsOp(q, kf, headSN) ==
  LET f[k \in Nat] ==
        IF k = 0 THEN [kept |-> <<>>, pid |-> 0, lost |-> {}, nps |-> <<>>,
                       askKF |-> FALSE, kfSN |-> kf]
        ELSE PairsStep(f[k - 1], q[k], headSN)
      r == f[Len(q)]
  IN [r EXCEPT !.nps = IF r.pid # 0 THEN Append(@, [pid |-> r.pid, lost |-> r.lost]) ELSE @]

\* The 16-bit sequence numbers a NACK names (NackPair.PacketList).
PacketList(np) == {np.pid} \cup {U16(np.pid + k + 1) : k \in np.lost}

\* The extended seqs of the window a list of pairs names.
Named(nps) == {s \in Window : \E j \in 1 .. Len(nps) : U16(s) \in PacketList(nps[j])}

\* The entries whose count the pairs call increments.
Counted(q, headSN) ==
  {q[j].sn : j \in {k \in 1 .. Len(q) : ~Escalate(q[k]) /\ ~Fresh(q[k].sn, headSN)}}

QueueSeqs(q) == {q[j].sn : j \in 1 .. Len(q)}

(***************************************************************************)
(* The caller's steps.                                                     *)
(***************************************************************************)

Init ==
  /\ nacks = <<>>
  /\ kfSN = 0
  /\ head = Base
  /\ received = {Base}
  /\ out = {}
  /\ askKF = FALSE
  /\ nackCount = [s \in Window |-> 0]
  /\ evicted = {}

\* Buffer.Write of a packet newer than the head: every seq skipped is
\* pushed, then the head moves.
ArriveNewer(s) ==
  LET q == PushRange(nacks, head + 1, s - 1)
  IN /\ s > head
     /\ nacks' = q
     /\ head' = s
     /\ received' = received \cup {s}
     /\ evicted' = evicted \cup (((head + 1 .. s - 1) \cup QueueSeqs(nacks)) \ QueueSeqs(q))
     /\ UNCHANGED <<kfSN, out, askKF, nackCount>>

\* Buffer.Write of a late packet or a retransmission: remove it.
ArriveLate(s) ==
  /\ s < head
  /\ s \notin received
  /\ nacks' = RemoveOp(nacks, s)
  /\ received' = received \cup {s}
  /\ UNCHANGED <<kfSN, head, out, askKF, nackCount, evicted>>

\* The RTCP timer: pairs(head), a NACK for the pairs built and a keyframe
\* request when askKF.  An empty queue returns at once.
Pairs ==
  /\ nacks # <<>>
  /\ LET r == PairsOp(nacks, kfSN, head)
     IN /\ nacks' = r.kept
        /\ kfSN' = r.kfSN
        /\ out' = Named(r.nps)
        /\ askKF' = r.askKF
        /\ nackCount' = [s \in Window |-> IF s \in Named(r.nps) THEN nackCount[s] + 1
                                          ELSE nackCount[s]]
  /\ UNCHANGED <<head, received, evicted>>

Next ==
  \/ \E s \in Window : ArriveNewer(s)
  \/ \E s \in Window : ArriveLate(s)
  \/ Pairs

Spec == Init /\ [][Next]_vars

(***************************************************************************)
(* Properties.                                                             *)
(***************************************************************************)

TypeOK ==
  /\ nacks \in Seq(Nack)
  /\ kfSN \in Nat
  /\ head \in Window
  /\ received \subseteq Window
  /\ out \subseteq Window
  /\ askKF \in BOOLEAN
  /\ nackCount \in [Window -> Nat]
  /\ evicted \subseteq Window

\* A lost packet is asked for at most maxNackTimes times, whatever the
\* order of arrivals, timer ticks and queue overflows.
NackAtMostMaxTimes == \A s \in Window : nackCount[s] <= MaxNackTimes

\* A packet the publisher sent and the SFU has not received leaves the NACK
\* queue only by being covered by a keyframe request or by being evicted on
\* overflow: the queue never forgets a loss silently.
LossAccounted ==
  \A s \in Window :
    (s < head /\ s \notin received) =>
      s \in QueueSeqs(nacks) \/ kfSN >= s \/ s \in evicted

\* Spec 4.2: the queue is bounded at maxNackCache entries.
NackQueueBounded == Len(nacks) <= MaxNackCache

\* A NACK never names a packet that has already arrived.
NeverNackArrived == [][Pairs => out' \cap received = {}]_vars

\* Every entry whose NACK count a pairs call increments is named in the NACK
\* that call builds.
CountedIsSent == [][Pairs => Counted(nacks, head) \subseteq out']_vars

=============================================================================
