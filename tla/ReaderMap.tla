------------------------------ MODULE ReaderMap ------------------------------
(***************************************************************************)
(* What the buffer Factory's map of RTCP readers promises (part_003       *)
(* GetOrNew, rtcpreader.go Close), with Close and its OnClose callback     *)
(* taken as one step:                                                      *)
(*   - GetOrNew makes a reader for an SSRC only when the map has none;    *)
(*   - Close closes a reader and the map stops handing it out;            *)
(*   - the only other way an entry goes is a late OnClose callback of a   *)
(*     reader already closed, which deletes the entry of the SSRC that    *)
(*     reader was made for, whatever reader the entry holds now.          *)
(* Module RtcpReader, where Close and the callback are two steps of the   *)
(* stream's goroutine, implements this one.                               *)
(***************************************************************************)
EXTENDS Naturals

CONSTANTS
  Ssrcs,       \* SSRCs
  MaxReaders   \* readers GetOrNew may create

Readers == 1 .. MaxReaders
NoReader == 0

VARIABLES
  amap,      \* the entries GetOrNew may return: ssrc -> open reader
  aclosed,   \* closed readers
  acreated,  \* readers made so far
  assrcOf    \* the SSRC each reader was made for

avars == <<amap, aclosed, acreated, assrcOf>>

AInit ==
  /\ amap = [x \in Ssrcs |-> NoReader]
  /\ aclosed = {}
  /\ acreated = 0
  /\ assrcOf = [r \in Readers |-> CHOOSE x \in Ssrcs : TRUE]

\* GetOrNew finds no entry for x: a new reader, stored under x.
AGetOrNew(x) ==
  /\ amap[x] = NoReader
  /\ acreated < MaxReaders
  /\ acreated' = acreated + 1
  /\ assrcOf' = [assrcOf EXCEPT ![acreated + 1] = x]
  /\ amap' = [amap EXCEPT ![x] = acreated + 1]
  /\ UNCHANGED aclosed

\* Close of an open reader: it is closed and no entry hands it out.
AClose(r) ==
  /\ r \in 1 .. acreated
  /\ r \notin aclosed
  /\ aclosed' = aclosed \cup {r}
  /\ amap' = [x \in Ssrcs |-> IF amap[x] = r THEN NoReader ELSE amap[x]]
  /\ UNCHANGED <<acreated, assrcOf>>

\* A late OnClose callback of the closed reader r deletes the entry of r's
\* SSRC.
ADrop(r) ==
  /\ r \in aclosed
  /\ amap' = [amap EXCEPT ![assrcOf[r]] = NoReader]
  /\ UNCHANGED <<aclosed, acreated, assrcOf>>

ANext ==
  \/ \E x \in Ssrcs : AGetOrNew(x)
  \/ \E r \in Readers : AClose(r) \/ ADrop(r)

ASpec == AInit /\ [][ANext]_avars
=============================================================================
