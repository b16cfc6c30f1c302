----------------------------- MODULE RtcpReader -----------------------------
(***************************************************************************)
(* The RTCPReader (pkg/buffer/rtcpreader.go) and the RTCP half of the     *)
(* buffer Factory that hands readers out (src/unnamed/part_003,           *)
(* GetOrNew and the OnClose callback it installs).                         *)
(*                                                                         *)
(* The Factory is called by pion/srtp: every SRTCP read stream asks        *)
(* GetOrNew for the reader of its SSRC, writes the packets it reads into   *)
(* it, and on close first removes itself from the session's stream map and *)
(* then calls the reader's Close.  After that, a packet with the same SSRC *)
(* opens a new read stream.  Streams are modelled as the goroutines doing  *)
(* this; at most one open stream per SSRC, as in the srtp session.         *)
(* The Router stores the packet callback with OnPacket on the reader       *)
(* GetBufferPair returns.                                                  *)
(***************************************************************************)
EXTENDS Naturals

CONSTANTS
  Streams,     \* srtp read-stream goroutines
  Ssrcs,       \* SSRCs
  MaxReaders,  \* RTCPReader objects GetOrNew may create
  Opens        \* read streams each goroutine opens

ASSUME ReaderAssumption ==
  /\ Ssrcs # {} /\ MaxReaders \in Nat /\ Opens \in Nat

\* A reader is its creation index; 0 is "no entry".
Readers == 1 .. MaxReaders
NoReader == 0

VARIABLES
  readers,     \* f.rtcpReaders: ssrc -> reader
  created,     \* readers NewRTCPReader has made
  ssrcOf,      \* r.ssrc, the key its OnClose callback deletes
  closed,      \* readers whose closed flag is set
  hasCb,       \* readers whose onPacket holds a callback
  onCloseRuns, \* times each reader's OnClose callback has run
  spc,         \* each stream's position
  sr,          \* the reader a stream holds
  sssrc,       \* the SSRC of a stream
  opens        \* streams each goroutine has opened

vars == <<readers, created, ssrcOf, closed, hasCb, onCloseRuns, spc, sr, sssrc, opens>>

\* SSRCs with an open read stream in the srtp session.
OpenSsrcs == {sssrc[s] : s \in {t \in Streams : spc[t] \in {"open", "deliver"}}}

Init ==
  /\ readers = [x \in Ssrcs |-> NoReader]
  /\ created = 0
  /\ ssrcOf = [r \in Readers |-> CHOOSE x \in Ssrcs : TRUE]
  /\ closed = {}
  /\ hasCb = {}
  /\ onCloseRuns = [r \in Readers |-> 0]
  /\ spc = [s \in Streams |-> "idle"]
  /\ sr = [s \in Streams |-> NoReader]
  /\ sssrc = [s \in Streams |-> CHOOSE x \in Ssrcs : TRUE]
  /\ opens = [s \in Streams |-> 0]

\* Mutant of GetOrNew: the lookup of the map is missing, every open makes a
\* new reader and overwrites the entry.
GetOrNewFresh(s, x) ==
  /\ spc[s] = "idle" /\ opens[s] < Opens /\ x \notin OpenSsrcs
  /\ opens' = [opens EXCEPT ![s] = @ + 1]
  /\ sssrc' = [sssrc EXCEPT ![s] = x]
  /\ spc' = [spc EXCEPT ![s] = "open"]
  /\ created < MaxReaders
  /\ created' = created + 1
  /\ ssrcOf' = [ssrcOf EXCEPT ![created + 1] = x]
  /\ readers' = [readers EXCEPT ![x] = created + 1]
  /\ sr' = [sr EXCEPT ![s] = created + 1]
  /\ UNCHANGED <<closed, hasCb, onCloseRuns>>

\* A read stream for SSRC x opens: Factory.GetOrNew(RTCPBufferPacket, x)
\* under f.Lock returns the reader the map holds, or makes one, stores it
\* and installs its OnClose callback.
GetOrNew(s, x) ==
  /\ spc[s] = "idle" /\ opens[s] < Opens /\ x \notin OpenSsrcs
  /\ opens' = [opens EXCEPT ![s] = @ + 1]
  /\ sssrc' = [sssrc EXCEPT ![s] = x]
  /\ spc' = [spc EXCEPT ![s] = "open"]
  /\ IF readers[x] # NoReader
       THEN /\ sr' = [sr EXCEPT ![s] = readers[x]]
            /\ UNCHANGED <<readers, created, ssrcOf>>
       ELSE /\ created < MaxReaders
            /\ created' = created + 1
            /\ ssrcOf' = [ssrcOf EXCEPT ![created + 1] = x]
            /\ readers' = [readers EXCEPT ![x] = created + 1]
            /\ sr' = [sr EXCEPT ![s] = created + 1]
  /\ UNCHANGED <<closed, hasCb, onCloseRuns>>

\* The Router: GetBufferPair(x) under f.RLock, then OnPacket(f) stores the
\* callback (atomic.Value).
OnPacket(x) ==
  /\ readers[x] # NoReader
  /\ hasCb' = hasCb \cup {readers[x]}
  /\ UNCHANGED <<readers, created, ssrcOf, closed, onCloseRuns, spc, sr, sssrc, opens>>

\* Write(p), first half: if r.closed.get() { return io.EOF }.
WriteCheck(s) ==
  /\ spc[s] = "open"
  /\ sr[s] \notin closed
  /\ spc' = [spc EXCEPT ![s] = "deliver"]
  /\ UNCHANGED <<readers, created, ssrcOf, closed, hasCb, onCloseRuns, sr, sssrc, opens>>

\* Write(p), second half: the callback Load()ed from onPacket, if any, runs.
WriteDeliver(s) ==
  /\ spc[s] = "deliver"
  /\ spc' = [spc EXCEPT ![s] = "open"]
  /\ UNCHANGED <<readers, created, ssrcOf, closed, hasCb, onCloseRuns, sr, sssrc, opens>>

\* The srtp stream closes: it leaves the session's stream map, then calls
\* Close on its reader.
StreamClose(s) ==
  /\ spc[s] = "open"
  /\ spc' = [spc EXCEPT ![s] = "closing"]
  /\ UNCHANGED <<readers, created, ssrcOf, closed, hasCb, onCloseRuns, sr, sssrc, opens>>

\* Mutant of Close: the onClose call is missing.
CloseSilent(s) ==
  /\ spc[s] = "closing"
  /\ closed' = closed \cup {sr[s]}
  /\ spc' = [spc EXCEPT ![s] = "idle"]
  /\ UNCHANGED <<readers, created, ssrcOf, hasCb, onCloseRuns, sr, sssrc, opens>>

\* Close: r.closed.set(true), then r.onClose(), whatever set returned.
Close(s) ==
  /\ spc[s] = "closing"
  /\ closed' = closed \cup {sr[s]}
  /\ spc' = [spc EXCEPT ![s] = "onclose"]
  /\ UNCHANGED <<readers, created, ssrcOf, hasCb, onCloseRuns, sr, sssrc, opens>>

\* The OnClose callback of GetOrNew: f.Lock(); delete(f.rtcpReaders, ssrc);
\* f.Unlock(), for the ssrc it captured, whatever reader the map holds.
OnClose(s) ==
  /\ spc[s] = "onclose"
  /\ readers' = [readers EXCEPT ![ssrcOf[sr[s]]] = NoReader]
  /\ onCloseRuns' = [onCloseRuns EXCEPT ![sr[s]] = @ + 1]
  /\ spc' = [spc EXCEPT ![s] = "idle"]
  /\ UNCHANGED <<created, ssrcOf, closed, hasCb, sr, sssrc, opens>>

Next ==
  \/ \E s \in Streams, x \in Ssrcs : GetOrNew(s, x)
  \/ \E x \in Ssrcs : OnPacket(x)
  \/ \E s \in Streams :
       WriteCheck(s) \/ WriteDeliver(s) \/ StreamClose(s) \/ Close(s) \/ OnClose(s)

\* A goroutine inside Close runs it to the end.
Spec ==
  Init /\ [][Next]_vars /\ \A s \in Streams : WF_vars(Close(s) \/ OnClose(s))

(***************************************************************************)
(* Properties.                                                             *)
(***************************************************************************)

\* Where a stream goroutine is.
SPCs == {"idle", "open", "deliver", "closing", "onclose"}

TypeOK ==
  /\ readers \in [Ssrcs -> Readers \cup {NoReader}]
  /\ created \in 0 .. MaxReaders
  /\ ssrcOf \in [Readers -> Ssrcs]
  /\ closed \subseteq Readers
  /\ hasCb \subseteq Readers
  /\ onCloseRuns \in [Readers -> Nat]
  /\ spc \in [Streams -> SPCs]
  /\ sr \in [Streams -> Readers \cup {NoReader}]
  /\ sssrc \in [Streams -> Ssrcs]
  /\ opens \in [Streams -> 0 .. Opens]

\* A closed reader leaves the Factory's map: once Close has set its closed
\* flag, the OnClose callback eventually deletes the map entry, and the map
\* never holds that reader again (rtcpreader.go 82-86, part_003 108-117).
ClosedReaderUnregistered ==
  \A r \in Readers : r \in closed ~> readers[ssrcOf[r]] # r

\* A closed reader the Factory's map still holds is one whose OnClose
\* delete is about to run: GetOrNew hands out a reader whose Write returns
\* io.EOF only between Close's closed.set(true) and the callback's delete
\* (rtcpreader.go 82-86, part_003 101-110), whatever the streams and the
\* Router do in between.
StaleEntryPendingDelete ==
  \A x \in Ssrcs : readers[x] \in closed =>
    \E s \in Streams : spc[s] = "onclose" /\ sr[s] = readers[x]

\* A read stream never holds a closed reader while it is open: every packet
\* it writes reaches the Router's callback instead of returning io.EOF.
HeldReaderLive ==
  \A s \in Streams : spc[s] \in {"open", "deliver"} => sr[s] \notin closed

\* The OnClose callback of a reader runs at most once (the file comment:
\* the closed flag prevents processing a close twice).
CloseOnce == \A r \in Readers : onCloseRuns[r] <= 1

\* The map as ReaderMap sees it: an entry whose reader is closed is as good
\* as deleted, since Close has already committed the callback to delete it.
AbsMap == [x \in Ssrcs |-> IF readers[x] \in closed THEN NoReader ELSE readers[x]]

Abs == INSTANCE ReaderMap
         WITH amap <- AbsMap, aclosed <- closed, acreated <- created, assrcOf <- ssrcOf

\* The Factory's reader map implements ReaderMap: GetOrNew makes a reader
\* only when the map has no open one for the SSRC, Close and its callback
\* act as one atomic close, and an entry of an open reader is lost only to
\* the late OnClose callback of a closed reader of the same SSRC
\* (part_003 97-117, rtcpreader.go 82-86).
ImplementsReaderMap == Abs!ASpec

=============================================================================
