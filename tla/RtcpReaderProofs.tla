------------------------- MODULE RtcpReaderProofs -------------------------
(***************************************************************************)
(* Proofs about the RTCPReader and the Factory's reader map (RtcpReader), *)
(* for every set of streams and SSRCs and every bound.                     *)
(***************************************************************************)
EXTENDS RtcpReader, TLAPS

\* Readers are numbered in creation order: what the map and the streams
\* hold has been created.
Bounded ==
  /\ \A x \in Ssrcs : readers[x] \in 0 .. created
  /\ \A s \in Streams : sr[s] \in 0 .. created

\* A reader not yet created is not closed.
FreshOpen == \A r \in Readers : r > created => r \notin closed

\* A stream that is not idle holds a reader.
Holding == \A s \in Streams : spc[s] # "idle" => sr[s] \in Readers

\* The map entry of x holds a reader made for x, so the OnClose callback
\* that reader installed deletes exactly that entry.
EntryKey == \A x \in Ssrcs : readers[x] # NoReader => ssrcOf[readers[x]] = x

\* The inductive invariant: StaleEntryPendingDelete alone is not inductive,
\* since the witness's delete must be known to hit the stale entry.
IInv ==
  /\ TypeOK /\ Bounded /\ FreshOpen /\ Holding /\ EntryKey
  /\ StaleEntryPendingDelete

\* Every initial state satisfies the inductive invariant.
LEMMA InitIInv == Init => IInv
<1> SUFFICES ASSUME Init PROVE IInv
  OBVIOUS
<1>1. (CHOOSE x \in Ssrcs : TRUE) \in Ssrcs
  BY ReaderAssumption
<1>2. TypeOK
  BY <1>1, ReaderAssumption DEF Init, TypeOK, Readers, NoReader, SPCs
<1>3. QED
  BY <1>2 DEF Init, IInv, Bounded, FreshOpen, Holding, EntryKey,
     StaleEntryPendingDelete, NoReader

\* GetOrNew (part_003 97-112) keeps the invariant: a reader it returns
\* from the map is held as it is, and a reader it makes is fresh, so not
\* closed, and is stored under the SSRC it was made for.
LEMMA GetOrNewIInv ==
  ASSUME IInv, NEW s \in Streams, NEW x \in Ssrcs, GetOrNew(s, x)
  PROVE  IInv'
<1>1. spc[s] = "idle" /\ spc' = [spc EXCEPT ![s] = "open"]
      /\ UNCHANGED <<closed, hasCb, onCloseRuns>>
  BY DEF GetOrNew
<1>2. \A t \in Streams : spc[t] = "onclose" => t # s /\ spc'[t] = "onclose" /\ sr'[t] = sr[t]
  BY <1>1 DEF GetOrNew, IInv, TypeOK
<1>3. opens' \in [Streams -> 0 .. Opens] /\ sssrc' \in [Streams -> Ssrcs]
      /\ spc' \in [Streams -> SPCs]
  <2>1. opens' \in [Streams -> 0 .. Opens]
    BY ReaderAssumption DEF GetOrNew, IInv, TypeOK
  <2>2. sssrc' \in [Streams -> Ssrcs]
    BY DEF GetOrNew, IInv, TypeOK
  <2>3. spc' \in [Streams -> SPCs]
    BY <1>1 DEF IInv, TypeOK, SPCs
  <2>4. QED
    BY <2>1, <2>2, <2>3
<1>4. CASE readers[x] # NoReader
  <2>1. sr' = [sr EXCEPT ![s] = readers[x]] /\ UNCHANGED <<readers, created, ssrcOf>>
    BY <1>4 DEF GetOrNew
  <2>2. readers[x] \in Readers /\ readers[x] \in 0 .. created
    BY <1>4 DEF IInv, TypeOK, Bounded, NoReader
  <2>3. TypeOK'
    BY <1>1, <1>3, <2>1, <2>2 DEF IInv, TypeOK
  <2>4. Bounded' /\ Holding'
    BY <1>1, <2>1, <2>2 DEF IInv, TypeOK, Bounded, Holding
  <2>5. FreshOpen' /\ EntryKey'
    BY <1>1, <2>1 DEF IInv, FreshOpen, EntryKey
  <2>6. StaleEntryPendingDelete'
    BY <1>1, <1>2, <2>1 DEF IInv, StaleEntryPendingDelete
  <2>7. QED
    BY <2>3, <2>4, <2>5, <2>6 DEF IInv
<1>5. CASE readers[x] = NoReader
  <2> DEFINE n == created + 1
  <2>1. /\ created < MaxReaders /\ created' = n
        /\ ssrcOf' = [ssrcOf EXCEPT ![n] = x]
        /\ readers' = [readers EXCEPT ![x] = n]
        /\ sr' = [sr EXCEPT ![s] = n]
    BY <1>5 DEF GetOrNew
  <2>2. n \in Readers /\ n \notin closed /\ created \in Nat
    <3>1. created \in Nat /\ n \in Readers /\ n > created
      BY <2>1, ReaderAssumption DEF IInv, TypeOK, Readers
    <3>2. QED
      BY <3>1 DEF IInv, FreshOpen
  <2>3. \A y \in Ssrcs : readers[y] # n
    BY <2>2 DEF IInv, Bounded
  <2>4. TypeOK'
    BY <1>1, <1>3, <2>1, <2>2 DEF IInv, TypeOK, Readers
  <2>5. Bounded'
    BY <2>1, <2>2 DEF IInv, TypeOK, Bounded
  <2>6. FreshOpen'
    BY <1>1, <2>1, <2>2 DEF IInv, FreshOpen, Readers
  <2>7. Holding'
    BY <1>1, <2>1, <2>2 DEF IInv, TypeOK, Holding
  <2>8. EntryKey'
    <3> SUFFICES ASSUME NEW y \in Ssrcs, readers'[y] # NoReader
                 PROVE  ssrcOf'[readers'[y]] = y
      BY DEF EntryKey
    <3>1. CASE y = x
      BY <3>1, <2>1, <2>2 DEF IInv, TypeOK
    <3>2. CASE y # x
      <4>1. readers'[y] = readers[y] /\ readers[y] \in Readers
        BY <3>2, <2>1 DEF IInv, TypeOK, NoReader
      <4>2. readers[y] # n
        BY <2>3
      <4>3. QED
        BY <4>1, <4>2, <2>1 DEF IInv, TypeOK, EntryKey
    <3>3. QED
      BY <3>1, <3>2
  <2>9. StaleEntryPendingDelete'
    <3> SUFFICES ASSUME NEW y \in Ssrcs, readers'[y] \in closed
                 PROVE  \E t \in Streams : spc'[t] = "onclose" /\ sr'[t] = readers'[y]
      BY <1>1 DEF StaleEntryPendingDelete
    <3>1. y # x /\ readers'[y] = readers[y]
      BY <1>1, <2>1, <2>2 DEF IInv, TypeOK
    <3>2. QED
      BY <3>1, <1>1, <1>2 DEF IInv, StaleEntryPendingDelete
  <2>10. QED
    BY <2>4, <2>5, <2>6, <2>7, <2>8, <2>9 DEF IInv
<1>6. QED
  BY <1>4, <1>5

\* The Router's OnPacket and the steps of Write and of the srtp stream's
\* close move a stream among open, deliver and closing: neither the map,
\* nor the closed flags, nor a stream inside the OnClose callback changes.
LEMMA StreamStepIInv ==
  ASSUME IInv, NEW s \in Streams,
         WriteCheck(s) \/ WriteDeliver(s) \/ StreamClose(s)
  PROVE  IInv'
<1>1. /\ spc[s] \in {"open", "deliver"}
      /\ spc' \in [Streams -> SPCs]
      /\ \A t \in Streams \ {s} : spc'[t] = spc[t]
      /\ UNCHANGED <<readers, created, ssrcOf, closed, hasCb, onCloseRuns, sr, sssrc, opens>>
  BY DEF WriteCheck, WriteDeliver, StreamClose, IInv, TypeOK, SPCs
<1>2. TypeOK'
  BY <1>1 DEF IInv, TypeOK
<1>3. Bounded' /\ FreshOpen' /\ EntryKey'
  BY <1>1 DEF IInv, Bounded, FreshOpen, EntryKey
<1>4. Holding'
  BY <1>1 DEF IInv, TypeOK, Holding
<1>5. StaleEntryPendingDelete'
  BY <1>1 DEF IInv, TypeOK, StaleEntryPendingDelete
<1>6. QED
  BY <1>2, <1>3, <1>4, <1>5 DEF IInv

\* OnPacket only stores a callback on a reader the map holds.
LEMMA OnPacketIInv ==
  ASSUME IInv, NEW x \in Ssrcs, OnPacket(x)
  PROVE  IInv'
<1>1. readers[x] \in Readers
  BY DEF OnPacket, IInv, TypeOK, NoReader
<1>2. QED
  BY <1>1 DEF OnPacket, IInv, TypeOK, Bounded, FreshOpen, Holding, EntryKey,
     StaleEntryPendingDelete

\* Close (rtcpreader.go 82-86) sets the closed flag of the stream's reader
\* and enters its OnClose callback: the stream is itself the witness that
\* the reader's entry is about to go.
LEMMA CloseIInv ==
  ASSUME IInv, NEW s \in Streams, Close(s)
  PROVE  IInv'
<1>1. /\ spc[s] = "closing" /\ closed' = closed \cup {sr[s]}
      /\ spc' = [spc EXCEPT ![s] = "onclose"]
      /\ UNCHANGED <<readers, created, ssrcOf, hasCb, onCloseRuns, sr, sssrc, opens>>
  BY DEF Close
<1>2. sr[s] \in Readers /\ sr[s] \in 0 .. created
  BY <1>1 DEF IInv, Holding, Bounded
<1>3. TypeOK'
  BY <1>1, <1>2 DEF IInv, TypeOK, SPCs
<1>4. Bounded' /\ EntryKey'
  <2>1. Bounded'
    BY <1>1 DEF IInv, Bounded
  <2>2. EntryKey'
    BY <1>1 DEF IInv, EntryKey
  <2>3. QED
    BY <2>1, <2>2
<1>5. FreshOpen'
  BY <1>1, <1>2, ReaderAssumption DEF IInv, TypeOK, FreshOpen, Readers
<1>6. Holding'
  BY <1>1, <1>2 DEF IInv, TypeOK, Holding
<1>7. StaleEntryPendingDelete'
  <2> SUFFICES ASSUME NEW y \in Ssrcs, readers[y] \in closed'
               PROVE  \E t \in Streams : spc'[t] = "onclose" /\ sr[t] = readers[y]
    BY <1>1 DEF StaleEntryPendingDelete
  <2>1. CASE readers[y] = sr[s]
    BY <1>1, <2>1 DEF IInv, TypeOK
  <2>2. CASE readers[y] # sr[s]
    <3>1. PICK t \in Streams : spc[t] = "onclose" /\ sr[t] = readers[y]
      BY <1>1, <2>2 DEF IInv, StaleEntryPendingDelete
    <3>2. t # s
      BY <1>1, <3>1
    <3>3. QED
      BY <1>1, <3>1, <3>2 DEF IInv, TypeOK
  <2>3. QED
    BY <2>1, <2>2
<1>8. QED
  BY <1>3, <1>4, <1>5, <1>6, <1>7 DEF IInv

\* The OnClose callback (part_003 108-110) deletes the entry of the SSRC
\* its reader was made for.  A stale entry whose witness this stream was
\* is that entry, so it goes; any other stale entry keeps its witness.
LEMMA OnCloseIInv ==
  ASSUME IInv, NEW s \in Streams, OnClose(s)
  PROVE  IInv'
<1> DEFINE k == ssrcOf[sr[s]]
<1>1. /\ spc[s] = "onclose"
      /\ readers' = [readers EXCEPT ![k] = NoReader]
      /\ onCloseRuns' = [onCloseRuns EXCEPT ![sr[s]] = @ + 1]
      /\ spc' = [spc EXCEPT ![s] = "idle"]
      /\ UNCHANGED <<created, ssrcOf, closed, hasCb, sr, sssrc, opens>>
  BY DEF OnClose
<1>2. sr[s] \in Readers /\ k \in Ssrcs
  BY <1>1 DEF IInv, Holding, TypeOK
<1>3. \A y \in Ssrcs : readers'[y] = IF y = k THEN NoReader ELSE readers[y]
  BY <1>1, <1>2 DEF IInv, TypeOK
<1>4. TypeOK'
  <2>1. readers' \in [Ssrcs -> Readers \cup {NoReader}]
    BY <1>1, <1>2 DEF IInv, TypeOK
  <2>2. onCloseRuns' \in [Readers -> Nat]
    BY <1>1, <1>2 DEF IInv, TypeOK
  <2>3. spc' \in [Streams -> SPCs]
    BY <1>1 DEF IInv, TypeOK, SPCs
  <2>4. QED
    BY <1>1, <2>1, <2>2, <2>3 DEF IInv, TypeOK
<1>5. Bounded' /\ EntryKey'
  <2>1. Bounded'
    BY <1>1, <1>3 DEF IInv, TypeOK, Bounded, NoReader
  <2>2. EntryKey'
    BY <1>1, <1>3 DEF IInv, EntryKey
  <2>3. QED
    BY <2>1, <2>2
<1>6. FreshOpen' /\ Holding'
  BY <1>1 DEF IInv, TypeOK, FreshOpen, Holding
<1>7. StaleEntryPendingDelete'
  <2> SUFFICES ASSUME NEW y \in Ssrcs, readers'[y] \in closed
               PROVE  \E t \in Streams : spc'[t] = "onclose" /\ sr[t] = readers'[y]
    BY <1>1 DEF StaleEntryPendingDelete
  <2>1. y # k /\ readers'[y] = readers[y]
    BY <1>3 DEF IInv, TypeOK, Readers, NoReader
  <2>2. PICK t \in Streams : spc[t] = "onclose" /\ sr[t] = readers[y]
    BY <2>1 DEF IInv, StaleEntryPendingDelete
  <2>3. t # s
    <3>1. readers[y] # NoReader
      BY <2>1 DEF IInv, TypeOK, Readers, NoReader
    <3>2. ssrcOf[readers[y]] = y
      BY <3>1 DEF IInv, EntryKey
    <3>3. QED
      BY <2>1, <2>2, <3>2
  <2>4. QED
    BY <1>1, <2>1, <2>2, <2>3 DEF IInv, TypeOK
<1>8. QED
  BY <1>4, <1>5, <1>6, <1>7 DEF IInv

\* Every step preserves the inductive invariant.
LEMMA NextIInv == IInv /\ [Next]_vars => IInv'
<1> SUFFICES ASSUME IInv, [Next]_vars PROVE IInv'
  OBVIOUS
<1>1. CASE \E s \in Streams, x \in Ssrcs : GetOrNew(s, x)
  BY <1>1, GetOrNewIInv
<1>2. CASE \E x \in Ssrcs : OnPacket(x)
  BY <1>2, OnPacketIInv
<1>3. CASE \E s \in Streams : WriteCheck(s) \/ WriteDeliver(s) \/ StreamClose(s)
  BY <1>3, StreamStepIInv
<1>4. CASE \E s \in Streams : Close(s)
  BY <1>4, CloseIInv
<1>5. CASE \E s \in Streams : OnClose(s)
  BY <1>5, OnCloseIInv
<1>6. CASE UNCHANGED vars
  BY <1>6 DEF vars, IInv, TypeOK, Bounded, FreshOpen, Holding, EntryKey,
     StaleEntryPendingDelete
<1>7. QED
  BY <1>1, <1>2, <1>3, <1>4, <1>5, <1>6 DEF Next


(***************************************************************************)
(* The Factory's map implements ReaderMap.                                 *)
(***************************************************************************)

\* A stream inside the OnClose callback holds a reader Close has closed:
\* the callback's delete is the late one ReaderMap calls ADrop.
ClosingClosed == \A s \in Streams : spc[s] = "onclose" => sr[s] \in closed

LEMMA InitClosingClosed == Init => ClosingClosed
  BY DEF Init, ClosingClosed

\* Only Close puts a stream into the callback, after closing its reader,
\* and no step reopens a reader.
LEMMA NextClosingClosed == IInv /\ ClosingClosed /\ [Next]_vars => ClosingClosed'
<1> SUFFICES ASSUME IInv, ClosingClosed, [Next]_vars PROVE ClosingClosed'
  OBVIOUS
<1>1. CASE \E s \in Streams, x \in Ssrcs : GetOrNew(s, x)
  <2>1. PICK s \in Streams, x \in Ssrcs : GetOrNew(s, x)
    BY <1>1
  <2>2. spc[s] = "idle" /\ spc' = [spc EXCEPT ![s] = "open"] /\ UNCHANGED closed
        /\ \A t \in Streams \ {s} : sr'[t] = sr[t]
    BY <2>1 DEF GetOrNew, IInv, TypeOK
  <2>3. QED
    BY <2>2 DEF ClosingClosed, IInv, TypeOK
<1>2. CASE \E x \in Ssrcs : OnPacket(x)
  BY <1>2 DEF OnPacket, ClosingClosed
<1>3. CASE \E s \in Streams : WriteCheck(s) \/ WriteDeliver(s) \/ StreamClose(s)
  <2>1. PICK s \in Streams : WriteCheck(s) \/ WriteDeliver(s) \/ StreamClose(s)
    BY <1>3
  <2>2. /\ spc'[s] # "onclose"
        /\ \A t \in Streams \ {s} : spc'[t] = spc[t]
        /\ UNCHANGED <<closed, sr>>
    BY <2>1 DEF WriteCheck, WriteDeliver, StreamClose, IInv, TypeOK
  <2>3. QED
    BY <2>2 DEF ClosingClosed
<1>4. CASE \E s \in Streams : Close(s)
  <2>1. PICK s \in Streams : Close(s)
    BY <1>4
  <2>2. closed' = closed \cup {sr[s]} /\ UNCHANGED sr
        /\ \A t \in Streams \ {s} : spc'[t] = spc[t]
    BY <2>1 DEF Close, IInv, TypeOK
  <2>3. QED
    BY <2>2 DEF ClosingClosed
<1>5. CASE \E s \in Streams : OnClose(s)
  <2>1. PICK s \in Streams : OnClose(s)
    BY <1>5
  <2>2. spc'[s] = "idle" /\ UNCHANGED <<closed, sr>>
        /\ \A t \in Streams \ {s} : spc'[t] = spc[t]
    BY <2>1 DEF OnClose, IInv, TypeOK
  <2>3. QED
    BY <2>2 DEF ClosingClosed
<1>6. CASE UNCHANGED vars
  BY <1>6 DEF vars, ClosingClosed
<1>7. QED
  BY <1>1, <1>2, <1>3, <1>4, <1>5, <1>6 DEF Next

\* The initial map is ReaderMap's initial map.
LEMMA InitRefines == Init => Abs!AInit
  BY DEF Init, Abs!AInit, AbsMap, Abs!NoReader, Abs!Readers, NoReader, Readers

\* A GetOrNew that makes a reader is ReaderMap's AGetOrNew: the map has no
\* entry, and the fresh reader is open.  One that finds an entry, even a
\* closed reader's, changes nothing ReaderMap sees.
LEMMA GetOrNewRefines ==
  ASSUME IInv, NEW s \in Streams, NEW x \in Ssrcs, GetOrNew(s, x)
  PROVE  [Abs!ANext]_Abs!avars
<1>1. UNCHANGED closed
  BY DEF GetOrNew
<1>2. CASE readers[x] # NoReader
  <2>1. UNCHANGED <<readers, created, ssrcOf>>
    BY <1>2 DEF GetOrNew
  <2>2. UNCHANGED Abs!avars
    BY <1>1, <2>1 DEF Abs!avars, AbsMap
  <2>3. QED
    BY <2>2
<1>3. CASE readers[x] = NoReader
  <2> DEFINE n == created + 1
  <2>1. /\ created < MaxReaders /\ created' = n
        /\ ssrcOf' = [ssrcOf EXCEPT ![n] = x]
        /\ readers' = [readers EXCEPT ![x] = n]
    BY <1>3 DEF GetOrNew
  <2>2. n \notin closed /\ n # NoReader
    BY <2>1, ReaderAssumption DEF IInv, TypeOK, FreshOpen, Readers, NoReader
  <2>3. AbsMap[x] = Abs!NoReader
    BY <1>3 DEF AbsMap, NoReader, Abs!NoReader
  <2>4. AbsMap' = [AbsMap EXCEPT ![x] = n]
    BY <1>1, <2>1, <2>2 DEF AbsMap, IInv, TypeOK
  <2>5. Abs!AGetOrNew(x)
    BY <1>1, <2>1, <2>3, <2>4 DEF Abs!AGetOrNew
  <2>6. QED
    BY <2>5 DEF Abs!ANext
<1>4. QED
  BY <1>2, <1>3

\* Close of a reader not yet closed is ReaderMap's atomic AClose: the map
\* hides the entries that hold it from now on.  A second Close of the same
\* reader changes nothing ReaderMap sees.
LEMMA CloseRefines ==
  ASSUME IInv, NEW s \in Streams, Close(s)
  PROVE  [Abs!ANext]_Abs!avars
<1> DEFINE r == sr[s]
<1>1. /\ spc[s] = "closing" /\ closed' = closed \cup {r}
      /\ UNCHANGED <<readers, created, ssrcOf>>
  BY DEF Close
<1>2. r \in Readers /\ r \in 1 .. created
  BY <1>1, ReaderAssumption DEF IInv, Holding, Bounded, Readers
<1>3. CASE r \in closed
  <2>1. UNCHANGED Abs!avars
    BY <1>1, <1>3 DEF Abs!avars, AbsMap
  <2>2. QED
    BY <2>1
<1>4. CASE r \notin closed
  <2>1. AbsMap' = [x \in Ssrcs |-> IF AbsMap[x] = r THEN Abs!NoReader ELSE AbsMap[x]]
    <3> SUFFICES ASSUME NEW x \in Ssrcs
                 PROVE  AbsMap'[x] = IF AbsMap[x] = r THEN Abs!NoReader ELSE AbsMap[x]
      BY DEF AbsMap
    <3>1. r # NoReader
      BY <1>2 DEF Readers, NoReader
    <3>2. QED
      BY <1>1, <1>4, <3>1 DEF AbsMap, NoReader, Abs!NoReader
  <2>2. Abs!AClose(r)
    BY <1>1, <1>2, <1>4, <2>1 DEF Abs!AClose
  <2>3. r \in Abs!Readers
    BY <1>2 DEF Readers, Abs!Readers
  <2>4. QED
    BY <2>2, <2>3 DEF Abs!ANext
<1>5. QED
  BY <1>3, <1>4

\* The OnClose callback is ReaderMap's ADrop of the closed reader the
\* stream holds: it deletes the entry of that reader's SSRC.
LEMMA OnCloseRefines ==
  ASSUME IInv, ClosingClosed, NEW s \in Streams, OnClose(s)
  PROVE  [Abs!ANext]_Abs!avars
<1> DEFINE r == sr[s]
           k == ssrcOf[r]
<1>1. /\ spc[s] = "onclose"
      /\ readers' = [readers EXCEPT ![k] = NoReader]
      /\ UNCHANGED <<created, ssrcOf, closed>>
  BY DEF OnClose
<1>2. r \in closed /\ r \in Readers /\ k \in Ssrcs
  BY <1>1 DEF ClosingClosed, IInv, Holding, TypeOK
<1>3. AbsMap' = [AbsMap EXCEPT ![k] = Abs!NoReader]
  BY <1>1, <1>2 DEF AbsMap, NoReader, Abs!NoReader, IInv, TypeOK
<1>4. Abs!ADrop(r)
  BY <1>1, <1>2, <1>3 DEF Abs!ADrop
<1>5. r \in Abs!Readers
  BY <1>2 DEF Readers, Abs!Readers
<1>6. QED
  BY <1>4, <1>5 DEF Abs!ANext

\* Every step of the reader map and its streams is a step of ReaderMap or
\* leaves what ReaderMap sees unchanged.
LEMMA NextRefines == IInv /\ ClosingClosed /\ [Next]_vars => [Abs!ANext]_Abs!avars
<1> SUFFICES ASSUME IInv, ClosingClosed, [Next]_vars PROVE [Abs!ANext]_Abs!avars
  OBVIOUS
<1>1. CASE \E s \in Streams, x \in Ssrcs : GetOrNew(s, x)
  BY <1>1, GetOrNewRefines
<1>2. CASE \E x \in Ssrcs : OnPacket(x)
  BY <1>2 DEF OnPacket, Abs!avars, AbsMap
<1>3. CASE \E s \in Streams : WriteCheck(s) \/ WriteDeliver(s) \/ StreamClose(s)
  BY <1>3 DEF WriteCheck, WriteDeliver, StreamClose, Abs!avars, AbsMap
<1>4. CASE \E s \in Streams : Close(s)
  BY <1>4, CloseRefines
<1>5. CASE \E s \in Streams : OnClose(s)
  BY <1>5, OnCloseRefines
<1>6. CASE UNCHANGED vars
  BY <1>6 DEF vars, Abs!avars, AbsMap
<1>7. QED
  BY <1>1, <1>2, <1>3, <1>4, <1>5, <1>6 DEF Next

\* The buffer Factory's reader map, with Close and its OnClose callback in
\* two steps of the stream goroutine, implements ReaderMap, in which they
\* are one (ImplementsReaderMap), for every number of streams, SSRCs and
\* readers.
THEOREM ReaderMapRefinement == Spec => ImplementsReaderMap
<1>1. Spec => [](IInv /\ ClosingClosed)
  <2>1. Init => IInv /\ ClosingClosed
    BY InitIInv, InitClosingClosed
  <2>2. IInv /\ ClosingClosed /\ [Next]_vars => (IInv /\ ClosingClosed)'
    BY NextIInv, NextClosingClosed
  <2>3. QED
    BY <2>1, <2>2, PTL DEF Spec
<1>2. QED
  BY <1>1, InitRefines, NextRefines, PTL DEF Spec, ImplementsReaderMap, Abs!ASpec

\* GetOrNew hands out a closed RTCPReader only while the OnClose delete of
\* that reader is pending (StaleEntryPendingDelete), for every number of
\* streams, SSRCs and readers.
THEOREM StaleEntryPendingDeleteHolds == Spec => []StaleEntryPendingDelete
<1>1. IInv => StaleEntryPendingDelete
  BY DEF IInv
<1>2. QED
  BY <1>1, InitIInv, NextIInv, PTL DEF Spec

\* Every variable of the reader map and the streams keeps its type.
THEOREM ReaderTypeCorrect == Spec => []TypeOK
<1>1. IInv => TypeOK
  BY DEF IInv
<1>2. QED
  BY <1>1, InitIInv, NextIInv, PTL DEF Spec

=============================================================================
