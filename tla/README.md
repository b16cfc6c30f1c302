# TLA+ models of ion-sfu's media path

This directory holds TLA+ models of ion-sfu, a Go selective forwarding unit. Each model is checked with TLC on small instances. Where a proof is listed, TLAPS proves it for every value of the constants.

## The system

A publisher's RTP stream enters through a `Buffer` (`pkg/buffer`). The `Buffer` is not under `src/`, so its behaviour is taken from spec section 4.3. For every packet it:

- stores the packet in a `Bucket`, a ring of `maxSteps+1` slots of 1500 bytes (`pkg/buffer/bucket.go`);
- registers the sequence numbers it skipped in a `nackQueue` (`pkg/buffer/nack.go`);
- removes a sequence number from that queue when a late packet or retransmission arrives.

On its feedback timer, the `Buffer` calls `nackQueue.pairs` with the highest extended sequence number. That call builds a Generic NACK and decides whether to ask for a keyframe. Subscribers' NACKs are answered from the `Bucket` through `GetPacket`.

Three further components are modelled:

- The TWCC `Responder` (`pkg/twcc/twcc.go`). `Push` records the transport-wide sequence number and arrival time of every packet. Once a batch is large enough and enough time has passed, it builds a transport-cc feedback packet: status chunks and receive deltas, sent to the publisher through `onFeedback`.
- The `RTCPReader` (`pkg/buffer/rtcpreader.go`) and the RTCP branch of the buffer `Factory` (`src/unnamed/part_003`).
  - pion/srtp asks `GetOrNew` for one reader per SSRC and writes the RTCP it reads into it.
  - The Router stores its callback on the reader with `OnPacket`.
  - `Close` runs the `OnClose` callback that deletes the Factory's map entry.
- The SFU session registry (`pkg/sfu/relay.go`). `GetSession` looks a session up under `RLock` and creates it on a miss (`newSession`: insert under `Lock`). The session's `OnClose` deletes the entry again when its last peer has left.

Still not modelled: the `Receiver`, `Router`, `DownTrack` and `Subscriber` (described in `src/docs/*.md` and parts of `src/unnamed/part_00{1,2}`). They fan packets out to subscribers, switch simulcast layers and relay RTCP.

## Modules

| Module | Models | Notes |
|---|---|---|
| `Bucket` | `bucket.go`: `NewBucket`, `AddPacket` (both paths, skip loop, `push`), `set`, `get` / `GetPacket` | The caller's `latest` flag comes from `IsNewer`, which is modelled from the spec |
| `MCBucket` | The TLC instance of `Bucket` | |
| `BucketProofs` | TLAPS proofs of `Bucket`'s type correctness and of `InOrderRetrievable` | |
| `NackQueue` | `nack.go`: `push`, `remove`, `pairs` | The Buffer's calls into the queue are modelled from the spec |
| `MCNackQueue` | The TLC instance of `NackQueue` | |
| `TwccEncoder` | `twcc.go` 255-437 and the write helpers: the status-chunk loop, deltas, clamp, flush | A decoder written from the transport-wide-cc draft is the reference |
| `MCTwccEncoder` | Grows the packet lists the encoder is run on | |
| `TwccResponder` | `twcc.go`: `NewTransportWideCCResponder`, `Push`, `buildTransportCCPacket` up to the header | A lossy, reordering, duplicating network calls `Push` |
| `MCTwccResponder` | The TLC instance of `TwccResponder` | |
| `SfuSessions` | `relay.go`: `GetSession`, `getSession`, `newSession` and its `OnClose` callback | `SessionLocal`'s `AddPeer`, `RemovePeer` and `Close` are modelled from the spec |
| `MCSfuSessions` | The TLC instance of `SfuSessions` | |
| `SfuSessionsProofs` | TLAPS proofs of `RegistryEmptyWhenIdle`, type correctness and the refinement of `SessionMap` | |
| `SessionMap` | What the registry promises: `NewSession`, the insert, an atomic `Close` with its delete, and the late `OnClose` delete (`ADrop`) | The abstract specification that `SfuSessions` implements |
| `SfuGaugeProofs` | TLAPS proof of `GaugeZeroWhenIdle` (the `stats.Sessions` gauge) | |
| `RtcpReader` | `rtcpreader.go` and the RTCP branch of `Factory.GetOrNew` | The srtp read streams that call them follow pion/srtp |
| `MCRtcpReader` | The TLC instance of `RtcpReader` | |
| `ReaderMap` | What the Factory's reader map promises: `GetOrNew`, an atomic `Close`, and the late `OnClose` delete (`ADrop`) | The abstract specification that `RtcpReader` implements |
| `RtcpReaderProofs` | TLAPS proofs of `StaleEntryPendingDelete`, type correctness and the refinement of `ReaderMap` | |

### Bucket

State:

- `step`, `headSN` and `init` are the fields of the same names in the code.
- `buf` is the ring. A slot is abstracted to two things. The first is the 16-bit sequence number its header bytes hold: that is all `get` and `set` ever inspect. The second is a flag saying whether this stream wrote the slot.
- Two ghost variables support the properties. `sent` is the set of sequence numbers the stream stored. `contig` is the length of the current in-order run.

Initial state: `buf` starts zeroed (`Zeroed`), or with stale headers from a slice recycled by the Factory's `sync.Pool` (`StaleSeqs`).

Actions:

- `AddLatest(sn)` is the whole `AddPacket` call with `latest = true`. It covers the `init` branch, the skip loop of `diff-1` steps (computed in closed form as `SkipSteps`), and `push`.
- `AddOld(sn)` is the `latest = false` path into `set`. That path has the distance check, the wrap of `pos`, and the "do not overwrite if the header holds sn" return.

Data: sequence numbers are uint16, and every difference goes through `U16` (`% 65536`).

### NackQueue

State:

- `nacks` is the sorted list of `(sn, nacked)` pairs, and `kfSN` is the field of the same name.
- The caller's state is `head` and `received`.
- `out` is the result of the last `pairs` call (the 16-bit sequence numbers it named, mapped back to the window), and `askKF` is its keyframe flag.
- Two ghost variables support the properties. `nackCount` counts the NACKs each sequence number has received. `evicted` holds the entries lost on overflow.

Operators:

- `PushOp` and `RemoveOp` translate `push` and `remove`, including the `copy(n.nacks, n.nacks[1:])` overflow step (`Overflow`). That step shifts the list but does not shorten it.
- `PairsOp` folds `PairsStep` over the list, exactly as the loop of `pairs` does: escalation at `maxNackTimes`, the freshness test `nck.sn >= headSN-2` (`Fresh`, whose uint32 underflow is modelled), and the NackPair building in uint16 arithmetic. That arithmetic includes `PacketID == 0` as the empty sentinel and a shift of 16 or more yielding 0.

Actions:

- `ArriveNewer(s)` pushes every skipped sequence number and then moves the head.
- `ArriveLate(s)` removes `s` from the queue.
- `Pairs` is the feedback timer: it makes one `pairs(head)` call.

### TwccEncoder

A packet of `tccPkts` is its `Timestamp` in microseconds, where 0 marks a lost entry, as in the code. `EncodeStep` is one iteration of the loop. It carries the loop variables in a record: `firstRecv`, `same`, `timestamp`, `lastStatus`, `maxStatus` and the `statusList`, plus the chunks and deltas written so far.

- `Receive` covers the first received packet, which writes the reference time and increments `pktCtn`. It then computes the delta with Go's truncating division (`GoDiv`), applies the int16 clamp (`ClampDelta`, which tests the wrapped value as the code does) and the size `writeDelta` gives it.
- `CloseRun` ends a run: a run of more than 7 becomes a run-length chunk.
- `TwoBitPack` (with the recount `Rescan`) and `OneBitPack` are the two vector-chunk branches.
- `Flush` is the code after the loop. `Popped` is the number of entries its pop loop really takes: `i < statusList.Len()` is tested against a shrinking list.

A chunk is kept as what its 16 bits say, and a delta as its size and the value a receiver reads back. `DeltaLen` is `t.deltaLen`. The decoder (`ChunkSymbols`, `DecodeChunks`, `Agrees`, `Reconstructed`) is written from draft-holmer-rmcat-transport-wide-cc-extensions-01, not from the code.

### TwccResponder

The state is the Responder's fields: `extInfo`, `lastReport`, `cycles`, `lastSn`, `lastExtSN`, `pktCtn`, and `hdr`, the feedback that `t.payload[:t.len]` holds.

`Push` is the whole call under the lock:

- the cycle test (`NextCycles`);
- the append;
- `lastReport` initialisation;
- the trigger.

When the trigger fires, the build runs in the same step:

- `Sorted`;
- `GapFill`, the skip below `lastExtSN` and the gap entries;
- `Feedback`, the header, or the old header when no entry survived.

The network numbers packets `FirstSeq, FirstSeq+1, ...`. It delivers each packet at most `Reorder-1` places late, loses any packet, and duplicates up to `MaxDup` deliveries. Three ghost variables support the properties: `pushed` (the extended numbers recorded), `misnumbered` (a packet got an extended number other than its true one) and `fb` (the feedbacks sent).

### SfuSessions

Each peer is a goroutine with a `pc`. Every critical section of one lock is one step. The steps of a call that run under different locks are separate steps:

- `GetSession` (the `getSession` read);
- `NewSession`;
- `Insert`;
- `Inc`;
- `Join`;
- `Leave`;
- `Close` (`closed.set`, then the handler only if it was not already set);
- `OnClose` (the delete of `s.sessions[id]`, whatever session holds it);
- `Dec`.

A session is its creation index, and `sidOf` is the id its `OnClose` captured. `gauge` is the `stats.Sessions` gauge. It is incremented by `Inc` after the insert is visible and decremented by `Dec` after the delete, so it can go negative for a while.

`SessionMap` is the registry as the peers calling `GetSession` see it. A session is made for an id (`ANew`) and then published under that id (`AInsert`). Publishing replaces whatever the entry held, which is the race of relay.go:478. `Close` together with its delete is one atomic step (`AClose`): the session is closed and no entry hands it out. The only other way an entry goes is `ADrop`: a late delete of a closed session empties the entry of that session's id, whatever session the entry holds now. `SfuSessions` implements it under the mapping `AbsMap`, which hides an entry whose session is already closed. The first `Close` of a session maps to `AClose` and `OnClose` maps to `ADrop`. `GetSession`, `Join`, `Leave`, `Inc`, `Dec` and a repeated `Close` are stutters.

### RtcpReader

A reader is its creation index. `readers` is `f.rtcpReaders`, `closed` holds the readers whose `closed` flag is set, and `onCloseRuns` counts how often each reader's callback ran. Each srtp read-stream goroutine makes these calls:

- `GetOrNew` (lookup or create, under `f.Lock`);
- `WriteCheck` and `WriteDeliver` (the two halves of `Write`);
- `StreamClose` (srtp removes the stream from its session, so a new stream for the SSRC may open);
- `Close` (`closed.set(true)`);
- `OnClose` (the delete under `f.Lock`).

At most one stream per SSRC is open at a time, as in the srtp session.

`ReaderMap` is the map as its users see it. `GetOrNew` makes a reader only when the map holds no open reader for the SSRC. `Close` together with its callback is one atomic step (`AClose`). The only other way an entry goes is `ADrop`: a late callback of a closed reader deletes the entry of that reader's SSRC, whatever reader the entry holds now. That is the double-close effect of rtcpreader.go:84. `RtcpReader` implements it under the mapping `AbsMap`, which hides an entry whose reader is already closed. `Close` of an open reader maps to `AClose`, and the callback maps to `ADrop`. A `GetOrNew` that returns an existing entry, even a closed one, is a stutter.

## Runs

| Run | cfg | Expect | What it shows |
|---|---|---|---|
| bucket_inorder | `MCBucket_inorder.cfg` | pass | `TypeOK` holds. `InOrderRetrievable` holds: every packet pushed in order since the last gap can be retrieved by `get`, across the 65535→0 wrap and with late packets interleaved. |
| bucket_complete | `MCBucket_complete.cfg` | violation | `BucketComplete` fails. After a gap, the skip loop wraps at `>= maxSteps` while `push` wraps at `> maxSteps` (bucket.go:88 vs 118). The ring shifts by one slot, and a packet still inside the retransmission window is overwritten. |
| nack_pass | `MCNackQueue_pass.cfg` | pass | `NackAtMostMaxTimes` holds: no sequence number is NACKed more than 3 times. `LossAccounted` holds: an unreceived sequence number below the head stays in the queue unless a keyframe request or an overflow eviction covers it. |
| nack_arrived | `MCNackQueue_arrived.cfg` | violation | Overflow duplicates the last entry. `remove` deletes only one copy, so a packet that has arrived is NACKed. |
| twcc_pass | `MCTwccEncoder_pass.cfg` | pass | `StatusesTrackPackets` holds after every iteration of the loop: the chunks written plus the pending `statusList` decode to exactly the packets seen, with the delta sizes written. This covers run-length, two-bit (with the recount) and one-bit packing. |
| twcc_feedback | `MCTwccEncoder_feedbackdecodes.cfg` | violation | `FeedbackDecodes` fails. The flush pops only ceil(n/2) of n mixed statuses (twcc.go:426/432), so the finished feedback reports packets as not received. |
| twcc_deltas | `MCTwccEncoder_deltas.cfg` | violation | `DeltasFit` fails. Received packets with decreasing arrival times need 2 bytes of delta each, and a full batch overruns `t.deltas` (twcc.go:648, a panic under the lock). |
| twcc_resp_lost | `MCTwccResponder_lost.cfg` | pass | `LostMeansMissing` holds, with a duplicate delivery as well: a freshly built feedback never reports as lost a packet Push had recorded within its range. |
| sessions_pass | `MCSfuSessions_pass.cfg` | pass | `RegistryEmptyWhenIdle` holds: with every peer idle, no session is left in the map, even after racing creations. `GaugeZeroWhenIdle` holds: with every peer idle, the session gauge is 0, though a close between the insert and `Inc` drives it negative for a while. `StaleSessionPendingDelete` holds: an entry holding a closed session, which `getSession` may still hand out (relay.go:458), is always held by the peer about to run that session's `OnClose` delete. `ImplementsSessionMap` holds: the registry implements `SessionMap`. |
| sessions_split | `MCSfuSessions_split.cfg` | violation | `OneSessionPerId` fails. Two joins of a new id both miss in `getSession` and create two sessions (relay.go:478). |
| rtcp_pass | `MCRtcpReader_pass.cfg` | pass | `StaleEntryPendingDelete` holds: the map holds a closed reader only while a stream is inside that reader's `OnClose` callback. `ClosedReaderUnregistered` holds: a closed reader eventually leaves the Factory's map for good. `ImplementsReaderMap` holds: the map implements `ReaderMap`. |
| rtcp_twice | `MCRtcpReader_twice.cfg` | violation | `CloseOnce` fails. Two holders of one reader both close it, and `Close` runs `onClose` again (rtcpreader.go:84). This contradicts the file's comment, and the second delete can remove a newer reader's entry. |

### Supplementary checks

The following cfgs check further properties. All but `MCTwccResponder_pass.cfg` are found violated by what the code does. Each is run the same way (`tlc -config <cfg> <MC module>`). They are not among the recorded runs of `PROJECT.json`, so nothing re-runs them automatically.

| cfg | What it shows |
|---|---|
| `MCBucket_sound.cfg` | `BucketSound` fails. `get` only compares the header's sequence number (bucket.go:136). After the misalignment, it returns zeroed bytes or a recycled slice's old packet as if this stream had sent them. |
| `MCNackQueue_bounded.cfg` | The queue grows past `maxNackCache`. Spec 4.2 says it is bounded at 100 entries. |
| `MCNackQueue_counted.cfg` | The packet with 16-bit sequence number 0 is counted as NACKed (and later escalated) but never put in a NackPair (nack.go:148). |
| `MCTwccEncoder_arrivalwithinquantum.cfg` | `ArrivalWithinQuantum` (spec property 6) fails. Each delta is truncated against the previous exact timestamp, so the errors add up. |
| `MCTwccEncoder_sign.cfg` | `DeltaSignKept` fails. A gap of more than 8.19 s wraps in int16, and the clamp, which tests the wrapped value, makes the packet look early. |
| `MCTwccResponder_pass.cfg` | With no duplicate deliveries, `ReportsChained` holds: each feedback's base is the previous base plus the previous count. It holds with losses and reordering across the 2^16 wrap, provided Push numbered every packet right. |
| `MCTwccResponder_dup.cfg` | `ReportsChained` fails once a duplicate is delivered. `ExtTSN < lastExtSN` (twcc.go:234) lets the last reported packet in again. |
| `MCTwccResponder_wrap.cfg` | `ExtSeqCorrect` fails. With no backward case in the cycle test, a pre-wrap packet pushed after the wrap is numbered a cycle ahead. |
| `MCTwccResponder_stale.cfg` | `FeedbackCountAdvances` fails. A build in which every entry is skipped resends the previous payload with the same count (`t.len` is never reset). |
| `MCSfuSessions_closed.cfg` | `NoJoinClosed` fails. A `GetSession` between `Close` and the `OnClose` delete returns the closing session. |
| `MCRtcpReader_held.cfg` | `HeldReaderLive` fails. A stream opened between the old stream's removal and `Close` gets the old reader, which is closed under it, so its RTCP returns `io.EOF`. |

### Bounds

`MCBucket`:

- The ring has four slots (`MaxSteps = 3`).
- Streams start at 65533, which crosses the uint16 wrap, or at 1.
- Gaps go up to `MaxGap = 3`, and late arrivals reach up to `MaxBack = 3` behind the head.
- A recycled slice holds a stale header for sequence number 65534.
- `MaxAdds = 9` caps the number of `AddPacket` calls.

The misalignment needs one gap followed by a full turn of the ring, so four slots and nine calls are enough to reach it. They are also enough to show `InOrderRetrievable` across a wrap.

`MCBucket` also checks, as an ASSUME, that the closed form `SkipSteps` agrees with the skip loop run one iteration at a time (`SkipLoop`), for gaps up to three turns of the ring.

`MCNackQueue`:

- It uses `MaxNackCache = 3`, `Base = 65533` and `W = 7`.
- The window therefore runs from 65533 to 65539. It crosses the 16-bit wrap, so sequence number 65536 (uint16 value 0) occurs.
- Three entries are enough to hit overflow.
- Seven sequence numbers are enough for gaps of several packets and for three NACK rounds.

`MCTwccEncoder`:

- Lists have up to `MaxLen = 14` packets. That is enough for a run of more than 7, a two-bit chunk of 7 with a remainder, and a one-bit chunk of 14.
- Arrivals step by 300 us, with one 2 ms backward step (`MCBackStep`).
- The `twcc_deltas` run scales the code's proportion down: 200 bytes for batches of at most 101 received packets becomes `DeltasCap = 2*(MaxLen-1)` for `MaxLen = 5`.

`MCTwccResponder`:

- The batch thresholds 20 and 100 are scaled down to `MinBatch = 2` and `MaxBatch = 3`. Time constants keep their nanosecond values, and steps of 1 ms and 60 ms reach both the time trigger and the marker trigger.
- The stream has 10 packets (8 in `twcc_resp_lost`) starting at 65533, so it crosses the wrap.
- `Reorder = 3` in the pass runs. `MCTwccResponder_stale.cfg` uses `Reorder = 5`, the displacement needed to put a whole batch behind `lastExtSN`.

`MCSfuSessions`:

- There are three peers, one id and two `GetSession` calls per peer, with `MaxSessions = 6` so that creation never runs out.
- Three peers are what the race needs: two creating, one joining between `Close` and the delete.
- Two ids multiply the state space about twentyfold without a new interleaving, because the registry's entries are independent.

`MCRtcpReader`:

- There are three stream goroutines, one SSRC and two opens each, with `MaxReaders = 6`.
- A double close needs two streams sharing a reader, plus a third stream to register the newer reader.

`CHECK_DEADLOCK FALSE` is set for every instance. The stream has a last packet, and each call bound (`MaxAdds`, `NumPkts`, `Rounds`, `Opens`) runs out, so the models stop there.

## Fairness

The Bucket, NACK, TWCC and session-registry properties are safety properties, so no fairness is assumed there. One liveness property uses weak fairness.

`RtcpReader` assumes weak fairness of `Close` and `OnClose` for each stream: a goroutine inside `Close` runs it to the end. Streams need not open, write or close.

## Proofs

`BucketProofs` proves two theorems for every `MaxSteps`, every start and every bound that satisfy `BucketAssumption`. That assumption asks for `MaxSteps < 65535`. `set` compares a distance against `uint16(b.maxSteps+1)` (bucket.go:144), which equals `maxSteps+1` only below 2^16. The Factory's ring has `trackingPackets` slots, 500 in its example. The uint16 range is written `SeqNum == {n \in Nat : n < 65536}`, a form the provers handle better than a literal interval.

- `TypeCorrect == Spec => []TypeOK`. `TypeOK` is not inductive as it stands, because `contig <= MaxAdds` depends on the number of calls. The inductive invariant is `IInv == TypeOK /\ contig <= adds`.
- `InOrderRetrievableHolds == Spec => []InOrderRetrievable`. The inductive invariant `RInv` adds `InOrderRun` to `IInv`. For every `d < contig`, the slot `RingSlot(step, d)` (d+1 slots behind `step`, modulo `maxSteps+1`) holds the packet `headSN - d`, as a current (non-stale) header. `Get` then finds each of them by the same arithmetic. So the property follows from the ring being aligned with the sequence numbers, and that alignment is what each `AddLatest` and `AddOld` is shown to keep.

The proofs rest on these lemmas:

- `SkipStepsInSlots`: the skip loop's closed form always lands in `0..maxSteps`.
- `NextStepInSlots`: `push`'s increment always lands in `0..maxSteps`.
- `SetPosInSlots`: `set` writes to a slot of the ring whenever its distance check passes.
- `U16Range`: a `U16` conversion always yields a uint16.
- `DeliveredSeqsAreU16`: every sequence number the network may deliver is a uint16.
- `RingSlotInjective` and `RingSlotAfterPush`: distinct distances name distinct slots, and a push shifts every distance by one.
- `U16Twice` and `U16Succ`: the uint16 arithmetic that relates `headSN - d` before and after a new head.
- `GetOfRun`: `Get` of a packet of the run returns its slot.

`SfuSessionsProofs` proves four theorems for every set of peers and ids and every bound that satisfies `SessionsAssumption`:

- `RegistryEmptyWhenIdleHolds == Spec => []RegistryEmptyWhenIdle`;
- `StaleSessionPendingDeleteHolds == Spec => []StaleSessionPendingDelete`, which follows from the last conjunct of `EntryWitnessed` below;
- `SessionsTypeCorrect == Spec => []TypeOK`;
- `SessionMapRefinement == Spec => ImplementsSessionMap`, where `ImplementsSessionMap` is `SessionMap`'s `ASpec` under the mapping `AbsMap`.

`RegistryEmptyWhenIdle` is not inductive by itself. An entry can only be shown to go away if some peer is still bound to delete it. The inductive invariant `IInv` therefore adds the following conjuncts:

- `Bounded`: sessions are created in order, and what peers and the map hold exists.
- `FreshUnused`: an uncreated session is untouched.
- `Holding`: a peer inside a call holds a session.
- `Membership`: `members` agrees with the peers' positions.
- `InsertOwned`: a session between `NewSession` and `Insert` is its creator's alone.
- `EntryWitnessed`: every map entry is a session made for its id and held by a peer still inside a call. Once that session is closed, the peer holding it is about to run the `OnClose` delete.

When every peer is idle there is no witness, so there is no entry. The step lemma `NextIInv` has one step per action and, under it, one per conjunct.

The refinement adds `OnCloseClosed`: a peer about to run the `OnClose` delete holds a closed session, which is `ADrop`'s guard. There is one lemma for `Init => AInit` and one per action that moves the abstract state (`NewSessionRefines`, `InsertRefines`, `CloseRefines`, `OnCloseRefines`). `InsertRefines` uses `InsertOwned`: the session being inserted is open and held by no entry, which is `AInsert`'s guard. The last step combines them with `[](IInv /\ OnCloseClosed)` by PTL.

`SfuGaugeProofs` proves `GaugeZeroWhenIdleHolds == Spec => []GaugeZeroWhenIdle` for every constant that satisfies `SessionsAssumption`. The gauge is not a function of the map, so the inductive invariant `GInv` counts what it has seen. It is `IInv` together with these conjuncts:

- `GaugeCount`: with stats on, `gauge` is the number of created sessions whose `Inc` has run, minus the number of closed sessions whose `Dec` has run. With stats off, `gauge` is 0 and no peer is at `Inc` or `Dec`.
- `IncUnique`: no two peers are about to run the `Inc` of one session.
- `DecOwned`: a peer about to run the `OnClose` delete or the `Dec` holds a closed session, and no other peer is about to run them for that session.
- `OpenHeld`: an open session that was created is held by a peer inside a call.

When every peer is idle nothing is owed, so every created session has had its `Inc`. By `OpenHeld` every created session is closed, and every closed one has had its `Dec`. The two sets are then both `1..created`, and the gauge is 0. The proof rests on `FiniteSetTheorems` (`FS_AddElement`, `FS_Subset`, `FS_Interval`) for the cardinalities.

`RtcpReaderProofs` proves three theorems for every set of streams and SSRCs and every `MaxReaders` and `Opens` that satisfy `ReaderAssumption`:

- `StaleEntryPendingDeleteHolds == Spec => []StaleEntryPendingDelete`;
- `ReaderTypeCorrect == Spec => []TypeOK`;
- `ReaderMapRefinement == Spec => ImplementsReaderMap`, where `ImplementsReaderMap` is `ReaderMap`'s `ASpec` under the mapping `AbsMap`.

`StaleEntryPendingDelete` is not inductive alone: to keep a stale entry's witness, the proof must know that the witness's delete hits that entry. The inductive invariant `IInv` adds these conjuncts:

- `Bounded`: readers are created in order, and what the map and the streams hold exists.
- `FreshOpen`: an uncreated reader is not closed.
- `Holding`: a stream that is not idle holds a reader.
- `EntryKey`: the entry of `x` holds a reader made for `x`, so that reader's callback deletes exactly this entry.

The refinement needs one more invariant. `ClosingClosed` says that a stream inside the callback holds a closed reader, which is `ADrop`'s guard. The proof has one lemma for `Init => AInit` and one per concrete action (`GetOrNewRefines`, `CloseRefines`, `OnCloseRefines`). Each shows that the step is a `ReaderMap` step or leaves `AbsMap`, `closed`, `created` and `ssrcOf` unchanged. The last step combines them with `[](IInv /\ ClosingClosed)` by PTL.

Only TLC checks the rest:

- **Every `NackQueue` property.** `PushRange` and `PairsOp` are recursive functions over the list. What such a fold computes for every input needs induction over data, which the installed provers cannot instantiate.
- **`BucketComplete`.** It is violated by the code, so there is nothing to prove.
- **Every TWCC property.** The encoder and the build are recursive functions over the packet list, and `Sorted` uses `SortSeq`. A statement for every list needs induction over data.
- **`CloseOnce` and `HeldReaderLive`.** Both are violated by the code.
- **Liveness and ENABLED.** `ClosedReaderUnregistered` is out of TLAPS's reach in any case.

## Not modelled (yet), and the plan

1. **Receiver, Router and DownTrack**:
   - fan-out, and layer switching committed on a keyframe (spec properties 1, 2 and 5);
   - concurrent `AddDownTrack`/`DeleteDownTrack` against `writeRTP`;
   - an abstract "forwarding" spec, with the detailed model shown to refine it.
   - The Router's `AddReceiver` calls `GetBufferPair` and then `OnPacket` on the reader it got. `RtcpReader` models this as one step that needs a registered reader, so the nil reader that a concurrent delete would leave is not explored.
2. **The rest of the Factory**: the RTP branch of `GetOrNew` (`Buffer.Close` is not under `src/`) and the `sync.Pool` recycling that feeds the `StaleSeqs` of `Bucket`.
3. **TWCC byte limits**: the 100-byte `payload` (about 295 mixed statuses) and the 13-bit run length. Both need lists far longer than TLC can enumerate.
4. **Further proofs**: the NackQueue type invariant (`TypeOK`). Its `PushRange` is a recursive function, so the proof needs induction over data.

The following are left out as I/O or pure parsing with no state machine:

- the VP8/H.264 payload parsers (only their keyframe flag matters, and it is an input);
- configuration;
- ICE/TURN;
- signaling.
