--------------------------- MODULE SfuGaugeProofs ---------------------------
(***************************************************************************)
(* The sessions gauge of the SFU (stats.Sessions, relay.go 426-428 and    *)
(* 435-437): proof that it is back at zero whenever no peer is inside a    *)
(* call, for every set of peers and ids and every bound.                  *)
(***************************************************************************)
EXTENDS SfuSessionsProofs, FiniteSets, FiniteSetTheorems

\* Session n's creator has yet to run stats.Sessions.Inc.
IncPending(n) == \E p \in Peers : cur[p] = n /\ pc[p] \in {"insert", "inc"}

\* Session n's OnClose has yet to run stats.Sessions.Dec.
DecPending(n) == \E p \in Peers : cur[p] = n /\ pc[p] \in {"onclose", "dec"}

\* The sessions whose Inc has run, and the sessions whose Dec has run.
IncDone == {n \in 1 .. created : ~IncPending(n)}
DecDone == {n \in closed : ~DecPending(n)}

\* The gauge counts the Incs run minus the Decs run; without stats there
\* are none.
GaugeCount ==
  /\ WithStats => gauge = Cardinality(IncDone) - Cardinality(DecDone)
  /\ ~WithStats => gauge = 0 /\ \A p \in Peers : pc[p] \notin {"inc", "dec"}

\* No two peers are about to run the Inc of one session.
IncUnique ==
  \A p, q \in Peers : p # q /\ pc[p] = "inc" /\ pc[q] = "inc" => cur[p] # cur[q]

\* A peer about to run the OnClose delete or the Dec holds a closed
\* session, and no other peer is about to run them for that session.
DecOwned ==
  \A p \in Peers : pc[p] \in {"onclose", "dec"} =>
    /\ cur[p] \in closed
    /\ \A q \in Peers \ {p} : pc[q] \in {"onclose", "dec"} => cur[q] # cur[p]

\* A session that is created and not closed is held by a peer inside a
\* call with it, who will close it or pass it on to another member.
OpenHeld ==
  \A n \in 1 .. created : n \notin closed =>
    \E p \in Peers : cur[p] = n /\ pc[p] \in Busy

GInv == IInv /\ GaugeCount /\ IncUnique /\ DecOwned /\ OpenHeld

\* The positions where a peer is about to run an Inc, or an OnClose delete
\* and a Dec.
Hot == {"insert", "inc", "onclose", "dec"}

\* A step of peer p: what the other peers hold and where they are stays.
PeerStep(p) == (\E id \in Ids : GetSession(p, id)) \/ Internal(p) \/ Leave(p)
Frame(p) == \A q \in Peers \ {p} : pc'[q] = pc[q] /\ cur'[q] = cur[q]

LEMMA PeerStepFrame ==
  ASSUME IInv, NEW p \in Peers, PeerStep(p)
  PROVE  Frame(p) /\ closed \subseteq closed'
  BY DEF PeerStep, Frame, GetSession, Internal, NewSession, Insert, Inc, Join,
     Leave, Close, OnClose, Dec, IInv, TypeOK

\* Whether some peer holds n at a position of S does not change in a step
\* of p that keeps p out of S.
LEMMA PendingSame ==
  ASSUME NEW p \in Peers, NEW S, Frame(p), pc[p] \notin S, pc'[p] \notin S
  PROVE  \A n : (\E q \in Peers : cur'[q] = n /\ pc'[q] \in S)
                  <=> (\E q \in Peers : cur[q] = n /\ pc[q] \in S)
  BY DEF Frame

\* A set of session numbers is finite.
LEMMA NumbersFinite ==
  ASSUME NEW c \in Nat, NEW T \in SUBSET (1 .. c)
  PROVE  IsFiniteSet(T) /\ Cardinality(T) \in Nat
<1>1. IsFiniteSet(1 .. c)
  BY FS_Interval
<1>2. IsFiniteSet(T)
  BY <1>1, FS_Subset
<1>3. QED
  BY <1>2, FS_CardinalityType

\* Every initial state satisfies GInv: nothing is created, closed or
\* counted.
LEMMA InitGInv == Init => GInv
<1> SUFFICES ASSUME Init PROVE GInv
  OBVIOUS
<1>1. IInv
  BY InitIInv
<1>2. IncDone = {} /\ DecDone = {}
  BY DEF Init, IncDone, DecDone
<1>3. GaugeCount
  BY <1>2, FS_EmptySet DEF Init, GaugeCount
<1>4. IncUnique /\ DecOwned /\ OpenHeld
  BY DEF Init, IncUnique, DecOwned, OpenHeld
<1>5. QED
  BY <1>1, <1>3, <1>4 DEF GInv

\* A step of p that keeps p away from the Inc, the OnClose delete and the
\* Dec, and changes neither the sessions made nor the closed ones nor the
\* gauge, keeps GInv, given that it keeps OpenHeld.
LEMMA QuietStep ==
  ASSUME GInv, IInv', NEW p \in Peers, Frame(p), pc[p] \notin Hot, pc'[p] \notin Hot,
         UNCHANGED <<created, closed, gauge>>, OpenHeld'
  PROVE  GInv'
<1>1. \A n : IncPending(n)' <=> IncPending(n)
  <2>1. pc[p] \notin {"insert", "inc"} /\ pc'[p] \notin {"insert", "inc"}
    BY DEF Hot
  <2>2. QED
    BY <2>1, PendingSame DEF IncPending
<1>2. \A n : DecPending(n)' <=> DecPending(n)
  <2>1. pc[p] \notin {"onclose", "dec"} /\ pc'[p] \notin {"onclose", "dec"}
    BY DEF Hot
  <2>2. QED
    BY <2>1, PendingSame DEF DecPending
<1>3. IncDone' = IncDone /\ DecDone' = DecDone
  BY <1>1, <1>2 DEF IncDone, DecDone
<1>4. GaugeCount'
  BY <1>3 DEF GaugeCount, GInv, Frame, Hot
<1>5. IncUnique'
  BY DEF IncUnique, GInv, Frame, Hot
<1>6. DecOwned'
  BY DEF DecOwned, GInv, Frame, Hot
<1>7. QED
  BY <1>4, <1>5, <1>6 DEF GInv


\* GetSession, Join, Leave and a second Close touch no counter; a peer
\* that leaves a session others are still in passes it on to them.
LEMMA QuietActions ==
  ASSUME GInv, IInv', NEW p \in Peers,
         \/ \E id \in Ids : GetSession(p, id)
         \/ Join(p) \/ Leave(p)
         \/ Close(p) /\ cur[p] \in closed
  PROVE  GInv'
<1>1. Frame(p) /\ pc[p] \notin Hot /\ pc'[p] \notin Hot
      /\ UNCHANGED <<created, closed, gauge>>
  <2>1. Frame(p)
    BY PeerStepFrame DEF GInv, PeerStep, Internal
  <2>2. pc[p] \notin Hot /\ pc'[p] \notin Hot /\ UNCHANGED <<created, closed, gauge>>
    <3>1. CASE \E id \in Ids : GetSession(p, id)
      BY <3>1 DEF GetSession, Hot, GInv, IInv, TypeOK
    <3>2. CASE Join(p)
      BY <3>2 DEF Join, Hot, GInv, IInv, TypeOK
    <3>3. CASE Leave(p)
      BY <3>3 DEF Leave, Hot, GInv, IInv, TypeOK
    <3>4. CASE Close(p) /\ cur[p] \in closed
      BY <3>4 DEF Close, Hot, GInv, IInv, TypeOK
    <3>5. QED
      BY <3>1, <3>2, <3>3, <3>4
  <2>3. QED
    BY <2>1, <2>2
<1>2. OpenHeld'
  <2> SUFFICES ASSUME NEW n \in 1 .. created, n \notin closed
               PROVE  \E q \in Peers : cur'[q] = n /\ pc'[q] \in Busy
    BY <1>1 DEF OpenHeld
  <2>1. PICK w \in Peers : cur[w] = n /\ pc[w] \in Busy
    BY DEF GInv, OpenHeld
  <2>2. CASE w # p
    BY <1>1, <2>1, <2>2 DEF Frame
  <2>3. CASE w = p /\ Join(p)
    BY <2>1, <2>3 DEF Join, Busy, GInv, IInv, TypeOK
  <2>4. CASE w = p /\ Leave(p)
    <3>1. CASE members'[n] = {}
      BY <2>1, <2>4, <3>1 DEF Leave, Busy, GInv, IInv, TypeOK
    <3>2. CASE members'[n] # {}
      <4>1. PICK r \in members'[n] : TRUE
        BY <3>2
      <4>2. r \in members[n] /\ r # p /\ n \in Sess
        BY <2>1, <2>4, <4>1 DEF Leave, Sess, GInv, IInv, TypeOK
      <4>3. r \in Peers /\ pc[r] = "joined" /\ cur[r] = n
        BY <4>2 DEF GInv, IInv, Membership, TypeOK
      <4>4. QED
        BY <1>1, <4>2, <4>3 DEF Frame, Busy
    <3>3. QED
      BY <3>1, <3>2
  <2>5. CASE w = p /\ ~Join(p) /\ ~Leave(p)
    BY <2>1, <2>5 DEF GetSession, Close, Busy
  <2>6. QED
    BY <2>2, <2>3, <2>4, <2>5
<1>3. QED
  BY <1>1, <1>2, QuietStep

\* NewSession: the fresh session is its creator's, whose Inc is pending,
\* so nothing counted changes.
LEMMA NewSessionGInv ==
  ASSUME GInv, IInv', NEW p \in Peers, NewSession(p)
  PROVE  GInv'
<1> DEFINE n == created + 1
<1>1. Frame(p) /\ pc[p] = "create" /\ pc'[p] = "insert" /\ cur'[p] = n
      /\ created' = n /\ UNCHANGED <<closed, gauge>> /\ created \in Nat
  <2>1. Frame(p)
    BY PeerStepFrame DEF GInv, PeerStep, Internal
  <2>2. QED
    BY <2>1 DEF NewSession, GInv, IInv, TypeOK
<1>2. \A m \in 1 .. created : IncPending(m)' <=> IncPending(m)
  BY <1>1 DEF IncPending, Frame
<1>3. \E q \in Peers : cur'[q] = n /\ pc'[q] \in {"insert", "inc"}
  BY <1>1
<1>4. IncDone' = IncDone
  <2>1. 1 .. created' = (1 .. created) \cup {n}
    BY <1>1
  <2>2. QED
    BY <1>2, <1>3, <2>1 DEF IncDone, IncPending
<1>5. DecDone' = DecDone
  <2>1. \A m : DecPending(m)' <=> DecPending(m)
    BY <1>1, PendingSame DEF DecPending
  <2>2. QED
    BY <1>1, <2>1 DEF DecDone
<1>6. GaugeCount'
  BY <1>1, <1>4, <1>5 DEF GaugeCount, GInv, Frame
<1>7. IncUnique' /\ DecOwned'
  BY <1>1 DEF IncUnique, DecOwned, GInv, Frame
<1>8. OpenHeld'
  <2> SUFFICES ASSUME NEW m \in 1 .. created', m \notin closed'
               PROVE  \E q \in Peers : cur'[q] = m /\ pc'[q] \in Busy
    BY DEF OpenHeld
  <2>1. CASE m = n
    BY <1>1, <2>1 DEF Busy
  <2>2. CASE m # n
    <3>1. m \in 1 .. created /\ m \notin closed
      BY <1>1, <2>2
    <3>2. PICK w \in Peers : cur[w] = m /\ pc[w] \in Busy
      BY <3>1 DEF GInv, OpenHeld
    <3>3. w # p
      BY <1>1, <3>2 DEF Busy
    <3>4. QED
      BY <1>1, <3>2, <3>3 DEF Frame
  <2>3. QED
    BY <2>1, <2>2
<1>9. QED
  BY <1>6, <1>7, <1>8 DEF GInv


\* The first Close of a session: it is closed with its delete pending, so
\* it is not yet counted as decremented, and no other peer is about to
\* delete it, since such a peer would hold it closed already.
LEMMA FirstCloseGInv ==
  ASSUME GInv, IInv', NEW p \in Peers, Close(p), cur[p] \notin closed
  PROVE  GInv'
<1> DEFINE n == cur[p]
<1>1. /\ Frame(p) /\ pc[p] = "close" /\ pc'[p] = "onclose" /\ cur'[p] = n
      /\ closed' = closed \cup {n} /\ UNCHANGED <<created, gauge>>
  <2>1. Frame(p)
    BY PeerStepFrame DEF GInv, PeerStep, Internal
  <2>2. QED
    BY <2>1 DEF Close, GInv, IInv, TypeOK
<1>2. \A q \in Peers : pc[q] \in {"onclose", "dec"} => cur[q] # n
  BY DEF GInv, DecOwned
<1>3. IncDone' = IncDone
  <2>1. \A m : IncPending(m)' <=> IncPending(m)
    BY <1>1, PendingSame DEF IncPending
  <2>2. QED
    BY <1>1, <2>1 DEF IncDone
<1>4. DecDone' = DecDone
  <2>1. \A m \in closed : DecPending(m)' <=> DecPending(m)
    BY <1>1 DEF DecPending, Frame
  <2>2. \E q \in Peers : cur'[q] = n /\ pc'[q] \in {"onclose", "dec"}
    BY <1>1
  <2>3. QED
    BY <1>1, <2>1, <2>2 DEF DecDone, DecPending
<1>5. GaugeCount'
  BY <1>1, <1>3, <1>4 DEF GaugeCount, GInv, Frame
<1>6. IncUnique'
  BY <1>1 DEF IncUnique, GInv, Frame
<1>7. DecOwned'
  <2> SUFFICES ASSUME NEW q \in Peers, pc'[q] \in {"onclose", "dec"}
               PROVE  /\ cur'[q] \in closed'
                      /\ \A r \in Peers \ {q} : pc'[r] \in {"onclose", "dec"} => cur'[r] # cur'[q]
    BY DEF DecOwned
  <2>1. CASE q = p
    BY <1>1, <1>2, <2>1 DEF Frame
  <2>2. CASE q # p
    <3>1. pc[q] \in {"onclose", "dec"} /\ cur'[q] = cur[q] /\ cur[q] \in closed
      BY <1>1, <2>2 DEF Frame, GInv, DecOwned
    <3>2. \A r \in Peers \ {q, p} : pc'[r] \in {"onclose", "dec"} => cur'[r] # cur'[q]
      BY <1>1, <3>1 DEF Frame, GInv, DecOwned
    <3>3. cur'[p] # cur'[q]
      BY <1>1, <3>1
    <3>4. QED
      BY <1>1, <3>1, <3>2, <3>3
  <2>3. QED
    BY <2>1, <2>2
<1>8. OpenHeld'
  <2> SUFFICES ASSUME NEW m \in 1 .. created, m \notin closed'
               PROVE  \E q \in Peers : cur'[q] = m /\ pc'[q] \in Busy
    BY <1>1 DEF OpenHeld
  <2>1. PICK w \in Peers : cur[w] = m /\ pc[w] \in Busy
    BY <1>1 DEF GInv, OpenHeld
  <2>2. w # p
    BY <1>1, <2>1
  <2>3. QED
    BY <1>1, <2>1, <2>2 DEF Frame
<1>9. QED
  BY <1>5, <1>6, <1>7, <1>8 DEF GInv

\* The OnClose delete moves its peer on to the Dec (or, without stats,
\* out of the call): the session stays closed with its Dec pending.
LEMMA OnCloseGInv ==
  ASSUME GInv, IInv', NEW p \in Peers, OnClose(p)
  PROVE  GInv'
<1>1. /\ Frame(p) /\ pc[p] = "onclose" /\ cur'[p] = cur[p]
      /\ pc'[p] = IF WithStats THEN "dec" ELSE "idle"
      /\ UNCHANGED <<created, closed, gauge>>
  <2>1. Frame(p)
    BY PeerStepFrame DEF GInv, PeerStep, Internal
  <2>2. QED
    BY <2>1 DEF OnClose, GInv, IInv, TypeOK
<1>2. cur[p] \in closed
  BY <1>1 DEF GInv, DecOwned
<1>3. GaugeCount'
  <2>1. CASE WithStats
    <3>1. \A m : IncPending(m)' <=> IncPending(m)
      BY <1>1, <2>1, PendingSame DEF IncPending
    <3>2. \A m : DecPending(m)' <=> DecPending(m)
      BY <1>1, <2>1 DEF DecPending, Frame
    <3>3. IncDone' = IncDone /\ DecDone' = DecDone
      BY <1>1, <3>1, <3>2 DEF IncDone, DecDone
    <3>4. QED
      BY <1>1, <2>1, <3>3 DEF GaugeCount, GInv
  <2>2. CASE ~WithStats
    BY <1>1, <2>2 DEF GaugeCount, GInv, Frame
  <2>3. QED
    BY <2>1, <2>2
<1>4. IncUnique'
  BY <1>1 DEF IncUnique, GInv, Frame
<1>5. DecOwned'
  BY <1>1 DEF DecOwned, GInv, Frame
<1>6. OpenHeld'
  <2> SUFFICES ASSUME NEW m \in 1 .. created, m \notin closed
               PROVE  \E q \in Peers : cur'[q] = m /\ pc'[q] \in Busy
    BY <1>1 DEF OpenHeld
  <2>1. PICK w \in Peers : cur[w] = m /\ pc[w] \in Busy
    BY DEF GInv, OpenHeld
  <2>2. w # p
    BY <1>2, <2>1
  <2>3. QED
    BY <1>1, <2>1, <2>2 DEF Frame
<1>7. QED
  BY <1>3, <1>4, <1>5, <1>6 DEF GInv


\* The insert: with stats the creator goes on to its Inc, which stays
\* pending; without, the gauge is not touched at all.
LEMMA InsertGInv ==
  ASSUME GInv, IInv', NEW p \in Peers, Insert(p)
  PROVE  GInv'
<1>1. /\ Frame(p) /\ pc[p] = "insert" /\ cur'[p] = cur[p]
      /\ pc'[p] = IF WithStats THEN "inc" ELSE "join"
      /\ UNCHANGED <<created, closed, gauge>>
  <2>1. Frame(p)
    BY PeerStepFrame DEF GInv, PeerStep, Internal
  <2>2. QED
    BY <2>1 DEF Insert, GInv, IInv, TypeOK
<1>2. \A q \in Peers \ {p} : cur[q] # cur[p]
  BY <1>1 DEF GInv, IInv, InsertOwned
<1>3. GaugeCount'
  <2>1. CASE WithStats
    <3>1. \A m : IncPending(m)' <=> IncPending(m)
      BY <1>1, <2>1 DEF IncPending, Frame
    <3>2. \A m : DecPending(m)' <=> DecPending(m)
      BY <1>1, PendingSame DEF DecPending
    <3>3. IncDone' = IncDone /\ DecDone' = DecDone
      BY <1>1, <3>1, <3>2 DEF IncDone, DecDone
    <3>4. QED
      BY <1>1, <2>1, <3>3 DEF GaugeCount, GInv
  <2>2. CASE ~WithStats
    BY <1>1, <2>2 DEF GaugeCount, GInv, Frame
  <2>3. QED
    BY <2>1, <2>2
<1>4. IncUnique'
  BY <1>1, <1>2 DEF IncUnique, GInv, Frame
<1>5. DecOwned'
  BY <1>1 DEF DecOwned, GInv, Frame
<1>6. OpenHeld'
  <2> SUFFICES ASSUME NEW m \in 1 .. created, m \notin closed
               PROVE  \E q \in Peers : cur'[q] = m /\ pc'[q] \in Busy
    BY <1>1 DEF OpenHeld
  <2>1. PICK w \in Peers : cur[w] = m /\ pc[w] \in Busy
    BY DEF GInv, OpenHeld
  <2>2. QED
    BY <1>1, <2>1 DEF Frame, Busy
<1>7. QED
  BY <1>3, <1>4, <1>5, <1>6 DEF GInv

\* The Inc: the creator's session joins the sessions counted, the only
\* peer about to run its Inc being the creator itself.
LEMMA IncGInv ==
  ASSUME GInv, IInv', NEW p \in Peers, Inc(p)
  PROVE  GInv'
<1> DEFINE n == cur[p]
<1>1. /\ Frame(p) /\ pc[p] = "inc" /\ pc'[p] = "join" /\ cur'[p] = n
      /\ gauge' = gauge + 1 /\ UNCHANGED <<created, closed>>
  <2>1. Frame(p)
    BY PeerStepFrame DEF GInv, PeerStep, Internal
  <2>2. QED
    BY <2>1 DEF Inc, GInv, IInv, TypeOK
<1>2. WithStats /\ created \in Nat /\ n \in 1 .. created
  BY <1>1 DEF GInv, GaugeCount, IInv, TypeOK, Holding, Bounded, Busy, Sess
<1>3. \A q \in Peers \ {p} : pc[q] \in {"insert", "inc"} => cur[q] # n
  <2> SUFFICES ASSUME NEW q \in Peers \ {p}, pc[q] \in {"insert", "inc"}
               PROVE  cur[q] # n
    OBVIOUS
  <2>1. CASE pc[q] = "insert"
    BY <2>1 DEF GInv, IInv, InsertOwned
  <2>2. CASE pc[q] = "inc"
    BY <1>1, <2>2 DEF GInv, IncUnique
  <2>3. QED
    BY <2>1, <2>2
<1>4. IncDone' = IncDone \cup {n} /\ n \notin IncDone
  <2>1. \A m : m # n => (IncPending(m)' <=> IncPending(m))
    BY <1>1 DEF IncPending, Frame
  <2>2. ~IncPending(n)' /\ IncPending(n)
    BY <1>1, <1>3 DEF IncPending, Frame
  <2>3. QED
    BY <1>1, <1>2, <2>1, <2>2 DEF IncDone
<1>5. DecDone' = DecDone
  <2>1. \A m : DecPending(m)' <=> DecPending(m)
    BY <1>1, PendingSame DEF DecPending
  <2>2. QED
    BY <1>1, <2>1 DEF DecDone
<1>6. /\ IsFiniteSet(IncDone)
      /\ Cardinality(IncDone \cup {n}) = Cardinality(IncDone) + 1
  <2>1. IsFiniteSet(IncDone)
    BY <1>2, NumbersFinite DEF IncDone
  <2>2. QED
    BY <1>4, <2>1, FS_AddElement
<1>7. GaugeCount'
  <2>1. gauge = Cardinality(IncDone) - Cardinality(DecDone)
    BY <1>2 DEF GInv, GaugeCount
  <2>2. Cardinality(IncDone) \in Nat /\ Cardinality(DecDone) \in Nat
    <3>1. MaxSessions \in Nat /\ DecDone \subseteq 1 .. MaxSessions
      BY SessionsAssumption DEF DecDone, GInv, IInv, TypeOK, Sess
    <3>2. QED
      BY <1>2, <3>1, NumbersFinite DEF IncDone
  <2>3. Cardinality(IncDone') = Cardinality(IncDone) + 1
        /\ Cardinality(DecDone') = Cardinality(DecDone)
    BY <1>4, <1>5, <1>6
  <2>4. gauge' = Cardinality(IncDone') - Cardinality(DecDone')
    BY <1>1, <2>1, <2>2, <2>3
  <2>5. QED
    BY <1>2, <2>4 DEF GaugeCount
<1>8. IncUnique' /\ DecOwned'
  BY <1>1 DEF IncUnique, DecOwned, GInv, Frame
<1>9. OpenHeld'
  <2> SUFFICES ASSUME NEW m \in 1 .. created, m \notin closed
               PROVE  \E q \in Peers : cur'[q] = m /\ pc'[q] \in Busy
    BY <1>1 DEF OpenHeld
  <2>1. PICK w \in Peers : cur[w] = m /\ pc[w] \in Busy
    BY DEF GInv, OpenHeld
  <2>2. QED
    BY <1>1, <2>1 DEF Frame, Busy
<1>10. QED
  BY <1>7, <1>8, <1>9 DEF GInv

\* The Dec: the closed session joins the sessions decremented, the only
\* peer about to run its Dec being this one.
LEMMA DecGInv ==
  ASSUME GInv, IInv', NEW p \in Peers, Dec(p)
  PROVE  GInv'
<1> DEFINE n == cur[p]
<1>1. /\ Frame(p) /\ pc[p] = "dec" /\ pc'[p] = "idle" /\ cur'[p] = n
      /\ gauge' = gauge - 1 /\ UNCHANGED <<created, closed>>
  <2>1. Frame(p)
    BY PeerStepFrame DEF GInv, PeerStep, Internal
  <2>2. QED
    BY <2>1 DEF Dec, GInv, IInv, TypeOK
<1>2. WithStats /\ n \in closed
      /\ \A q \in Peers \ {p} : pc[q] \in {"onclose", "dec"} => cur[q] # n
  BY <1>1 DEF GInv, GaugeCount, DecOwned
<1>3. DecDone' = DecDone \cup {n} /\ n \notin DecDone
  <2>1. \A m : m # n => (DecPending(m)' <=> DecPending(m))
    BY <1>1 DEF DecPending, Frame
  <2>2. ~DecPending(n)' /\ DecPending(n)
    BY <1>1, <1>2 DEF DecPending, Frame
  <2>3. QED
    BY <1>1, <1>2, <2>1, <2>2 DEF DecDone
<1>4. IncDone' = IncDone
  <2>1. \A m : IncPending(m)' <=> IncPending(m)
    BY <1>1, PendingSame DEF IncPending
  <2>2. QED
    BY <1>1, <2>1 DEF IncDone
<1>5. /\ IsFiniteSet(DecDone)
      /\ Cardinality(DecDone \cup {n}) = Cardinality(DecDone) + 1
  <2>1. IsFiniteSet(DecDone)
    <3>1. MaxSessions \in Nat /\ DecDone \subseteq 1 .. MaxSessions
      BY SessionsAssumption DEF DecDone, GInv, IInv, TypeOK, Sess
    <3>2. QED
      BY <3>1, NumbersFinite
  <2>2. QED
    BY <1>3, <2>1, FS_AddElement
<1>6. GaugeCount'
  <2>1. gauge = Cardinality(IncDone) - Cardinality(DecDone)
    BY <1>2 DEF GInv, GaugeCount
  <2>2. Cardinality(IncDone) \in Nat /\ Cardinality(DecDone) \in Nat
    <3>1. MaxSessions \in Nat /\ DecDone \subseteq 1 .. MaxSessions
      BY SessionsAssumption DEF DecDone, GInv, IInv, TypeOK, Sess
    <3>2. created \in Nat
      BY DEF GInv, IInv, TypeOK
    <3>3. QED
      BY <3>1, <3>2, NumbersFinite DEF IncDone
  <2>3. Cardinality(DecDone') = Cardinality(DecDone) + 1
        /\ Cardinality(IncDone') = Cardinality(IncDone)
    BY <1>3, <1>4, <1>5
  <2>4. gauge' = Cardinality(IncDone') - Cardinality(DecDone')
    BY <1>1, <2>1, <2>2, <2>3
  <2>5. QED
    BY <1>2, <2>4 DEF GaugeCount
<1>7. IncUnique' /\ DecOwned'
  BY <1>1 DEF IncUnique, DecOwned, GInv, Frame
<1>8. OpenHeld'
  <2> SUFFICES ASSUME NEW m \in 1 .. created, m \notin closed
               PROVE  \E q \in Peers : cur'[q] = m /\ pc'[q] \in Busy
    BY <1>1 DEF OpenHeld
  <2>1. PICK w \in Peers : cur[w] = m /\ pc[w] \in Busy
    BY DEF GInv, OpenHeld
  <2>2. w # p
    BY <1>1, <2>1 DEF Busy
  <2>3. QED
    BY <1>1, <2>1, <2>2 DEF Frame
<1>9. QED
  BY <1>6, <1>7, <1>8 DEF GInv


\* Every step preserves GInv.
LEMMA NextGInv == GInv /\ [Next]_vars => GInv'
<1> SUFFICES ASSUME GInv, [Next]_vars PROVE GInv'
  OBVIOUS
<1>1. IInv'
  BY NextIInv DEF GInv
<1>2. CASE UNCHANGED vars
  BY <1>1, <1>2 DEF vars, GInv, GaugeCount, IncDone, DecDone, IncPending, DecPending,
     IncUnique, DecOwned, OpenHeld
<1>3. ASSUME NEW p \in Peers, NEW id \in Ids, GetSession(p, id) PROVE GInv'
  BY <1>1, <1>3, QuietActions
<1>4. ASSUME NEW p \in Peers, Join(p) \/ Leave(p) PROVE GInv'
  BY <1>1, <1>4, QuietActions
<1>5. ASSUME NEW p \in Peers, Close(p) PROVE GInv'
  <2>1. CASE cur[p] \in closed
    BY <1>1, <1>5, <2>1, QuietActions
  <2>2. CASE cur[p] \notin closed
    BY <1>1, <1>5, <2>2, FirstCloseGInv
  <2>3. QED
    BY <2>1, <2>2
<1>6. ASSUME NEW p \in Peers, NewSession(p) \/ Insert(p) \/ Inc(p) \/ OnClose(p) \/ Dec(p)
      PROVE GInv'
  BY <1>1, <1>6, NewSessionGInv, InsertGInv, IncGInv, OnCloseGInv, DecGInv
<1>7. QED
  BY <1>2, <1>3, <1>4, <1>5, <1>6 DEF Next, Internal

\* With every peer idle nothing is pending, every session made has been
\* closed, and so every Inc has its Dec.
LEMMA GInvGaugeZero == GInv => GaugeZeroWhenIdle
<1> SUFFICES ASSUME GInv, \A p \in Peers : pc[p] = "idle" PROVE gauge = 0
  BY DEF GaugeZeroWhenIdle
<1>1. CASE ~WithStats
  BY <1>1 DEF GInv, GaugeCount
<1>2. CASE WithStats
  <2>1. IncDone = 1 .. created
    BY DEF IncDone, IncPending
  <2>2. 1 .. created \subseteq closed
    BY DEF GInv, OpenHeld, Busy
  <2>3. closed \subseteq 1 .. created
    BY DEF GInv, IInv, TypeOK, FreshUnused, Sess
  <2>4. DecDone = closed
    BY DEF DecDone, DecPending
  <2>5. IncDone = DecDone
    BY <2>1, <2>2, <2>3, <2>4
  <2>6. Cardinality(IncDone) \in Nat
    <3>1. created \in Nat
      BY DEF GInv, IInv, TypeOK
    <3>2. QED
      BY <3>1, NumbersFinite DEF IncDone
  <2>7. gauge = Cardinality(IncDone) - Cardinality(DecDone)
    BY <1>2 DEF GInv, GaugeCount
  <2>8. QED
    BY <2>5, <2>6, <2>7
<1>3. QED
  BY <1>1, <1>2

\* The sessions gauge stats.Sessions is back at zero whenever no peer is
\* inside a call (GaugeZeroWhenIdle), whatever the interleaving of the
\* creators' Inc with joins, closes and deletes of their sessions, for
\* every set of peers and ids and every bound.
THEOREM GaugeZeroWhenIdleHolds == Spec => []GaugeZeroWhenIdle
<1>1. Spec => []GInv
  BY InitGInv, NextGInv, PTL DEF Spec
<1>2. QED
  BY <1>1, GInvGaugeZero, PTL

=============================================================================
