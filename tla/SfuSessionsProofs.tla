------------------------- MODULE SfuSessionsProofs -------------------------
(***************************************************************************)
(* Proofs about the session registry of SfuSessions, for every set of     *)
(* peers and ids and every bound.                                          *)
(***************************************************************************)
EXTENDS SfuSessions, TLAPS

\* The positions of a peer that is inside a call with a session in hand.
Busy == {"insert", "inc", "join", "joined", "close", "onclose"}

\* Sessions are numbered in creation order: what a peer holds and what
\* the map holds has been created.
Bounded ==
  /\ \A p \in Peers : cur[p] \in 0 .. created
  /\ \A i \in Ids : sessions[i] \in 0 .. created

\* A session not yet created has no members and is not closed.
FreshUnused == \A n \in Sess : n > created => members[n] = {} /\ n \notin closed

\* A peer inside a call, or about to decrement the gauge, holds a session.
Holding == \A p \in Peers : pc[p] \in Busy \cup {"dec"} => cur[p] \in Sess

\* A peer is a member of a session exactly when it has joined it.
Membership ==
  \A p \in Peers, n \in Sess : p \in members[n] <=> (pc[p] = "joined" /\ cur[p] = n)

\* A session newSession has made but not yet inserted is the inserting
\* peer's alone: no other peer and no map entry holds it, it is not closed,
\* and its OnClose captured the id it will be inserted under.
InsertOwned ==
  \A p \in Peers : pc[p] = "insert" =>
    /\ sidOf[cur[p]] = want[p]
    /\ cur[p] \notin closed
    /\ \A i \in Ids : sessions[i] # cur[p]
    /\ \A q \in Peers \ {p} : cur[q] # cur[p]

\* Every map entry s.sessions[i] is a session made for i, held by a peer
\* still inside a call with it (the witness); once it is closed, by the
\* peer about to run its OnClose delete.
EntryWitnessed ==
  \A i \in Ids : sessions[i] # NoSession =>
    /\ sidOf[sessions[i]] = i
    /\ \E p \in Peers : cur[p] = sessions[i] /\ pc[p] \in Busy
    /\ sessions[i] \in closed =>
         \E q \in Peers : cur[q] = sessions[i] /\ pc[q] = "onclose"

\* The inductive invariant: RegistryEmptyWhenIdle is not inductive by
\* itself, since an entry can only be shown to go away when the peer that
\* will close it is known.
IInv ==
  /\ TypeOK /\ Bounded /\ FreshUnused /\ Holding /\ Membership
  /\ InsertOwned /\ EntryWitnessed

\* Every initial state satisfies the inductive invariant.
LEMMA InitIInv == Init => IInv
BY SessionsAssumption DEF Init, IInv, TypeOK, Bounded, FreshUnused, Holding,
   Membership, InsertOwned, EntryWitnessed, Sess, NoSession, PCs, Busy

\* Every step of Next, and every stutter, preserves the inductive invariant.
LEMMA NextIInv == IInv /\ [Next]_vars => IInv'
<1> SUFFICES ASSUME TypeOK, Bounded, FreshUnused, Holding, Membership,
                    InsertOwned, EntryWitnessed, [Next]_vars
             PROVE  IInv'
  BY DEF IInv
<1> USE SessionsAssumption
<1>1. ASSUME NEW p \in Peers, NEW id \in Ids, GetSession(p, id) PROVE IInv'
  <2>1. TypeOK'
    <3>1. cur' \in [Peers -> Sess \cup {NoSession}]
      BY <1>1 DEF GetSession, TypeOK
    <3>2. pc' \in [Peers -> PCs]
      BY <1>1 DEF GetSession, TypeOK, PCs
    <3>3. rounds' \in [Peers -> 0 .. Rounds] /\ want' \in [Peers -> Ids]
      BY <1>1 DEF GetSession, TypeOK
    <3>4. QED
      BY <3>1, <3>2, <3>3, <1>1 DEF GetSession, TypeOK
  <2>2. Bounded'
    BY <1>1 DEF GetSession, Bounded, TypeOK
  <2>3. FreshUnused'
    BY <1>1 DEF GetSession, FreshUnused, TypeOK
  <2>4. Holding'
    BY <1>1 DEF GetSession, Holding, TypeOK, Busy, Sess, NoSession
  <2>5. Membership'
    BY <1>1 DEF GetSession, Membership, TypeOK
  <2>6. InsertOwned'
    BY <1>1 DEF GetSession, InsertOwned, TypeOK
  <2>7. EntryWitnessed'
    BY <1>1 DEF GetSession, EntryWitnessed, TypeOK, Busy
  <2>8. QED
    BY <2>1, <2>2, <2>3, <2>4, <2>5, <2>6, <2>7 DEF IInv
<1>2. ASSUME NEW p \in Peers, NewSession(p) PROVE IInv'
  <2>1. TypeOK'
    <3>1. created + 1 \in Sess /\ created' \in 0 .. MaxSessions
      BY <1>2 DEF NewSession, TypeOK, Sess
    <3>2. sidOf' \in [Sess -> Ids]
      BY <1>2 DEF NewSession, TypeOK
    <3>3. cur' \in [Peers -> Sess \cup {NoSession}]
      BY <3>1, <1>2 DEF NewSession, TypeOK
    <3>4. pc' \in [Peers -> PCs]
      BY <1>2 DEF NewSession, TypeOK, PCs
    <3>5. QED
      BY <3>1, <3>2, <3>3, <3>4, <1>2 DEF NewSession, TypeOK
  <2>2. Bounded'
    BY <1>2 DEF NewSession, Bounded, TypeOK
  <2>3. FreshUnused'
    BY <1>2 DEF NewSession, FreshUnused, TypeOK, Sess
  <2>4. Holding'
    BY <1>2 DEF NewSession, Holding, TypeOK, Sess
  <2>5. Membership'
    BY <1>2 DEF NewSession, Membership, TypeOK
  <2>6. InsertOwned'
    BY <1>2 DEF NewSession, InsertOwned, TypeOK, Bounded, FreshUnused, Holding, Busy, Sess
  <2>7. EntryWitnessed'
    <3> SUFFICES ASSUME NEW i \in Ids, sessions[i] # NoSession
                 PROVE  /\ sidOf'[sessions[i]] = i
                        /\ \E q \in Peers : cur'[q] = sessions[i] /\ pc'[q] \in Busy
                        /\ sessions[i] \in closed =>
                             \E q \in Peers : cur'[q] = sessions[i] /\ pc'[q] = "onclose"
      BY <1>2 DEF EntryWitnessed, NewSession
    <3>1. sessions[i] \in 1 .. created
      BY DEF Bounded, NoSession
    <3>2. sidOf'[sessions[i]] = i
      BY <3>1, <1>2 DEF NewSession, EntryWitnessed, TypeOK, Sess
    <3>3. \A q \in Peers : q # p => cur'[q] = cur[q] /\ pc'[q] = pc[q]
      BY <1>2 DEF NewSession, TypeOK
    <3>4. pc[p] \notin Busy /\ pc[p] # "onclose"
      BY <1>2 DEF NewSession, Busy
    <3>5. PICK q \in Peers : cur[q] = sessions[i] /\ pc[q] \in Busy
      BY DEF EntryWitnessed
    <3>6. sessions[i] \in closed =>
            \E r \in Peers : cur[r] = sessions[i] /\ pc[r] = "onclose"
      BY DEF EntryWitnessed
    <3>7. QED
      BY <3>2, <3>3, <3>4, <3>5, <3>6
  <2>8. QED
    BY <2>1, <2>2, <2>3, <2>4, <2>5, <2>6, <2>7 DEF IInv
<1>3. ASSUME NEW p \in Peers, Insert(p) PROVE IInv'
  <2>1. TypeOK'
    BY <1>3 DEF Insert, TypeOK, Bounded, Sess, NoSession, PCs
  <2>2. Bounded'
    BY <1>3 DEF Insert, Bounded, TypeOK, Holding, Busy, Sess
  <2>3. FreshUnused'
    BY <1>3 DEF Insert, FreshUnused, TypeOK
  <2>4. Holding'
    BY <1>3 DEF Insert, Holding, TypeOK, Busy
  <2>5. Membership'
    BY <1>3 DEF Insert, Membership, TypeOK
  <2>6. InsertOwned'
    BY <1>3 DEF Insert, InsertOwned, TypeOK
  <2>7. EntryWitnessed'
    <3> SUFFICES ASSUME NEW i \in Ids, sessions'[i] # NoSession
                 PROVE  /\ sidOf'[sessions'[i]] = i
                        /\ \E q \in Peers : cur'[q] = sessions'[i] /\ pc'[q] \in Busy
                        /\ sessions'[i] \in closed' =>
                             \E q \in Peers : cur'[q] = sessions'[i] /\ pc'[q] = "onclose"
      BY DEF EntryWitnessed
    <3>1. pc'[p] \in Busy /\ cur' = cur /\ sidOf' = sidOf /\ closed' = closed
      BY <1>3 DEF Insert, Busy, TypeOK
    <3>2. CASE i = want[p]
      <4>1. sessions'[i] = cur[p]
        BY <3>2, <1>3 DEF Insert, TypeOK
      <4>2. sidOf[cur[p]] = i /\ cur[p] \notin closed
        BY <3>2, <1>3 DEF InsertOwned, Insert
      <4>3. cur'[p] = sessions'[i] /\ pc'[p] \in Busy
        BY <4>1, <3>1
      <4>4. sessions'[i] \notin closed'
        BY <4>1, <4>2, <3>1
      <4>5. QED
        BY <4>1, <4>2, <4>3, <4>4, <3>1
    <3>3. CASE i # want[p]
      <4>1. sessions'[i] = sessions[i]
        BY <3>3, <1>3 DEF Insert, TypeOK
      <4>2. PICK q \in Peers : cur[q] = sessions[i] /\ pc[q] \in Busy
        BY <4>1 DEF EntryWitnessed
      <4>3. pc'[q] \in Busy
        BY <4>2, <3>1, <1>3 DEF Insert, TypeOK
      <4>4. sessions[i] \in closed =>
              \E r \in Peers : cur[r] = sessions[i] /\ pc[r] = "onclose"
        BY <4>1 DEF EntryWitnessed
      <4>5. \A r \in Peers : pc[r] = "onclose" => pc'[r] = "onclose"
        BY <1>3 DEF Insert, TypeOK
      <4>6. QED
        BY <4>1, <4>2, <4>3, <4>4, <4>5, <3>1 DEF EntryWitnessed
    <3>4. QED
      BY <3>2, <3>3
  <2>8. QED
    BY <2>1, <2>2, <2>3, <2>4, <2>5, <2>6, <2>7 DEF IInv
<1>4. ASSUME NEW p \in Peers, Inc(p) PROVE IInv'
  <2>1. TypeOK'
    BY <1>4 DEF Inc, TypeOK, Bounded, Sess, NoSession, PCs
  <2>2. Bounded'
    BY <1>4 DEF Inc, Bounded, TypeOK
  <2>3. FreshUnused'
    BY <1>4 DEF Inc, FreshUnused, TypeOK
  <2>4. Holding'
    BY <1>4 DEF Inc, Holding, TypeOK, Busy
  <2>5. Membership'
    BY <1>4 DEF Inc, Membership, TypeOK
  <2>6. InsertOwned'
    BY <1>4 DEF Inc, InsertOwned, TypeOK
  <2>7. EntryWitnessed'
    BY <1>4 DEF Inc, EntryWitnessed, TypeOK, Busy
  <2>8. QED
    BY <2>1, <2>2, <2>3, <2>4, <2>5, <2>6, <2>7 DEF IInv
<1>5. ASSUME NEW p \in Peers, Join(p) PROVE IInv'
  <2>1. TypeOK'
    BY <1>5 DEF Join, TypeOK, Bounded, Sess, NoSession, PCs
  <2>2. Bounded'
    BY <1>5 DEF Join, Bounded, TypeOK
  <2>3. FreshUnused'
    BY <1>5 DEF Join, FreshUnused, TypeOK, Holding, Bounded, Busy, Sess
  <2>4. Holding'
    BY <1>5 DEF Join, Holding, TypeOK, Busy
  <2>5. Membership'
    BY <1>5 DEF Join, Membership, TypeOK, Holding, Busy
  <2>6. InsertOwned'
    BY <1>5 DEF Join, InsertOwned, TypeOK
  <2>7. EntryWitnessed'
    BY <1>5 DEF Join, EntryWitnessed, TypeOK, Busy
  <2>8. QED
    BY <2>1, <2>2, <2>3, <2>4, <2>5, <2>6, <2>7 DEF IInv
<1>6. ASSUME NEW p \in Peers, Leave(p) PROVE IInv'
  <2>1. TypeOK'
    BY <1>6 DEF Leave, TypeOK, Bounded, Sess, NoSession, PCs
  <2>2. Bounded'
    BY <1>6 DEF Leave, Bounded, TypeOK
  <2>3. FreshUnused'
    BY <1>6 DEF Leave, FreshUnused, TypeOK, Holding, Busy
  <2>4. Holding'
    BY <1>6 DEF Leave, Holding, TypeOK, Busy
  <2>5. Membership'
    BY <1>6 DEF Leave, Membership, TypeOK, Holding, Busy
  <2>6. InsertOwned'
    BY <1>6 DEF Leave, InsertOwned, TypeOK
  <2>7. EntryWitnessed'
    <3>1. sessions' = sessions /\ cur' = cur /\ sidOf' = sidOf /\ closed' = closed
      BY <1>6 DEF Leave
    <3>2. \A r \in Peers \ {p} : pc'[r] = pc[r]
      BY <1>6 DEF Leave, TypeOK
    <3> SUFFICES ASSUME NEW i \in Ids, sessions[i] # NoSession
                 PROVE  /\ sidOf[sessions[i]] = i
                        /\ \E q \in Peers : cur[q] = sessions[i] /\ pc'[q] \in Busy
                        /\ sessions[i] \in closed =>
                             \E q \in Peers : cur[q] = sessions[i] /\ pc'[q] = "onclose"
      BY <3>1 DEF EntryWitnessed
    \* When the leaving peer was the entry's witness and goes back to idle,
    \* another member of the session takes its place.
    <3>3. \E q \in Peers : cur[q] = sessions[i] /\ pc'[q] \in Busy
      <4>1. PICK q \in Peers : cur[q] = sessions[i] /\ pc[q] \in Busy
        BY DEF EntryWitnessed
      <4>2. CASE q # p
        BY <4>1, <4>2, <3>2
      <4>3. CASE q = p /\ pc'[p] = "close"
        BY <4>1, <4>3 DEF Busy
      <4>4. CASE q = p /\ pc'[p] # "close"
        <5>1. members'[cur[p]] # {}
          BY <4>4, <1>6 DEF Leave, TypeOK
        <5>2. cur[p] \in Sess
          BY <1>6 DEF Leave, Holding, Busy
        <5>3. PICK r \in members'[cur[p]] : TRUE
          BY <5>1
        <5>4. r \in Peers /\ r # p /\ r \in members[cur[p]]
          BY <5>2, <5>3, <1>6 DEF Leave, TypeOK
        <5>5. pc[r] = "joined" /\ cur[r] = cur[p]
          BY <5>2, <5>4 DEF Membership
        <5>6. QED
          BY <5>4, <5>5, <3>2, <4>1, <4>4 DEF Busy
      <4>5. QED
        BY <4>2, <4>3, <4>4
    <3>4. sessions[i] \in closed =>
            \E q \in Peers : cur[q] = sessions[i] /\ pc'[q] = "onclose"
      BY <3>2, <1>6 DEF EntryWitnessed, Leave
    <3>5. QED
      BY <3>3, <3>4 DEF EntryWitnessed
  <2>8. QED
    BY <2>1, <2>2, <2>3, <2>4, <2>5, <2>6, <2>7 DEF IInv
<1>7. ASSUME NEW p \in Peers, Close(p) PROVE IInv'
  <2>1. TypeOK'
    <3>1. cur[p] \in Sess
      BY <1>7 DEF Close, Holding, Busy
    <3>2. closed' \subseteq Sess
      BY <3>1, <1>7 DEF Close, TypeOK
    <3>3. pc' \in [Peers -> PCs]
      BY <1>7 DEF Close, TypeOK, PCs
    <3>4. QED
      BY <3>2, <3>3, <1>7 DEF Close, TypeOK
  <2>2. Bounded'
    BY <1>7 DEF Close, Bounded, TypeOK
  <2>3. FreshUnused'
    BY <1>7 DEF Close, FreshUnused, TypeOK, Holding, Bounded, Busy, Sess
  <2>4. Holding'
    BY <1>7 DEF Close, Holding, TypeOK, Busy
  <2>5. Membership'
    BY <1>7 DEF Close, Membership, TypeOK
  <2>6. InsertOwned'
    BY <1>7 DEF Close, InsertOwned, TypeOK
  <2>7. EntryWitnessed'
    <3>1. sessions' = sessions /\ cur' = cur /\ sidOf' = sidOf /\ closed' = closed \cup {cur[p]}
      BY <1>7 DEF Close
    <3>2. \A r \in Peers \ {p} : pc'[r] = pc[r]
      BY <1>7 DEF Close, TypeOK
    <3>3. pc'[p] = IF cur[p] \in closed THEN "idle" ELSE "onclose"
      BY <1>7 DEF Close, TypeOK
    <3>4. pc[p] = "close"
      BY <1>7 DEF Close
    <3> SUFFICES ASSUME NEW i \in Ids, sessions[i] # NoSession
                 PROVE  /\ sidOf[sessions[i]] = i
                        /\ \E q \in Peers : cur[q] = sessions[i] /\ pc'[q] \in Busy
                        /\ sessions[i] \in closed' =>
                             \E q \in Peers : cur[q] = sessions[i] /\ pc'[q] = "onclose"
      BY <3>1 DEF EntryWitnessed
    \* A second Close of an entry's session finds the peer whose Close won
    \* still about to run the OnClose delete; it is the witness.
    <3>5. \E q \in Peers : cur[q] = sessions[i] /\ pc'[q] \in Busy
      <4>1. PICK q \in Peers : cur[q] = sessions[i] /\ pc[q] \in Busy
        BY DEF EntryWitnessed
      <4>2. CASE q # p
        BY <4>1, <4>2, <3>2
      <4>3. CASE q = p /\ cur[p] \notin closed
        BY <4>1, <4>3, <3>3 DEF Busy
      <4>4. CASE q = p /\ cur[p] \in closed
        <5>1. PICK r \in Peers : cur[r] = sessions[i] /\ pc[r] = "onclose"
          BY <4>1, <4>4 DEF EntryWitnessed
        <5>2. r # p
          BY <5>1, <3>4
        <5>3. QED
          BY <5>1, <5>2, <3>2 DEF Busy
      <4>5. QED
        BY <4>2, <4>3, <4>4
    <3>6. sessions[i] \in closed' =>
            \E q \in Peers : cur[q] = sessions[i] /\ pc'[q] = "onclose"
      <4>1. CASE sessions[i] \in closed
        <5>1. PICK r \in Peers : cur[r] = sessions[i] /\ pc[r] = "onclose"
          BY <4>1 DEF EntryWitnessed
        <5>2. QED
          BY <5>1, <3>4, <3>2
      <4>2. CASE sessions[i] \notin closed
        BY <4>2, <3>1, <3>3
      <4>3. QED
        BY <4>1, <4>2
    <3>7. QED
      BY <3>5, <3>6 DEF EntryWitnessed
  <2>8. QED
    BY <2>1, <2>2, <2>3, <2>4, <2>5, <2>6, <2>7 DEF IInv
<1>8. ASSUME NEW p \in Peers, OnClose(p) PROVE IInv'
  <2>1. TypeOK'
    BY <1>8 DEF OnClose, TypeOK, Bounded, Sess, NoSession, PCs
  <2>2. Bounded'
    BY <1>8 DEF OnClose, Bounded, TypeOK, NoSession
  <2>3. FreshUnused'
    BY <1>8 DEF OnClose, FreshUnused, TypeOK
  <2>4. Holding'
    BY <1>8 DEF OnClose, Holding, TypeOK, Busy
  <2>5. Membership'
    BY <1>8 DEF OnClose, Membership, TypeOK
  <2>6. InsertOwned'
    <3>1. \A q \in Peers : pc'[q] = "insert" => q # p /\ pc[q] = "insert"
      BY <1>8 DEF OnClose, TypeOK
    <3>2. \A i \in Ids : sessions'[i] \in {sessions[i], NoSession}
      BY <1>8 DEF OnClose, TypeOK
    <3>3. \A q \in Peers : pc[q] = "insert" => cur[q] # NoSession
      BY DEF Holding, Busy, Sess, NoSession
    <3>4. QED
      BY <3>1, <3>2, <3>3, <1>8 DEF OnClose, InsertOwned
  <2>7. EntryWitnessed'
    <3> SUFFICES ASSUME NEW i \in Ids, sessions'[i] # NoSession
                 PROVE  /\ sidOf[sessions[i]] = i
                        /\ \E q \in Peers : cur[q] = sessions[i] /\ pc'[q] \in Busy
                        /\ sessions[i] \in closed =>
                             \E q \in Peers : cur[q] = sessions[i] /\ pc'[q] = "onclose"
      <4>1. \A j \in Ids : sessions'[j] # NoSession => sessions'[j] = sessions[j]
        BY <1>8 DEF OnClose, TypeOK
      <4>2. QED
        BY <4>1, <1>8 DEF OnClose, EntryWitnessed
    \* The entry is not the one the callback deletes, so the peer running
    \* it does not hold that session and is not its witness.
    <3>1. i # sidOf[cur[p]] /\ sessions'[i] = sessions[i]
      BY <1>8 DEF OnClose, TypeOK
    <3>2. sidOf[sessions[i]] = i
      BY <3>1 DEF EntryWitnessed
    <3>3. cur[p] # sessions[i]
      BY <3>1, <3>2
    <3>4. \A q \in Peers : cur[q] = sessions[i] => q # p /\ pc'[q] = pc[q]
      BY <3>3, <1>8 DEF OnClose, TypeOK
    <3>5. QED
      BY <3>1, <3>2, <3>4 DEF EntryWitnessed
  <2>8. QED
    BY <2>1, <2>2, <2>3, <2>4, <2>5, <2>6, <2>7 DEF IInv
<1>9. ASSUME NEW p \in Peers, Dec(p) PROVE IInv'
  <2>1. TypeOK'
    BY <1>9 DEF Dec, TypeOK, Bounded, Sess, NoSession, PCs
  <2>2. Bounded'
    BY <1>9 DEF Dec, Bounded, TypeOK
  <2>3. FreshUnused'
    BY <1>9 DEF Dec, FreshUnused, TypeOK
  <2>4. Holding'
    BY <1>9 DEF Dec, Holding, TypeOK, Busy
  <2>5. Membership'
    BY <1>9 DEF Dec, Membership, TypeOK
  <2>6. InsertOwned'
    BY <1>9 DEF Dec, InsertOwned, TypeOK
  <2>7. EntryWitnessed'
    BY <1>9 DEF Dec, EntryWitnessed, TypeOK, Busy
  <2>8. QED
    BY <2>1, <2>2, <2>3, <2>4, <2>5, <2>6, <2>7 DEF IInv
<1>10. CASE UNCHANGED vars
  BY <1>10 DEF vars, IInv, TypeOK, Bounded, FreshUnused, Holding, Membership,
     InsertOwned, EntryWitnessed
<1>11. QED
  BY <1>1, <1>2, <1>3, <1>4, <1>5, <1>6, <1>7, <1>8, <1>9, <1>10 DEF Next, Internal

\* The registry holds no session while no peer goroutine is inside
\* GetSession, a session or its close path (RegistryEmptyWhenIdle), for
\* every set of peers and ids and every bound.
THEOREM RegistryEmptyWhenIdleHolds == Spec => []RegistryEmptyWhenIdle
<1>1. IInv => RegistryEmptyWhenIdle
  BY DEF IInv, EntryWitnessed, RegistryEmptyWhenIdle, Busy, NoSession
<1>2. QED
  BY <1>1, InitIInv, NextIInv, PTL DEF Spec

\* getSession returns a closed session only while the peer whose Close set
\* its flag is about to run the OnClose delete of its id
\* (StaleSessionPendingDelete), for every set of peers and ids and every
\* bound: EntryWitnessed carries that peer along.
THEOREM StaleSessionPendingDeleteHolds == Spec => []StaleSessionPendingDelete
<1>1. IInv => StaleSessionPendingDelete
  <2> SUFFICES ASSUME IInv, NEW i \in Ids, sessions[i] \in closed
               PROVE  \E q \in Peers : cur[q] = sessions[i] /\ pc[q] = "onclose"
    BY DEF StaleSessionPendingDelete
  <2>1. sessions[i] # NoSession
    BY SessionsAssumption DEF IInv, TypeOK, Sess, NoSession
  <2>2. QED
    BY <2>1 DEF IInv, EntryWitnessed
<1>2. QED
  BY <1>1, InitIInv, NextIInv, PTL DEF Spec

\* Every variable keeps its type (TypeOK) in every state the registry, the
\* peers' calls and the close path can reach.
THEOREM SessionsTypeCorrect == Spec => []TypeOK
<1>1. IInv => TypeOK
  BY DEF IInv
<1>2. QED
  BY <1>1, InitIInv, NextIInv, PTL DEF Spec

(***************************************************************************)
(* The registry implements SessionMap.                                     *)
(***************************************************************************)

\* A peer about to run the OnClose delete holds a session Close has
\* closed: the delete is the late one SessionMap calls ADrop.
OnCloseClosed == \A p \in Peers : pc[p] = "onclose" => cur[p] \in closed

LEMMA InitOnCloseClosed == Init => OnCloseClosed
  BY DEF Init, OnCloseClosed

\* Only Close sends a peer to the delete, and only after closing its
\* session; no step reopens a session or touches another peer's position.
LEMMA NextOnCloseClosed == IInv /\ OnCloseClosed /\ [Next]_vars => OnCloseClosed'
<1> SUFFICES ASSUME IInv, OnCloseClosed, [Next]_vars PROVE OnCloseClosed'
  OBVIOUS
<1>1. CASE UNCHANGED vars
  BY <1>1 DEF vars, OnCloseClosed
<1>2. ASSUME NEW p \in Peers,
             (\E id \in Ids : GetSession(p, id)) \/ Internal(p) \/ Leave(p)
      PROVE  OnCloseClosed'
  <2>1. /\ closed \subseteq closed'
        /\ \A q \in Peers \ {p} : pc'[q] = pc[q] /\ cur'[q] = cur[q]
    BY <1>2 DEF GetSession, Internal, NewSession, Insert, Inc, Join, Leave,
       Close, OnClose, Dec, IInv, TypeOK
  <2>2. pc'[p] = "onclose" => cur'[p] \in closed'
    <3>1. CASE Close(p)
      BY <3>1 DEF Close, IInv, TypeOK
    <3>2. CASE ~Close(p)
      <4>1. pc'[p] # "onclose"
        BY <1>2, <3>2 DEF GetSession, Internal, NewSession, Insert, Inc, Join,
           Leave, OnClose, Dec, IInv, TypeOK
      <4>2. QED
        BY <4>1
    <3>3. QED
      BY <3>1, <3>2
  <2>3. QED
    BY <2>1, <2>2 DEF OnCloseClosed
<1>3. QED
  BY <1>1, <1>2 DEF Next

\* The initial registry is SessionMap's initial map.
LEMMA InitRefines == Init => Abs!AInit
  BY DEF Init, Abs!AInit, AbsMap, Abs!NoSession, Abs!Sess, NoSession, Sess

\* NewSession is SessionMap's ANew for the id the peer asked for.
LEMMA NewSessionRefines ==
  ASSUME IInv, NEW p \in Peers, NewSession(p)
  PROVE  [Abs!ANext]_Abs!avars
<1>1. Abs!ANew(want[p])
  BY DEF NewSession, Abs!ANew, AbsMap
<1>2. want[p] \in Ids
  BY DEF IInv, TypeOK
<1>3. QED
  BY <1>1, <1>2 DEF Abs!ANext

\* The insert publishes the fresh session the peer holds, which no entry
\* holds and which is open, under the id its OnClose captured.
LEMMA InsertRefines ==
  ASSUME IInv, NEW p \in Peers, Insert(p)
  PROVE  [Abs!ANext]_Abs!avars
<1> DEFINE n == cur[p]
<1>1. /\ pc[p] = "insert"
      /\ sessions' = [sessions EXCEPT ![want[p]] = n]
      /\ UNCHANGED <<created, sidOf, closed>>
  BY DEF Insert
<1>2. /\ n \in Sess /\ n \in 1 .. created
      /\ sidOf[n] = want[p] /\ n \notin closed
      /\ \A i \in Ids : sessions[i] # n
  <2>1. n \in Sess
    BY <1>1 DEF IInv, Holding, Busy
  <2>2. n \in 1 .. created
    BY <2>1 DEF IInv, Bounded, Sess
  <2>3. QED
    BY <1>1, <2>1, <2>2 DEF IInv, InsertOwned
<1>3. \A i \in Ids : AbsMap[i] # n
  BY <1>2 DEF AbsMap, Sess, NoSession
<1>4. AbsMap' = [AbsMap EXCEPT ![want[p]] = n]
  BY <1>1, <1>2 DEF AbsMap, IInv, TypeOK
<1>5. Abs!AInsert(n)
  BY <1>1, <1>2, <1>3, <1>4 DEF Abs!AInsert
<1>6. n \in Abs!Sess
  BY <1>2 DEF Sess, Abs!Sess
<1>7. QED
  BY <1>5, <1>6 DEF Abs!ANext

\* Close of a session not yet closed is SessionMap's atomic AClose; a
\* second Close of the same session changes nothing SessionMap sees.
LEMMA CloseRefines ==
  ASSUME IInv, NEW p \in Peers, Close(p)
  PROVE  [Abs!ANext]_Abs!avars
<1> DEFINE n == cur[p]
<1>1. /\ pc[p] = "close" /\ closed' = closed \cup {n}
      /\ UNCHANGED <<sessions, created, sidOf>>
  BY DEF Close
<1>2. n \in Sess /\ n \in 1 .. created
  BY <1>1 DEF IInv, Holding, Bounded, Busy, Sess
<1>3. CASE n \in closed
  BY <1>1, <1>3 DEF Abs!avars, AbsMap
<1>4. CASE n \notin closed
  <2>1. AbsMap' = [i \in Ids |-> IF AbsMap[i] = n THEN Abs!NoSession ELSE AbsMap[i]]
    <3> SUFFICES ASSUME NEW i \in Ids
                 PROVE  AbsMap'[i] = IF AbsMap[i] = n THEN Abs!NoSession ELSE AbsMap[i]
      BY DEF AbsMap
    <3>1. n # NoSession
      BY <1>2 DEF Sess, NoSession
    <3>2. QED
      BY <1>1, <1>4, <3>1 DEF AbsMap, NoSession, Abs!NoSession
  <2>2. Abs!AClose(n)
    BY <1>1, <1>2, <1>4, <2>1 DEF Abs!AClose
  <2>3. n \in Abs!Sess
    BY <1>2 DEF Sess, Abs!Sess
  <2>4. QED
    BY <2>2, <2>3 DEF Abs!ANext
<1>5. QED
  BY <1>3, <1>4

\* The OnClose delete is SessionMap's ADrop of the closed session the peer
\* holds: it empties the entry of the id that session was made for.
LEMMA OnCloseRefines ==
  ASSUME IInv, OnCloseClosed, NEW p \in Peers, OnClose(p)
  PROVE  [Abs!ANext]_Abs!avars
<1> DEFINE n == cur[p]
           k == sidOf[n]
<1>1. /\ pc[p] = "onclose"
      /\ sessions' = [sessions EXCEPT ![k] = NoSession]
      /\ UNCHANGED <<created, sidOf, closed>>
  BY DEF OnClose
<1>2. n \in closed /\ n \in Sess /\ k \in Ids
  BY <1>1 DEF OnCloseClosed, IInv, Holding, Busy, TypeOK
<1>3. AbsMap' = [AbsMap EXCEPT ![k] = Abs!NoSession]
  BY <1>1, <1>2 DEF AbsMap, NoSession, Abs!NoSession, IInv, TypeOK
<1>4. Abs!ADrop(n)
  BY <1>1, <1>2, <1>3 DEF Abs!ADrop
<1>5. n \in Abs!Sess
  BY <1>2 DEF Sess, Abs!Sess
<1>6. QED
  BY <1>4, <1>5 DEF Abs!ANext

\* Every step of the registry and its peers is a step of SessionMap or
\* leaves what SessionMap sees unchanged.
LEMMA NextRefines == IInv /\ OnCloseClosed /\ [Next]_vars => [Abs!ANext]_Abs!avars
<1> SUFFICES ASSUME IInv, OnCloseClosed, [Next]_vars PROVE [Abs!ANext]_Abs!avars
  OBVIOUS
<1>1. CASE UNCHANGED vars
  BY <1>1 DEF vars, Abs!avars, AbsMap
<1>2. ASSUME NEW p \in Peers,
             \/ \E id \in Ids : GetSession(p, id)
             \/ Inc(p) \/ Join(p) \/ Leave(p) \/ Dec(p)
      PROVE  [Abs!ANext]_Abs!avars
  BY <1>2 DEF GetSession, Inc, Join, Leave, Dec, Abs!avars, AbsMap
<1>3. QED
  BY <1>1, <1>2, NewSessionRefines, InsertRefines, CloseRefines, OnCloseRefines
  DEF Next, Internal

\* The registry, with Close and its OnClose delete in two steps of a peer
\* goroutine and GetSession's lookup and insert in two critical sections,
\* implements SessionMap (ImplementsSessionMap), for every set of peers and
\* ids and every bound.
THEOREM SessionMapRefinement == Spec => ImplementsSessionMap
<1>1. Spec => [](IInv /\ OnCloseClosed)
  <2>1. Init => IInv /\ OnCloseClosed
    BY InitIInv, InitOnCloseClosed
  <2>2. IInv /\ OnCloseClosed /\ [Next]_vars => (IInv /\ OnCloseClosed)'
    BY NextIInv, NextOnCloseClosed
  <2>3. QED
    BY <2>1, <2>2, PTL DEF Spec
<1>2. QED
  BY <1>1, InitRefines, NextRefines, PTL DEF Spec, ImplementsSessionMap, Abs!ASpec

=============================================================================
