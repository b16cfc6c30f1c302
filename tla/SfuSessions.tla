---------------------------- MODULE SfuSessions ----------------------------
(***************************************************************************)
(* The session registry of the SFU (pkg/sfu/relay.go): the map s.sessions *)
(* under the SFU's RWMutex, GetSession's lazy creation (getSession under   *)
(* RLock, then newSession, which inserts under Lock), and the OnClose      *)
(* callback newSession installs, which deletes s.sessions[id] under Lock   *)
(* and decrements the sessions gauge.                                      *)
(*                                                                         *)
(* Each peer is a goroutine that calls GetSession(id), joins the session   *)
(* it got (Session.AddPeer) and later leaves it (Session.RemovePeer, which *)
(* closes the session when its last peer left).  SessionLocal is not      *)
(* under src/: AddPeer, RemovePeer and Close are modelled from spec        *)
(* section 3 ("created lazily on first join, destroyed when peer count    *)
(* reaches zero") and the session.go lines the docs quote.                 *)
(*                                                                         *)
(* Every critical section of one lock is one step; the steps of a call    *)
(* that run under different locks, or under none, are separate steps.     *)
(***************************************************************************)
EXTENDS Integers

CONSTANTS
  Peers,        \* the peer goroutines
  Ids,          \* session ids the peers ask for
  MaxSessions,  \* SessionLocal objects NewSession may create
  Rounds,       \* GetSession calls each peer makes
  WithStats     \* s.withStats

ASSUME SessionsAssumption ==
  /\ Ids # {}
  /\ MaxSessions \in Nat /\ Rounds \in Nat /\ WithStats \in BOOLEAN

\* A session object is its creation index; 0 is the nil Session.
Sess == 1 .. MaxSessions
NoSession == 0

\* Where a peer goroutine is in its calls.
PCs == {"idle", "create", "insert", "inc", "join", "joined",
        "close", "onclose", "dec"}

VARIABLES
  sessions,   \* s.sessions: id -> session, NoSession where absent
  created,    \* SessionLocal objects NewSession has made
  sidOf,      \* the id each session was made for (the id its OnClose captured)
  members,    \* SessionLocal.peers
  closed,     \* the sessions whose closed flag is set
  gauge,      \* stats.Sessions
  pc,         \* each peer's position
  want,       \* the sid of the peer's GetSession call
  cur,        \* the Session the peer's call holds (p.session after Join)
  rounds      \* GetSession calls made by each peer

vars == <<sessions, created, sidOf, members, closed, gauge, pc, want, cur, rounds>>

Init ==
  /\ sessions = [i \in Ids |-> NoSession]
  /\ created = 0
  /\ sidOf = [n \in Sess |-> CHOOSE i \in Ids : TRUE]
  /\ members = [n \in Sess |-> {}]
  /\ closed = {}
  /\ gauge = 0
  /\ pc = [p \in Peers |-> "idle"]
  /\ want = [p \in Peers |-> CHOOSE i \in Ids : TRUE]
  /\ cur = [p \in Peers |-> NoSession]
  /\ rounds = [p \in Peers |-> 0]

(***************************************************************************)
(* GetSession and newSession.                                              *)
(***************************************************************************)

\* GetSession(sid): getSession reads s.sessions[sid] under RLock; on nil
\* the call goes on to newSession, otherwise it returns the session.
GetSession(p, id) ==
  /\ pc[p] = "idle"
  /\ rounds[p] < Rounds
  /\ rounds' = [rounds EXCEPT ![p] = @ + 1]
  /\ want' = [want EXCEPT ![p] = id]
  /\ cur' = [cur EXCEPT ![p] = sessions[id]]
  /\ pc' = [pc EXCEPT ![p] = IF sessions[id] = NoSession THEN "create" ELSE "join"]
  /\ UNCHANGED <<sessions, created, sidOf, members, closed, gauge>>

\* NewSession(id, ...) and session.OnClose(...): a fresh session whose
\* close callback deletes s.sessions[id].
NewSession(p) ==
  /\ pc[p] = "create"
  /\ created < MaxSessions
  /\ created' = created + 1
  /\ sidOf' = [sidOf EXCEPT ![created + 1] = want[p]]
  /\ cur' = [cur EXCEPT ![p] = created + 1]
  /\ pc' = [pc EXCEPT ![p] = "insert"]
  /\ UNCHANGED <<sessions, members, closed, gauge, want, rounds>>

\* s.Lock(); s.sessions[id] = session; s.Unlock()
Insert(p) ==
  /\ pc[p] = "insert"
  /\ sessions' = [sessions EXCEPT ![want[p]] = cur[p]]
  /\ pc' = [pc EXCEPT ![p] = IF WithStats THEN "inc" ELSE "join"]
  /\ UNCHANGED <<created, sidOf, members, closed, gauge, want, cur, rounds>>

\* if s.withStats { stats.Sessions.Inc() }; return session
Inc(p) ==
  /\ pc[p] = "inc"
  /\ gauge' = gauge + 1
  /\ pc' = [pc EXCEPT ![p] = "join"]
  /\ UNCHANGED <<sessions, created, sidOf, members, closed, want, cur, rounds>>

(***************************************************************************)
(* The session (session.go, from the spec).                               *)
(***************************************************************************)

\* Session.AddPeer: s.peers[p.ID()] = p, whatever the session's state.
Join(p) ==
  /\ pc[p] = "join"
  /\ members' = [members EXCEPT ![cur[p]] = @ \cup {p}]
  /\ pc' = [pc EXCEPT ![p] = "joined"]
  /\ UNCHANGED <<sessions, created, sidOf, closed, gauge, want, cur, rounds>>

\* Session.RemovePeer: delete the peer and count the rest under the
\* session's lock; with none left, go on to Close.
Leave(p) ==
  /\ pc[p] = "joined"
  /\ members' = [members EXCEPT ![cur[p]] = @ \ {p}]
  /\ pc' = [pc EXCEPT ![p] = IF members'[cur[p]] = {} THEN "close" ELSE "idle"]
  /\ UNCHANGED <<sessions, created, sidOf, closed, gauge, want, cur, rounds>>

\* Mutant of Close: the result of closed.set(true) read the wrong way round.
CloseInverted(p) ==
  /\ pc[p] = "close"
  /\ closed' = closed \cup {cur[p]}
  /\ pc' = [pc EXCEPT ![p] = IF cur[p] \notin closed THEN "idle" ELSE "onclose"]
  /\ UNCHANGED <<sessions, created, sidOf, members, gauge, want, cur, rounds>>

\* Mutant of Close: closed.set(true) is lost, the handler runs with the
\* session still open.
CloseNoFlag(p) ==
  /\ pc[p] = "close"
  /\ pc' = [pc EXCEPT ![p] = IF cur[p] \in closed THEN "idle" ELSE "onclose"]
  /\ UNCHANGED <<sessions, created, sidOf, members, closed, gauge, want, cur, rounds>>

\* Mutant of Close: the result of closed.set(true) is ignored and the
\* handler runs on every Close.
CloseUnchecked(p) ==
  /\ pc[p] = "close"
  /\ closed' = closed \cup {cur[p]}
  /\ pc' = [pc EXCEPT ![p] = "onclose"]
  /\ UNCHANGED <<sessions, created, sidOf, members, gauge, want, cur, rounds>>

\* Session.Close: if !s.closed.set(true) { return }, then the OnClose
\* handler.
Close(p) ==
  /\ pc[p] = "close"
  /\ closed' = closed \cup {cur[p]}
  /\ pc' = [pc EXCEPT ![p] = IF cur[p] \in closed THEN "idle" ELSE "onclose"]
  /\ UNCHANGED <<sessions, created, sidOf, members, gauge, want, cur, rounds>>

(***************************************************************************)
(* The OnClose callback of newSession.                                     *)
(***************************************************************************)

\* Mutant of OnClose: the handler forgets the delete.
OnCloseKeep(p) ==
  /\ pc[p] = "onclose"
  /\ pc' = [pc EXCEPT ![p] = IF WithStats THEN "dec" ELSE "idle"]
  /\ UNCHANGED <<sessions, created, sidOf, members, closed, gauge, want, cur, rounds>>

\* s.Lock(); delete(s.sessions, id); s.Unlock(): id is the one the
\* callback captured, and whatever session the map holds for it goes.
OnClose(p) ==
  /\ pc[p] = "onclose"
  /\ sessions' = [sessions EXCEPT ![sidOf[cur[p]]] = NoSession]
  /\ pc' = [pc EXCEPT ![p] = IF WithStats THEN "dec" ELSE "idle"]
  /\ UNCHANGED <<created, sidOf, members, closed, gauge, want, cur, rounds>>

\* if s.withStats { stats.Sessions.Dec() }
Dec(p) ==
  /\ pc[p] = "dec"
  /\ gauge' = gauge - 1
  /\ pc' = [pc EXCEPT ![p] = "idle"]
  /\ UNCHANGED <<sessions, created, sidOf, members, closed, want, cur, rounds>>

\* The steps a peer goroutine takes once it is inside a call: the runtime
\* schedules a runnable goroutine, and no lock here is held for long.
Internal(p) ==
  NewSession(p) \/ Insert(p) \/ Inc(p) \/ Join(p) \/ Close(p) \/ OnClose(p) \/ Dec(p)

Next ==
  \E p \in Peers :
    \/ \E id \in Ids : GetSession(p, id)
    \/ Internal(p)
    \/ Leave(p)

Spec == Init /\ [][Next]_vars

(***************************************************************************)
(* Properties.                                                             *)
(***************************************************************************)

TypeOK ==
  /\ sessions \in [Ids -> Sess \cup {NoSession}]
  /\ created \in 0 .. MaxSessions
  /\ sidOf \in [Sess -> Ids]
  /\ members \in [Sess -> SUBSET Peers]
  /\ closed \subseteq Sess
  /\ gauge \in Int
  /\ pc \in [Peers -> PCs]
  /\ want \in [Peers -> Ids]
  /\ cur \in [Peers -> Sess \cup {NoSession}]
  /\ rounds \in [Peers -> 0 .. Rounds]

\* When no peer is inside a call or a session, the registry holds no
\* session: every session newSession inserted was removed by an OnClose
\* callback, even when two GetSession calls raced and one session replaced
\* the other in s.sessions (relay.go 418-434, 476-481).
RegistryEmptyWhenIdle ==
  (\A p \in Peers : pc[p] = "idle") => \A i \in Ids : sessions[i] = NoSession

\* The sessions gauge is back at zero whenever no peer is inside a call:
\* the Inc of every created session is matched by the one Dec of its
\* OnClose, although the session is visible in the map, and may be joined,
\* closed and deleted, before its creator's Inc runs (relay.go 430-438,
\* 476-481).
GaugeZeroWhenIdle == (\A p \in Peers : pc[p] = "idle") => gauge = 0

\* getSession hands out a closed session only while its OnClose delete is
\* still to run: an entry of s.sessions that holds a closed session is held
\* by the peer whose Close set the flag and which is about to delete the
\* entry (relay.go 421-424, 455-459), whatever the other peers do with the
\* id in between.
StaleSessionPendingDelete ==
  \A i \in Ids : sessions[i] \in closed =>
    \E q \in Peers : cur[q] = sessions[i] /\ pc[q] = "onclose"

\* All peers that joined with the same session id are in the same session
\* (spec section 3: a session is the set of peers identified by one id),
\* whatever the order of concurrent GetSession calls.
OneSessionPerId ==
  \A p, q \in Peers :
    pc[p] = "joined" /\ pc[q] = "joined" /\ want[p] = want[q] => cur[p] = cur[q]

\* No peer is a member of a session that has been closed: a session is
\* destroyed when its peer count reaches zero, and a later lookup of its id
\* creates a fresh one (spec section 3 and scenario S6).
NoJoinClosed ==
  \A p \in Peers : pc[p] = "joined" => cur[p] \notin closed

\* The registry as SessionMap sees it: an entry whose session is closed is
\* as good as deleted, since Close has committed its OnClose to delete it.
AbsMap == [i \in Ids |-> IF sessions[i] \in closed THEN NoSession ELSE sessions[i]]

Abs == INSTANCE SessionMap
         WITH amap <- AbsMap, aclosed <- closed, acreated <- created, asidOf <- sidOf

\* The registry implements SessionMap: GetSession publishes only a fresh,
\* open session under the id its OnClose captured, Close and the OnClose
\* delete act as one atomic close, and an entry of an open session is lost
\* only to the late delete of a closed session made for the same id
\* (relay.go 418-438, 458-481).
ImplementsSessionMap == Abs!ASpec

=============================================================================
