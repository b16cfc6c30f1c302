----------------------------- MODULE SessionMap -----------------------------
(***************************************************************************)
(* What the SFU's session registry (pkg/sfu/relay.go: GetSession,         *)
(* newSession and its OnClose callback) promises to the peers that call   *)
(* GetSession, with a session's Close and its OnClose delete taken as one  *)
(* step:                                                                   *)
(*   - a session is made for one id, and is published under that id only  *)
(*     while it is open and published nowhere else;                       *)
(*   - publishing replaces whatever the entry held, so two sessions may   *)
(*     be handed out for one id, one after the other;                     *)
(*   - Close closes a session and no entry hands it out any more;         *)
(*   - the only other way an entry goes is the late OnClose delete of a   *)
(*     closed session made for that id.                                   *)
(* Module SfuSessions, where Close and the delete are separate steps of a  *)
(* peer goroutine, implements this one.                                    *)
(***************************************************************************)
EXTENDS Naturals

CONSTANTS
  Ids,          \* session ids
  MaxSessions   \* sessions that may be made

Sess == 1 .. MaxSessions
NoSession == 0

VARIABLES
  amap,      \* the entries GetSession may return: id -> open session
  aclosed,   \* closed sessions
  acreated,  \* sessions made so far
  asidOf     \* the id each session was made for

avars == <<amap, aclosed, acreated, asidOf>>

AInit ==
  /\ amap = [i \in Ids |-> NoSession]
  /\ aclosed = {}
  /\ acreated = 0
  /\ asidOf = [n \in Sess |-> CHOOSE i \in Ids : TRUE]

\* NewSession: a session for id i, not yet published.
ANew(i) ==
  /\ acreated < MaxSessions
  /\ acreated' = acreated + 1
  /\ asidOf' = [asidOf EXCEPT ![acreated + 1] = i]
  /\ UNCHANGED <<amap, aclosed>>

\* The insert of GetSession: an open session no entry holds is published
\* under its id, replacing what the entry held.
AInsert(n) ==
  /\ n \in 1 .. acreated
  /\ n \notin aclosed
  /\ \A i \in Ids : amap[i] # n
  /\ amap' = [amap EXCEPT ![asidOf[n]] = n]
  /\ UNCHANGED <<aclosed, acreated, asidOf>>

\* Close of an open session: it is closed and no entry hands it out.
AClose(n) ==
  /\ n \in 1 .. acreated
  /\ n \notin aclosed
  /\ aclosed' = aclosed \cup {n}
  /\ amap' = [i \in Ids |-> IF amap[i] = n THEN NoSession ELSE amap[i]]
  /\ UNCHANGED <<acreated, asidOf>>

\* The late OnClose delete of the closed session n empties the entry of
\* the id n was made for.
ADrop(n) ==
  /\ n \in aclosed
  /\ amap' = [amap EXCEPT ![asidOf[n]] = NoSession]
  /\ UNCHANGED <<aclosed, acreated, asidOf>>

ANext ==
  \/ \E i \in Ids : ANew(i)
  \/ \E n \in Sess : AInsert(n) \/ AClose(n) \/ ADrop(n)

ASpec == AInit /\ [][ANext]_avars
=============================================================================
