--------------------------- MODULE MCSfuSessions ---------------------------
(***************************************************************************)
(* TLC instance of SfuSessions.  Peers and ids are model values.          *)
(* MaxSessions is |Peers| * Rounds, so that NewSession never runs out:    *)
(* every GetSession call may create a session.                             *)
(***************************************************************************)
EXTENDS SfuSessions

=============================================================================
