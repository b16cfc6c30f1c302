---------------------------- MODULE MCRtcpReader ----------------------------
(***************************************************************************)
(* TLC instance of RtcpReader: streams and SSRCs are model values, and    *)
(* MaxReaders = |Streams| * Opens, so that GetOrNew never runs out.        *)
(***************************************************************************)
EXTENDS RtcpReader
=============================================================================
