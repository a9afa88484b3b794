------------------------- MODULE MCRemoteTransport -------------------------
(* One packet, and renderers left over from lost sessions. *)
EXTENDS RemoteTransport
=============================================================================
