------------------------------ MODULE MCRpcSync ------------------------------
(* An instance of RpcSync for TLC. *)
EXTENDS RpcSync

\* gob with both kinds of loop; msgpack with a loop that stops at an error; a
\* pre-body interceptor with loops that stop.  These are the modes that satisfy
\* LeavesNothing.
MCModes == {m \in BOOLEAN \X BOOLEAN \X BOOLEAN : LeavesNothing(m)}
=============================================================================
