----------------------------- MODULE MCRpcClient -----------------------------
(* Instances of RpcClient for TLC. *)
EXTENDS RpcClient, TLC

CONSTANTS a, b, c, d, shared, other, unbuffered

\* a and b share a channel, c has another, d an unbuffered one.
MCChanOf == [x \in Calls |-> IF x = c THEN other ELSE IF x = d THEN unbuffered ELSE shared]

\* Channels hold one call: Call's own channel, or the least Go accepts.
MCCap == [h \in Chans |-> IF h = unbuffered THEN 0 ELSE 1]

\* The calls on the shared channel are interchangeable.
MCSymmetry == Permutations({a, b})
=============================================================================
