----------------------------- MODULE MCRpcServer -----------------------------
(* Instances of RpcServer for TLC. *)
EXTENDS RpcServer

CONSTANTS r1, r2, svcA, m1, m2

\* Two receivers compete for one service name; only one has the method m1.
MCRegName == [r \in Registrars |-> svcA]
MCRegMethods == [r \in Registrars |-> IF r = r1 THEN {m1} ELSE {m2}]

\* A method that exists once r1 is registered, and an ill-formed name.
MCServiceMethods == {<<svcA, m1>>, <<>>}
=============================================================================
