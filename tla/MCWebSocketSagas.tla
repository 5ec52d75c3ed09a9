-------------------------- MODULE MCWebSocketSagas --------------------------
(* An instance of WebSocketSagas for TLC: a pool whose creation is followed  *)
(* by setting the pool of a machine (createPoolWithMachines in               *)
(* ui/src/app/base/sagas/actions.ts); the list of machines may fail.         *)
EXTENDS WebSocketSagasRefinement

CONSTANTS pool, machine

MCModel == {pool, machine}
MCMayFail == {machine}
MCFollowUps == [m \in MCModel |-> IF m = pool THEN <<machine>> ELSE <<>>]
=============================================================================
