----------------------------- MODULE MCRpcCalls -----------------------------
(* Instance of RpcCalls: three calls, made by as many threads or one after   *)
(* the other, to a station that may answer each of them twice.               *)
EXTENDS RpcCalls
=============================================================================
