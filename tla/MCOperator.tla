------------------------------ MODULE MCOperator ------------------------------
(* A small instance of Operator for TLC. *)
EXTENDS Operator

CONSTANTS h1, h2, r1, r2, k1, k2

MCTexts ==
  {{"obviousSpam"}, {"reportedAbuse", "activeThreat"}, {"obviousAbuseOnly", "long"}}

MCCall(address, circuit) == [address |-> address, entryPoint |-> circuit]
MCTransactions ==
  {<<>>, <<MCCall("ours", "submitInternal")>>, <<MCCall("other", "submitInternal")>>,
   <<MCCall("ours", "admin")>>, <<MCCall("none", "submitInternal")>>,
   <<MCCall("ours", "submitWhitehat"), MCCall("none", "admin")>>}
=============================================================================
