-------------------------- MODULE MCRpcSubmission --------------------------
(* A transaction with two identifiers and the default three attempts: a    *)
(* lookup that fails for one identifier and answers for the other, a first, *)
(* a middle and a last attempt, and up to three copies on the way.          *)
EXTENDS RpcSubmission

MCMaxAttempts == 3
MCIdentifiers == 2
=============================================================================
