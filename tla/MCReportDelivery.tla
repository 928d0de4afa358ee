---------------------------- MODULE MCReportDelivery ----------------------------
(* Small instances of ReportDelivery for TLC. *)
EXTENDS ReportDelivery, TLC

Symmetry == Permutations(Request) \cup Permutations(Ticket)
==================================================================================
