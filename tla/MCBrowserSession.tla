--------------------------- MODULE MCBrowserSession ---------------------------
(* A small instance of BrowserSession for TLC. *)
EXTENDS BrowserSession, TLC

CONSTANTS c1, c2, f1

MCSymmetry == Permutations({c1, c2})

(* What became of a ticket that neither the form nor a handler names any more
   can change nothing: states that differ only in that are one. *)
Named == {form.live, form.receipt.ticket} \cup {call[c].ticket : c \in Calls}
(* Nor can it change anything that the directory is being loaded while it is
   not on the screen: every way back to it reloads it. *)
Listed ==
  IF page = "report" /\ form.route = "public" THEN directory ELSE directory \ {"loading"}
MCView ==
  <<demo, page, form, busy, Listed, connection, authorization, stored, call, history,
    [t \in 1 .. Len(prepared) |->
       IF t \in Named THEN <<prepared[t], t \in accepted, t \in mailed>> ELSE <<>>]>>
=============================================================================
