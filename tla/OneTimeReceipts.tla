--------------------------- MODULE OneTimeReceipts ---------------------------
(***************************************************************************)
(* What GhostWhistle promises about submissions, whatever records them: a  *)
(* one-time key (the nullifier of a report proof) is spent at most once,   *)
(* spending it yields exactly one ticket, and a ticket is never taken      *)
(* back.  The Compact contract implements this specification; the demo     *)
(* adapter claims to.                                                      *)
(***************************************************************************)
CONSTANTS Key,     \* the one-time keys
          Ticket   \* the tickets a key can be exchanged for

VARIABLE receipts  \* the set of <<key, ticket>> pairs handed out so far

TypeOK == receipts \subseteq Key \X Ticket

Spent == {p[1] : p \in receipts}

Init == receipts = {}

\* One exchange: an unspent key becomes one ticket.
Accept(key, ticket) ==
  /\ key \notin Spent
  /\ receipts' = receipts \cup {<<key, ticket>>}

Next == \E key \in Key, ticket \in Ticket : Accept(key, ticket)

Spec == Init /\ [][Next]_receipts

------------------------------------------------------------------------------
\* A key buys one ticket: two receipts for the same key are the same receipt.
OneTicketPerKey ==
  \A p, q \in receipts : p[1] = q[1] => p = q
==============================================================================
