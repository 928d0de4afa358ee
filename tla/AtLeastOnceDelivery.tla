------------------------- MODULE AtLeastOnceDelivery -------------------------
(***************************************************************************)
(* What the issuer promises the browser about report delivery: a ticket is *)
(* recorded as delivered only after its report was handed to the official  *)
(* mailbox, the browser is told "delivered" no sooner than that is         *)
(* recorded, and neither is ever taken back.  The mailbox is one of e-mail *)
(* or the inbox directory of the local relay (ReportDelivery has both).    *)
(***************************************************************************)
CONSTANT Tickets

VARIABLES mailed,     \* tickets whose report reached the mailbox
          delivered,  \* tickets recorded as delivered
          told        \* tickets some browser was told are delivered

vars == <<mailed, delivered, told>>

Init == mailed = {} /\ delivered = {} /\ told = {}

Mail(t) ==
  /\ mailed' = mailed \cup {t}
  /\ UNCHANGED <<delivered, told>>

Record(t) ==
  /\ t \in mailed
  /\ delivered' = delivered \cup {t}
  /\ UNCHANGED <<mailed, told>>

Tell(t) ==
  /\ t \in delivered
  /\ told' = told \cup {t}
  /\ UNCHANGED <<mailed, delivered>>

Next == \E t \in Tickets : Mail(t) \/ Record(t) \/ Tell(t)

Spec == Init /\ [][Next]_vars
==============================================================================
