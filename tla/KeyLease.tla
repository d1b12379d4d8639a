------------------------------ MODULE KeyLease ------------------------------
(***************************************************************************)
(* What the crawls of a process promise each other about the details they  *)
(* list: a detail is lent to one holder at a time.  A holder gives it back *)
(* settled, and then it is never lent again, or as it got it.              *)
(***************************************************************************)
CONSTANTS
  Holders,  \* who may hold a detail
  Urls,     \* the details
  Free      \* a holder without a detail

VARIABLES
  item,     \* what each holder holds
  settled   \* the details with an answer for good

vars == <<item, settled>>

Init == item = [h \in Holders |-> Free] /\ settled = {}

Held == {item[h] : h \in Holders} \ {Free}

Lend(h, u) ==
  /\ item[h] = Free /\ u \notin settled \cup Held
  /\ item' = [item EXCEPT ![h] = u]
  /\ UNCHANGED settled

GiveBack(h) ==
  /\ item[h] # Free
  /\ item' = [item EXCEPT ![h] = Free]
  /\ settled' \in {settled, settled \cup {item[h]}}

Next == \E h \in Holders : GiveBack(h) \/ \E u \in Urls : Lend(h, u)

Spec == Init /\ [][Next]_vars
=============================================================================
