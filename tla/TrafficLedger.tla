--------------------------- MODULE TrafficLedger ----------------------------
(***************************************************************************)
(* What the traffic accounting promises (README.md of the repository,      *)
(* section on traffic and reload): bytes moved are owed to the panel until *)
(* it acknowledged them; an ambiguous request may bill them again, but     *)
(* never more than what is owed; a debt disappears without a bill only     *)
(* when the user is revoked.                                               *)
(***************************************************************************)
EXTENDS Naturals

CONSTANT Accounts

VARIABLES
  owed,    \* bytes moved and not acknowledged
  billed,  \* bytes the panel counted
  revoked  \* accounts that were revoked at some time

ledger == <<owed, billed, revoked>>

Init ==
  /\ owed = [a \in Accounts |-> 0]
  /\ billed = [a \in Accounts |-> 0]
  /\ revoked = {}

Move(a) ==
  /\ owed' = [owed EXCEPT ![a] = @ + 1]
  /\ UNCHANGED <<billed, revoked>>

(* A batch is billed and acknowledged: debts shrink by what is billed.     *)
Settle ==
  /\ \A a \in Accounts :
       /\ owed'[a] <= owed[a]
       /\ billed'[a] = billed[a] + (owed[a] - owed'[a])
  /\ UNCHANGED revoked

(* A batch is billed and the response lost: the debt stays.                *)
Repeat ==
  /\ \A a \in Accounts : billed'[a] \in billed[a]..(billed[a] + owed[a])
  /\ UNCHANGED <<owed, revoked>>

(* The tail of a revoked user's traffic is written off.                    *)
Forgive(a) ==
  /\ revoked' = revoked \cup {a}
  /\ owed'[a] <= owed[a]
  /\ owed' = [owed EXCEPT ![a] = owed'[a]]
  /\ UNCHANGED billed

Next == (\E a \in Accounts : Move(a) \/ Forgive(a)) \/ Settle \/ Repeat

Spec == Init /\ [][Next]_ledger
=============================================================================
