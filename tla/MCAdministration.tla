-------------------------- MODULE MCAdministration --------------------------
(***************************************************************************)
(* A small instance of Administration: two registrations, which claim the   *)
(* same email or not, and two commands of the users they make.  Whoever     *)
(* comes first is the super admin, so the commands of r1 are those of a     *)
(* super admin, of a promoted one, or of a mere user.                       *)
(***************************************************************************)
EXTENDS Administration, TLC

CONSTANTS r1, r2, a1, a2, a3, sysUSD, sysEUR, none

MCRegistrant == {r1, r2}
MCRequest == {r1, r2, a1, a2, a3}
MCNewAccount == [r \in MCRegistrant |-> [c \in {"USD", "EUR"} |-> <<r, c>>]]
MCAccount == (MCRegistrant \X {"USD", "EUR"}) \cup {<<sysUSD>>, <<sysEUR>>}
MCSystemAccount == [USD |-> <<sysUSD>>, EUR |-> <<sysEUR>>]
MCOpeningAmount == [USD |-> 2, EUR |-> 1]
MCSystemBalance == [USD |-> 5, EUR |-> 3]

\* The migrations seed the system accounts without an entry.
MCSeed == [a \in MCAccount |-> IF a = <<sysUSD>> THEN 5 ELSE IF a = <<sysEUR>> THEN 3 ELSE 0]

MCForm == { [username |-> "ann", email |-> "a@x"],
            [username |-> "bob", email |-> "a@x"],
            [username |-> "bob", email |-> "b@x"],
            [username |-> "bob", email |-> "malformed"] }

Promote(actor, by, name) ==
  [op |-> "promote", actor |-> actor, by |-> by, name |-> name,
   target |-> none, role |-> "none"]

Grant(actor, target) ==
  [op |-> "grant", actor |-> actor, by |-> "username", name |-> "none",
   target |-> target, role |-> "CanViewUsers"]

MCCommand == { Promote(r1, "username", "bob"), Promote(r2, "email", "a@x"),
               Grant(r1, r2), Grant(r2, r2) }

Symmetry == Permutations({a1, a2, a3})

=============================================================================
