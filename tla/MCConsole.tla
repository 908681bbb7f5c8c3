-------------------------------- MODULE MCConsole --------------------------------
(****************************************************************************)
(* A finite instance of Console: three mailboxes of two Apple accounts, two *)
(* of them in the drawer, and two of everything else a user chooses from.   *)
(****************************************************************************)
EXTENDS Console

CONSTANTS m1, m2, m3, a1, a2

Mailboxes == {m1, m2, m3}
FirstTwo == {m1, m2}
OwningAccount == [m \in Mailboxes |-> IF m = m3 THEN a2 ELSE a1]
Recipient == [m \in Mailboxes |-> IF m = m3 THEN "two" ELSE "one"]
=============================================================================
