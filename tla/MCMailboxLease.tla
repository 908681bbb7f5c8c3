------------------------------ MODULE MCMailboxLease ------------------------------
(***************************************************************************)
(* Finite instances of MailboxLease: what the timestamps of the server's   *)
(* time zone look like to SQL.                                             *)
(***************************************************************************)
EXTENDS MailboxLease

\* One offset all year (the deployment's Asia/Shanghai): text order is time.
FixedOffset == [t \in 0 .. MaxDeadline |-> t]

\* The night summer time ends: instant 3 reads 01:00+01:00, two ticks after
\* instant 1 read 01:00+02:00.  In text order: 0, 3, 1, 4, 2, 5, ...
SummerTimeEnds ==
    [t \in 0 .. MaxDeadline |->
        CASE t = 1 -> 2 [] t = 2 -> 4 [] t = 3 -> 1 [] t = 4 -> 3 [] OTHER -> t]

=============================================================================
