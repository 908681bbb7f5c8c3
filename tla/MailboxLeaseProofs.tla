--------------------------- MODULE MailboxLeaseProofs ---------------------------
(***************************************************************************)
(* For every number of mailboxes, leases and requests, every clock lag and *)
(* every time zone: the tables are well typed and agree, a request_id owns *)
(* at most one lease, outcomes are final, and a used mailbox is reopened,  *)
(* and so bound a second time, only by an administrator.                   *)
(***************************************************************************)
EXTENDS MailboxLease, TLAPS

\* BindingConsistent as a predicate of the two tables and the two counters, so
\* that it can be stated of the tables a sweep is about to write.
Agree(box, tab, nm, nl) ==
    /\ \A m \in Mailbox : box[m].lease # NoLease =>
          /\ box[m].here
          /\ box[m].status = "reserved"
          /\ tab[box[m].lease].state = "claimed"
          /\ tab[box[m].lease].mailbox = m
    /\ \A l \in LeaseId : tab[l].state = "claimed" =>
          /\ tab[l].mailbox \in Mailbox
          /\ box[tab[l].mailbox].lease = l
    /\ \A m \in Mailbox : box[m].status = "reserved" => box[m].lease # NoLease
    /\ \A l \in LeaseId : tab[l].state # "none" =>
          /\ l < nl
          /\ tab[l].mailbox \in Mailbox
          /\ box[tab[l].mailbox].here
    /\ \A m \in Mailbox : box[m].here => m < nm

\* Agree is BindingConsistent with its parameters made explicit.
LEMMA AgreeIsBinding ==
    BindingConsistent <=> Agree(mailbox, lease, nextMailbox, nextLease)
  BY DEF BindingConsistent, Agree, MailboxPointsAtLease, LeasePointsAtMailbox,
         NoLostReservation, LeasesAreIssued, MailboxesAreImported, Held

LEMMA AgreeIsBindingNext ==
    BindingConsistent' <=> Agree(mailbox', lease', nextMailbox', nextLease')
  BY DEF BindingConsistent, Agree, MailboxPointsAtLease, LeasePointsAtMailbox,
         NoLostReservation, LeasesAreIssued, MailboxesAreImported, Held

---------------------------------------------------------------------------
(* Type correctness                                                        *)

LEMMA SweepTypes ==
    ASSUME TypeOK, NEW now
    PROVE  /\ SweptLeases(now) \in [LeaseId -> LeaseRecord]
           /\ SweptMailboxes(now) \in [Mailbox -> MailboxRecord]
  <1>1. ASSUME NEW l \in LeaseId
        PROVE  [lease[l] EXCEPT !.state = "expired"] \in LeaseRecord
    BY <1>1 DEF TypeOK, LeaseRecord, LeaseState
  <1>2. ASSUME NEW m \in Mailbox
        PROVE  [mailbox[m] EXCEPT !.lease = NoLease,
                    !.status = IF @ = "reserved" THEN "available" ELSE @] \in MailboxRecord
    BY <1>2 DEF TypeOK, MailboxRecord, Status
  <1>3. QED
    BY <1>1, <1>2 DEF TypeOK, SweptLeases, SweptMailboxes

\* Rewriting the status, the flag and the lease of a row keeps the table's type,
\* whether or not the row exists.
LEMMA RowTypes ==
    ASSUME TypeOK, NEW m, NEW a \in BOOLEAN, NEW s \in Status,
           NEW k \in LeaseId \cup {NoLease}
    PROVE  /\ [mailbox EXCEPT ![m].status = s] \in [Mailbox -> MailboxRecord]
           /\ [mailbox EXCEPT ![m].status = s, ![m].lease = k] \in [Mailbox -> MailboxRecord]
           /\ [mailbox EXCEPT ![m].active = a, ![m].status = s, ![m].lease = k]
                 \in [Mailbox -> MailboxRecord]
  <1>1. ASSUME NEW n \in Mailbox
        PROVE  /\ [mailbox[n] EXCEPT !.status = s] \in MailboxRecord
               /\ [[mailbox[n] EXCEPT !.status = s] EXCEPT !.lease = k] \in MailboxRecord
               /\ [[[mailbox[n] EXCEPT !.active = a] EXCEPT !.status = s] EXCEPT !.lease = k]
                     \in MailboxRecord
    BY <1>1 DEF TypeOK, MailboxRecord
  <1>2. CASE m \in Mailbox
    BY <1>1, <1>2 DEF TypeOK
  <1>3. CASE m \notin Mailbox
    BY <1>3 DEF TypeOK
  <1>4. QED
    BY <1>2, <1>3

LEMMA TypeInit == Init => TypeOK
  BY ConstantsAssumption
  DEF Init, TypeOK, AbsentMailbox, AbsentLease, MailboxRecord, LeaseRecord,
      LeaseState, Status, Mailbox, LeaseId, NoLease

\* A step that only sweeps.
LEMMA TypeSweep ==
    ASSUME TypeOK, NEW now, Sweep(now),
           UNCHANGED <<clock, nextMailbox, nextLease, recycled>>
    PROVE  TypeOK'
  BY SweepTypes DEF TypeOK, Sweep

LEMMA TypeStep == TypeOK /\ [Next]_vars => TypeOK'
  <1> SUFFICES ASSUME TypeOK, [Next]_vars PROVE TypeOK'
    OBVIOUS
  <1> USE ConstantsAssumption
  <1>1. ASSUME NEW now \in Window, NEW job \in Job \cup {NoJob},
               ClaimRepeated(job, now) \/ ClaimNothing(job, now)
        PROVE  TypeOK'
    BY <1>1, TypeSweep DEF ClaimRepeated, ClaimNothing
  <1>2. ASSUME NEW now \in Window, NEW job \in Job \cup {NoJob}, NEW ttl \in TTL,
               NEW m \in Mailbox, ClaimGrant(job, ttl, now, m)
        PROVE  TypeOK'
    <2>1. nextLease \in LeaseId /\ now \in Nat /\ now + ttl \in Nat /\ m \in Nat
      BY <1>2 DEF ClaimGrant, TypeOK, LeaseId, Window, Mailbox
    <2>2. [state |-> "claimed", mailbox |-> m, job |-> job, created |-> now,
           expires |-> now + ttl] \in LeaseRecord
      BY <2>1 DEF LeaseRecord, LeaseState
    <2>3. lease' \in [LeaseId -> LeaseRecord]
      BY <1>2, <2>1, <2>2, SweepTypes DEF ClaimGrant
    <2>4. mailbox' \in [Mailbox -> MailboxRecord]
      <3> DEFINE swept == SweptMailboxes(now)
      <3>1. swept \in [Mailbox -> MailboxRecord]
        BY SweepTypes
      <3>2. mailbox' = [swept EXCEPT ![m].status = "reserved", ![m].lease = nextLease]
        BY <1>2 DEF ClaimGrant
      <3> HIDE DEF swept
      <3>3. [[swept[m] EXCEPT !.status = "reserved"] EXCEPT !.lease = nextLease]
               \in MailboxRecord
        BY <1>2, <2>1, <3>1 DEF MailboxRecord, Status
      <3>4. QED
        BY <3>1, <3>2, <3>3
    <2>5. QED
      BY <1>2, <2>1, <2>3, <2>4 DEF ClaimGrant, TypeOK, LeaseId
  <1>3. ASSUME NEW now \in Window, NEW l \in LeaseId, Commit(l, now)
        PROVE  TypeOK'
    <2>1. mailbox' \in [Mailbox -> MailboxRecord]
      BY <1>3, RowTypes DEF Commit, Status
    <2>2. QED
      BY <1>3, <2>1 DEF Commit, TypeOK, LeaseRecord, LeaseState
  <1>4. ASSUME NEW now \in Window, NEW l \in LeaseId, Release(l, now)
        PROVE  TypeOK'
    <2>1. mailbox' \in [Mailbox -> MailboxRecord]
      BY <1>4, RowTypes DEF Release, Status
    <2>2. QED
      BY <1>4, <2>1 DEF Release, TypeOK, LeaseRecord, LeaseState
  <1>5. ASSUME NEW now \in Window, NEW l \in LeaseId, TooLate(l, now)
        PROVE  TypeOK'
    BY <1>5, TypeSweep DEF TooLate
  <1>6. ASSUME NEW now \in Window, NEW l \in LeaseId, NEW ttl \in TTL, Renew(l, ttl, now)
        PROVE  TypeOK'
    <2>1. now + ttl \in Nat
      BY DEF Window, TypeOK
    <2>2. QED
      BY <1>6, <2>1 DEF Renew, TypeOK, LeaseRecord
  <1>7. ASSUME NEW l \in LeaseId, Reconcile(l)
        PROVE  TypeOK'
    <2>1. mailbox' \in [Mailbox -> MailboxRecord]
      BY <1>7, RowTypes DEF Reconcile, Status
    <2>2. QED
      BY <1>7, <2>1 DEF Reconcile, TypeOK
  <1>8. ASSUME NEW m \in Mailbox, NEW active \in BOOLEAN, RefreshMailbox(m, active)
        PROVE  TypeOK'
    BY <1>8 DEF RefreshMailbox, TypeOK, MailboxRecord
  <1>9. ASSUME NEW m \in Mailbox, NEW active \in BOOLEAN, NEW s \in Status \cup {""},
                SetMailboxStatus(m, active, s)
         PROVE  TypeOK'
    <2> DEFINE row == mailbox[m]
               status == IF s = "" THEN row.status ELSE s
               ends == row.lease # NoLease /\ s \notin {"", "reserved"}
               kept == IF ends THEN NoLease ELSE row.lease
               outcome == IF s = "used" THEN "committed" ELSE "released"
    <2>1. mailbox' \in [Mailbox -> MailboxRecord]
      <3>1. status \in Status /\ kept \in LeaseId \cup {NoLease}
        BY DEF TypeOK, MailboxRecord
      <3>2. mailbox' = [mailbox EXCEPT ![m].active = active, ![m].status = status,
                                       ![m].lease = kept]
        BY <1>9 DEF SetMailboxStatus, TypeOK, MailboxRecord
      <3> HIDE DEF status, kept
      <3>3. QED
        BY <1>9, <3>1, <3>2, RowTypes
    <2>2. lease' \in [LeaseId -> LeaseRecord]
      <3>1. \A l \in LeaseId : [lease[l] EXCEPT !.state = outcome] \in LeaseRecord
        BY DEF TypeOK, LeaseRecord, LeaseState
      <3>2. lease' \in {lease, [lease EXCEPT ![row.lease].state = outcome]}
        BY <1>9 DEF SetMailboxStatus
      <3>3. [lease EXCEPT ![row.lease].state = outcome] \in [LeaseId -> LeaseRecord]
        <4>1. CASE row.lease \in LeaseId
          BY <3>1, <4>1 DEF TypeOK
        <4>2. CASE row.lease \notin LeaseId
          BY <4>2 DEF TypeOK
        <4>3. QED
          BY <4>1, <4>2
      <3>4. QED
        BY <3>2, <3>3 DEF TypeOK
    <2>3. QED
      BY <1>9, <2>1, <2>2 DEF SetMailboxStatus, TypeOK
  <1>10. ASSUME NEW active \in BOOLEAN, ImportMailbox(active)
         PROVE  TypeOK'
    BY <1>10 DEF ImportMailbox, TypeOK, MailboxRecord, Status, Mailbox
  <1>11. ASSUME NEW S \in SUBSET Mailbox, DeleteMailboxes(S)
         PROVE  TypeOK'
    BY <1>11 DEF DeleteMailboxes, TypeOK, AbsentMailbox, AbsentLease, MailboxRecord,
                 LeaseRecord, Status, LeaseState
  <1>12. CASE Reap
    BY <1>12, TypeSweep DEF Reap
  <1>13. CASE Tick
    BY <1>13 DEF Tick, TypeOK
  <1>14. CASE UNCHANGED vars
    BY <1>14 DEF vars, TypeOK
  <1>15. QED
    BY <1>1, <1>2, <1>3, <1>4, <1>5, <1>6, <1>7, <1>8, <1>9, <1>10, <1>11,
       <1>12, <1>13, <1>14
    DEF Next, ClientStep, AdminStep

\* The tables and counters stay within their types whatever is requested.
THEOREM TypeCorrect == Spec => []TypeOK
  BY TypeInit, TypeStep, PTL DEF Spec

---------------------------------------------------------------------------
(* The two tables agree                                                     *)

\* The tables a sweep writes agree whenever the tables it read did.
LEMMA SweepAgrees ==
    ASSUME TypeOK, BindingConsistent, NEW now
    PROVE  Agree(SweptMailboxes(now), SweptLeases(now), nextMailbox, nextLease)
  <1> DEFINE box == SweptMailboxes(now)
             tab == SweptLeases(now)
  <1>1. Agree(mailbox, lease, nextMailbox, nextLease)
    BY AgreeIsBinding
  <1>2. \A l \in LeaseId :
           /\ tab[l].mailbox = lease[l].mailbox
           /\ tab[l].state = IF l \in Expirable(now) THEN "expired" ELSE lease[l].state
    BY DEF SweptLeases, TypeOK, LeaseRecord
  <1>3. \A m \in Mailbox :
           /\ box[m].here = mailbox[m].here
           /\ box[m].lease = IF Freed(m, now) THEN NoLease ELSE mailbox[m].lease
           /\ box[m].status = IF Freed(m, now) /\ mailbox[m].status = "reserved"
                              THEN "available" ELSE mailbox[m].status
    BY DEF SweptMailboxes, TypeOK, MailboxRecord
  <1>4. \A m \in Mailbox : mailbox[m].lease \in LeaseId \cup {NoLease}
    BY DEF TypeOK, MailboxRecord
  <1>5. \A m \in Mailbox : mailbox[m].lease # NoLease =>
           (Freed(m, now) <=> mailbox[m].lease \in Expirable(now))
    BY <1>1, <1>4 DEF Freed, Agree, Expirable
  <1>6. \A l \in Expirable(now) : lease[l].state = "claimed" /\ l \in LeaseId
    BY DEF Expirable, Held
  <1> HIDE DEF box, tab
  <1>7. \A m \in Mailbox : box[m].lease # NoLease =>
           /\ box[m].here
           /\ box[m].status = "reserved"
           /\ tab[box[m].lease].state = "claimed"
           /\ tab[box[m].lease].mailbox = m
    BY <1>1, <1>2, <1>3, <1>4, <1>5 DEF Agree
  <1>8. \A l \in LeaseId : tab[l].state = "claimed" =>
           /\ tab[l].mailbox \in Mailbox
           /\ box[tab[l].mailbox].lease = l
    <2> SUFFICES ASSUME NEW l \in LeaseId, tab[l].state = "claimed"
                 PROVE  /\ lease[l].mailbox \in Mailbox
                        /\ box[lease[l].mailbox].lease = l
      BY <1>2
    <2>1. l \notin Expirable(now) /\ lease[l].state = "claimed"
      BY <1>2
    <2>2. lease[l].mailbox \in Mailbox /\ mailbox[lease[l].mailbox].lease = l
      BY <1>1, <2>1 DEF Agree
    <2>3. ~Freed(lease[l].mailbox, now)
      BY <2>1, <2>2 DEF Freed
    <2>4. QED
      BY <1>3, <2>2, <2>3
  <1>9. \A m \in Mailbox : box[m].status = "reserved" => box[m].lease # NoLease
    BY <1>1, <1>3 DEF Agree
  <1>10. \A l \in LeaseId : tab[l].state # "none" =>
            /\ l < nextLease
            /\ tab[l].mailbox \in Mailbox
            /\ box[tab[l].mailbox].here
    BY <1>1, <1>2, <1>3, <1>6 DEF Agree
  <1>11. \A m \in Mailbox : box[m].here => m < nextMailbox
    BY <1>1, <1>3 DEF Agree
  <1>12. QED
    BY <1>7, <1>8, <1>9, <1>10, <1>11 DEF Agree, box, tab

\* Granting a free mailbox of agreeing tables to a lease id never used before.
LEMMA GrantAgrees ==
    ASSUME NEW box \in [Mailbox -> MailboxRecord], NEW tab \in [LeaseId -> LeaseRecord],
           NEW nm \in Nat, NEW nl \in LeaseId, NEW m \in Mailbox,
           NEW row \in LeaseRecord,
           Agree(box, tab, nm, nl), Claimable(box, m),
           row.state = "claimed", row.mailbox = m
    PROVE  Agree([box EXCEPT ![m].status = "reserved", ![m].lease = nl],
                 [tab EXCEPT ![nl] = row], nm, nl + 1)
  <1> DEFINE box2 == [box EXCEPT ![m].status = "reserved", ![m].lease = nl]
             tab2 == [tab EXCEPT ![nl] = row]
  <1>1. \A n \in Mailbox :
           /\ box2[n].here = box[n].here
           /\ box2[n].status = IF n = m THEN "reserved" ELSE box[n].status
           /\ box2[n].lease = IF n = m THEN nl ELSE box[n].lease
    BY DEF MailboxRecord
  <1>2. \A l \in LeaseId : tab2[l] = IF l = nl THEN row ELSE tab[l]
    OBVIOUS
  <1>3. /\ box[m].here
        /\ box[m].lease = NoLease
    BY DEF Claimable
  <1>4. \A n \in Mailbox : box[n].lease \in LeaseId \cup {NoLease}
    BY DEF MailboxRecord
  <1>5. tab[nl].state = "none" /\ nl # NoLease /\ nl \in Nat
    BY ConstantsAssumption DEF Agree, LeaseId, NoLease
  <1>6. \A l \in LeaseId : l \in Nat
    BY DEF LeaseId
  <1> HIDE DEF box2, tab2
  <1>7. \A n \in Mailbox : box2[n].lease # NoLease =>
           /\ box2[n].here
           /\ box2[n].status = "reserved"
           /\ tab2[box2[n].lease].state = "claimed"
           /\ tab2[box2[n].lease].mailbox = n
    <2> SUFFICES ASSUME NEW n \in Mailbox, box2[n].lease # NoLease
                 PROVE  /\ box2[n].here
                        /\ box2[n].status = "reserved"
                        /\ tab2[box2[n].lease].state = "claimed"
                        /\ tab2[box2[n].lease].mailbox = n
      OBVIOUS
    <2>1. CASE n = m
      BY <1>1, <1>2, <1>3, <2>1
    <2>2. CASE n # m
      <3>1. /\ box[n].lease \in LeaseId
            /\ tab[box[n].lease].state = "claimed"
        BY <1>1, <1>4, <2>2 DEF Agree
      <3>2. tab2[box[n].lease] = tab[box[n].lease]
        BY <1>2, <1>5, <3>1
      <3>3. QED
        BY <1>1, <2>2, <3>1, <3>2 DEF Agree
    <2>3. QED
      BY <2>1, <2>2
  <1>8. \A l \in LeaseId : tab2[l].state = "claimed" =>
           /\ tab2[l].mailbox \in Mailbox
           /\ box2[tab2[l].mailbox].lease = l
    <2> SUFFICES ASSUME NEW l \in LeaseId, tab2[l].state = "claimed"
                 PROVE  /\ tab2[l].mailbox \in Mailbox
                        /\ box2[tab2[l].mailbox].lease = l
      OBVIOUS
    <2>1. CASE l = nl
      BY <1>1, <1>2, <2>1
    <2>2. CASE l # nl
      <3>1. /\ tab2[l] = tab[l]
            /\ tab[l].mailbox \in Mailbox
            /\ box[tab[l].mailbox].lease = l
        BY <1>2, <2>2 DEF Agree
      <3>2. l # NoLease
        BY <1>6 DEF LeaseId, NoLease
      <3>3. QED
        BY <1>1, <1>3, <3>1, <3>2
    <2>3. QED
      BY <2>1, <2>2
  <1>9. \A n \in Mailbox : box2[n].status = "reserved" => box2[n].lease # NoLease
    BY <1>1, <1>5 DEF Agree
  <1>10. \A l \in LeaseId : tab2[l].state # "none" =>
            /\ l < nl + 1
            /\ tab2[l].mailbox \in Mailbox
            /\ box2[tab2[l].mailbox].here
    BY <1>1, <1>2, <1>3, <1>5, <1>6 DEF Agree
  <1>11. \A n \in Mailbox : box2[n].here => n < nm
    BY <1>1 DEF Agree
  <1>12. QED
    BY <1>7, <1>8, <1>9, <1>10, <1>11 DEF Agree, box2, tab2

\* Giving a held mailbox back, or marking it used, ends its lease with it.
LEMMA EndAgrees ==
    ASSUME TypeOK, BindingConsistent, NEW l \in LeaseId, Held(l),
           NEW s \in Status \ {"reserved"},
           NEW outcome \in Terminal,
           NEW box \in [Mailbox -> MailboxRecord], NEW tab \in [LeaseId -> LeaseRecord],
           tab = [lease EXCEPT ![l].state = outcome],
           \A n \in Mailbox : n # lease[l].mailbox => box[n] = mailbox[n],
           box[lease[l].mailbox].here,
           box[lease[l].mailbox].status = s,
           box[lease[l].mailbox].lease = NoLease
    PROVE  Agree(box, tab, nextMailbox, nextLease)
  <1> DEFINE m == lease[l].mailbox
  <1>1. Agree(mailbox, lease, nextMailbox, nextLease)
    BY AgreeIsBinding
  <1>2. m \in Mailbox /\ mailbox[m].lease = l /\ mailbox[m].here
    BY <1>1 DEF Agree, Held
  <1>3. \A k \in LeaseId :
           /\ tab[k].mailbox = lease[k].mailbox
           /\ tab[k].state = IF k = l THEN outcome ELSE lease[k].state
    BY DEF TypeOK, LeaseRecord
  <1>4. \A n \in Mailbox : mailbox[n].lease \in LeaseId \cup {NoLease}
    BY DEF TypeOK, MailboxRecord
  <1>5. outcome # "claimed" /\ lease[l].state = "claimed"
    BY DEF Terminal, Held
  <1>6. \A n \in Mailbox : box[n].lease # NoLease =>
           /\ box[n].here
           /\ box[n].status = "reserved"
           /\ tab[box[n].lease].state = "claimed"
           /\ tab[box[n].lease].mailbox = n
    BY <1>1, <1>2, <1>3, <1>4 DEF Agree
  <1>7. \A k \in LeaseId : tab[k].state = "claimed" =>
           /\ tab[k].mailbox \in Mailbox
           /\ box[tab[k].mailbox].lease = k
    BY <1>1, <1>2, <1>3, <1>5 DEF Agree
  <1>8. \A n \in Mailbox : box[n].status = "reserved" => box[n].lease # NoLease
    BY <1>1, <1>2 DEF Agree
  <1>9. \A k \in LeaseId : tab[k].state # "none" =>
           /\ k < nextLease
           /\ tab[k].mailbox \in Mailbox
           /\ box[tab[k].mailbox].here
    BY <1>1, <1>2, <1>3, <1>5 DEF Agree
  <1>10. \A n \in Mailbox : box[n].here => n < nextMailbox
    BY <1>1, <1>2 DEF Agree
  <1>11. QED
    BY <1>6, <1>7, <1>8, <1>9, <1>10 DEF Agree

LEMMA BindingInit == Init => BindingConsistent
  BY DEF Init, BindingConsistent, MailboxPointsAtLease, LeasePointsAtMailbox,
         NoLostReservation, LeasesAreIssued, MailboxesAreImported, Held,
         AbsentMailbox, AbsentLease

\* A step that only sweeps.
LEMMA BindingSweep ==
    ASSUME TypeOK, BindingConsistent, NEW now, Sweep(now),
           UNCHANGED <<nextMailbox, nextLease>>
    PROVE  BindingConsistent'
  BY SweepAgrees, AgreeIsBindingNext DEF Sweep

LEMMA BindingStep ==
    TypeOK /\ TypeOK' /\ BindingConsistent /\ [Next]_vars => BindingConsistent'
  <1> SUFFICES ASSUME TypeOK, TypeOK', BindingConsistent, [Next]_vars
               PROVE  BindingConsistent'
    OBVIOUS
  <1>0. Agree(mailbox, lease, nextMailbox, nextLease)
    BY AgreeIsBinding
  <1>1. ASSUME NEW now \in Window, NEW job \in Job \cup {NoJob},
               ClaimRepeated(job, now) \/ ClaimNothing(job, now)
        PROVE  BindingConsistent'
    BY <1>1, BindingSweep DEF ClaimRepeated, ClaimNothing
  <1>2. ASSUME NEW now \in Window, NEW job \in Job \cup {NoJob}, NEW ttl \in TTL,
               NEW m \in Mailbox, ClaimGrant(job, ttl, now, m)
        PROVE  BindingConsistent'
    <2> DEFINE box == SweptMailboxes(now)
               tab == SweptLeases(now)
               row == [state |-> "claimed", mailbox |-> m, job |-> job,
                       created |-> now, expires |-> now + ttl]
    <2>1. nextLease \in LeaseId /\ nextMailbox \in Nat
      BY <1>2, ConstantsAssumption DEF ClaimGrant, TypeOK, LeaseId
    <2>2. row \in LeaseRecord
      BY ConstantsAssumption DEF LeaseRecord, LeaseState, Window, Mailbox, TypeOK
    <2>3. /\ box \in [Mailbox -> MailboxRecord]
          /\ tab \in [LeaseId -> LeaseRecord]
          /\ Agree(box, tab, nextMailbox, nextLease)
      BY SweepTypes, SweepAgrees
    <2>4. Claimable(box, m)
      BY <1>2 DEF ClaimGrant, OldestClaimable
    <2>5. /\ mailbox' = [box EXCEPT ![m].status = "reserved", ![m].lease = nextLease]
          /\ lease' = [tab EXCEPT ![nextLease] = row]
          /\ nextMailbox' = nextMailbox
          /\ nextLease' = nextLease + 1
      BY <1>2 DEF ClaimGrant
    <2>6. row.state = "claimed" /\ row.mailbox = m
      OBVIOUS
    <2> HIDE DEF box, tab, row
    <2>7. Agree(mailbox', lease', nextMailbox', nextLease')
      BY <2>1, <2>2, <2>3, <2>4, <2>5, <2>6, GrantAgrees
    <2>8. QED
      BY <2>7, AgreeIsBindingNext
  <1>3. ASSUME NEW now \in Window, NEW l \in LeaseId, Commit(l, now) \/ Release(l, now)
        PROVE  BindingConsistent'
    <2> DEFINE m == lease[l].mailbox
               s == mailbox'[m].status
               outcome == lease'[l].state
    <2>1. Held(l) /\ m \in Mailbox /\ mailbox[m].here
      BY <1>0, <1>3 DEF Commit, Release, Agree, Held, Bound
    <2>2. /\ \A n \in Mailbox : n # m => mailbox'[n] = mailbox[n]
          /\ mailbox'[m].here
          /\ s \in {"used", "available"}
          /\ mailbox'[m].lease = NoLease
      BY <1>3, <2>1 DEF Commit, Release, TypeOK, MailboxRecord
    <2>3. /\ outcome \in Terminal
          /\ lease' = [lease EXCEPT ![l].state = outcome]
      BY <1>3 DEF Commit, Release, Terminal, TypeOK, LeaseRecord
    <2>4. /\ mailbox' \in [Mailbox -> MailboxRecord]
          /\ lease' \in [LeaseId -> LeaseRecord]
          /\ s \in Status \ {"reserved"}
          /\ UNCHANGED <<nextMailbox, nextLease>>
      BY <1>3, <2>2 DEF Commit, Release, TypeOK, Status
    <2> HIDE DEF outcome
    <2>5. Agree(mailbox', lease', nextMailbox, nextLease)
      BY <2>1, <2>2, <2>3, <2>4, EndAgrees
    <2>6. QED
      BY <2>4, <2>5, AgreeIsBindingNext
  <1>4. ASSUME NEW now \in Window, NEW l \in LeaseId, TooLate(l, now)
        PROVE  BindingConsistent'
    BY <1>4, BindingSweep DEF TooLate
  <1>5. ASSUME NEW now \in Window, NEW l \in LeaseId, NEW ttl \in TTL, Renew(l, ttl, now)
        PROVE  BindingConsistent'
    <2>1. \A k \in LeaseId :
             lease'[k].state = lease[k].state /\ lease'[k].mailbox = lease[k].mailbox
      BY <1>5 DEF Renew, TypeOK, LeaseRecord
    <2>2. \A n \in Mailbox : mailbox[n].lease \in LeaseId \cup {NoLease}
      BY DEF TypeOK, MailboxRecord
    <2>3. Agree(mailbox, lease', nextMailbox, nextLease)
      BY <1>0, <2>1, <2>2 DEF Agree
    <2>4. QED
      BY <1>5, <2>3, AgreeIsBindingNext DEF Renew
  <1>6. ASSUME NEW l \in LeaseId, Reconcile(l)
        PROVE  BindingConsistent'
    <2>1. \A n \in Mailbox :
             /\ mailbox'[n].here = mailbox[n].here
             /\ mailbox'[n].lease = mailbox[n].lease
             /\ \/ mailbox'[n].status = mailbox[n].status
                \/ mailbox'[n].status = "used" /\ mailbox[n].lease = NoLease
      BY <1>6 DEF Reconcile, TypeOK, MailboxRecord
    <2>2. Agree(mailbox', lease, nextMailbox, nextLease)
      BY <1>0, <2>1 DEF Agree
    <2>3. QED
      BY <1>6, <2>2, AgreeIsBindingNext DEF Reconcile
  <1>7. ASSUME NEW m \in Mailbox, NEW active \in BOOLEAN, RefreshMailbox(m, active)
        PROVE  BindingConsistent'
    <2>1. \A n \in Mailbox :
             /\ mailbox'[n].here = mailbox[n].here
             /\ mailbox'[n].lease = mailbox[n].lease
             /\ mailbox'[n].status = mailbox[n].status
      BY <1>7 DEF RefreshMailbox, TypeOK, MailboxRecord
    <2>2. Agree(mailbox', lease, nextMailbox, nextLease)
      BY <1>0, <2>1 DEF Agree
    <2>3. QED
      BY <1>7, <2>2, AgreeIsBindingNext DEF RefreshMailbox
  <1>8. ASSUME NEW m \in Mailbox, NEW active \in BOOLEAN, NEW s \in Status \cup {""},
               SetMailboxStatus(m, active, s)
        PROVE  BindingConsistent'
    <2>1. /\ mailbox[m].here
          /\ UNCHANGED <<nextMailbox, nextLease>>
          /\ mailbox[m].lease \in LeaseId \cup {NoLease}
      BY <1>8 DEF SetMailboxStatus, TypeOK, MailboxRecord
    <2>2. CASE mailbox[m].lease # NoLease /\ s \notin {"", "reserved"}
      <3> DEFINE l == mailbox[m].lease
                 outcome == IF s = "used" THEN "committed" ELSE "released"
      <3>1. l \in LeaseId /\ Held(l) /\ lease[l].mailbox = m
        BY <1>0, <2>1, <2>2 DEF Agree, Held
      <3>2. /\ \A n \in Mailbox : n # m => mailbox'[n] = mailbox[n]
            /\ mailbox'[m].here
            /\ mailbox'[m].status = s
            /\ mailbox'[m].lease = NoLease
        BY <1>8, <2>1, <2>2 DEF SetMailboxStatus, TypeOK, MailboxRecord
      <3>3. lease' = [lease EXCEPT ![l].state = outcome] /\ outcome \in Terminal
        BY <1>8, <2>2, <3>1 DEF SetMailboxStatus, Terminal
      <3>4. /\ mailbox' \in [Mailbox -> MailboxRecord]
            /\ lease' \in [LeaseId -> LeaseRecord]
            /\ s \in Status \ {"reserved"}
        BY <2>2 DEF TypeOK
      <3> HIDE DEF l, outcome
      <3>5. Agree(mailbox', lease', nextMailbox, nextLease)
        BY <3>1, <3>2, <3>3, <3>4, EndAgrees
      <3>6. QED
        BY <2>1, <3>5, AgreeIsBindingNext
    <2>3. CASE ~(mailbox[m].lease # NoLease /\ s \notin {"", "reserved"})
      <3>1. lease' = lease
        BY <1>8, <2>3 DEF SetMailboxStatus
      <3>2. \A n \in Mailbox :
               /\ mailbox'[n].here = mailbox[n].here
               /\ mailbox'[n].lease = mailbox[n].lease
        BY <1>8, <2>3 DEF SetMailboxStatus, TypeOK, MailboxRecord
      <3>3. \A n \in Mailbox : mailbox'[n].status =
               IF n = m /\ s # "" THEN s ELSE mailbox[n].status
        BY <1>8, <2>3 DEF SetMailboxStatus, TypeOK, MailboxRecord
      <3>4. s # "" => (s = "reserved" <=> mailbox[m].lease # NoLease)
        BY <1>8, <2>3 DEF SetMailboxStatus
      <3>5. \A n \in Mailbox : mailbox[n].status = "reserved" <=> mailbox[n].lease # NoLease
        BY <1>0 DEF Agree
      <3>6. ASSUME NEW n \in Mailbox
            PROVE  mailbox'[n].status = "reserved" <=> mailbox[n].lease # NoLease
        <4>1. CASE n = m /\ s # ""
          BY <3>3, <3>4, <4>1
        <4>2. CASE ~(n = m /\ s # "")
          BY <3>3, <3>5, <4>2
        <4>3. QED
          BY <4>1, <4>2
      <3>7. Agree(mailbox', lease, nextMailbox, nextLease)
        <4>1. \A n \in Mailbox : mailbox'[n].lease # NoLease =>
                 /\ mailbox'[n].here
                 /\ mailbox'[n].status = "reserved"
                 /\ lease[mailbox'[n].lease].state = "claimed"
                 /\ lease[mailbox'[n].lease].mailbox = n
          <5> SUFFICES ASSUME NEW n \in Mailbox, mailbox'[n].lease # NoLease
                       PROVE  /\ mailbox'[n].here
                              /\ mailbox'[n].status = "reserved"
                              /\ lease[mailbox'[n].lease].state = "claimed"
                              /\ lease[mailbox'[n].lease].mailbox = n
            OBVIOUS
          <5>1. mailbox[n].lease = mailbox'[n].lease /\ mailbox[n].here = mailbox'[n].here
            BY <3>2
          <5>2. mailbox'[n].status = "reserved"
            BY <3>6, <5>1
          <5>3. /\ mailbox[n].here
                /\ lease[mailbox[n].lease].state = "claimed"
                /\ lease[mailbox[n].lease].mailbox = n
            BY <1>0, <5>1 DEF Agree
          <5>4. QED
            BY <5>1, <5>2, <5>3
        <4>2. \A n \in Mailbox : mailbox'[n].status = "reserved" => mailbox'[n].lease # NoLease
          BY <3>2, <3>6
        <4>3. \A n \in Mailbox : mailbox'[n].here => n < nextMailbox
          BY <1>0, <3>2 DEF Agree
        <4>4. \A l \in LeaseId : lease[l].state = "claimed" =>
                 /\ lease[l].mailbox \in Mailbox
                 /\ mailbox'[lease[l].mailbox].lease = l
          BY <1>0, <3>2 DEF Agree
        <4>5. \A l \in LeaseId : lease[l].state # "none" =>
                 /\ l < nextLease
                 /\ lease[l].mailbox \in Mailbox
                 /\ mailbox'[lease[l].mailbox].here
          BY <1>0, <3>2 DEF Agree
        <4>6. QED
          BY <4>1, <4>2, <4>3, <4>4, <4>5 DEF Agree
      <3>8. QED
        BY <2>1, <3>1, <3>7, AgreeIsBindingNext
    <2>4. QED
      BY <2>2, <2>3
  <1>9. ASSUME NEW active \in BOOLEAN, ImportMailbox(active)
         PROVE  BindingConsistent'
    <2>1. /\ nextMailbox \in Mailbox
          /\ nextMailbox' = nextMailbox + 1
          /\ UNCHANGED <<lease, nextLease>>
      BY <1>9, ConstantsAssumption DEF ImportMailbox, TypeOK, Mailbox
    <2>2. \A n \in Mailbox :
             IF n = nextMailbox
             THEN /\ mailbox'[n].here
                  /\ mailbox'[n].lease = NoLease
                  /\ mailbox'[n].status # "reserved"
             ELSE mailbox'[n] = mailbox[n]
      BY <1>9 DEF ImportMailbox, TypeOK
    <2>3. ~mailbox[nextMailbox].here /\ \A n \in Mailbox : n \in Nat
      BY <1>0, <2>1 DEF Agree, Mailbox
    <2>4. Agree(mailbox', lease, nextMailbox + 1, nextLease)
      BY <1>0, <2>1, <2>2, <2>3 DEF Agree
    <2>5. QED
      BY <2>1, <2>4, AgreeIsBindingNext
  <1>10. ASSUME NEW S \in SUBSET Mailbox, DeleteMailboxes(S)
         PROVE  BindingConsistent'
    <2>1. \A n \in Mailbox :
             IF n \in S
             THEN /\ ~mailbox'[n].here
                  /\ mailbox'[n].lease = NoLease
                  /\ mailbox'[n].status # "reserved"
             ELSE mailbox'[n] = mailbox[n]
      BY <1>10 DEF DeleteMailboxes, AbsentMailbox
    <2>2. \A k \in LeaseId :
             IF lease[k].state # "none" /\ lease[k].mailbox \in S
             THEN lease'[k].state = "none"
             ELSE lease'[k] = lease[k]
      BY <1>10 DEF DeleteMailboxes, LeasesOf, AbsentLease
    <2>3. \A n \in Mailbox : mailbox[n].lease \in LeaseId \cup {NoLease}
      BY DEF TypeOK, MailboxRecord
    <2>4. Agree(mailbox', lease', nextMailbox, nextLease)
      BY <1>0, <2>1, <2>2, <2>3 DEF Agree
    <2>5. QED
      BY <1>10, <2>4, AgreeIsBindingNext DEF DeleteMailboxes
  <1>11. CASE Reap
    BY <1>11, BindingSweep DEF Reap
  <1>12. CASE Tick \/ UNCHANGED vars
    BY <1>0, <1>12, AgreeIsBindingNext DEF Tick, vars
  <1>13. QED
    BY <1>1, <1>2, <1>3, <1>4, <1>5, <1>6, <1>7, <1>8, <1>9, <1>10, <1>11, <1>12
    DEF Next, ClientStep, AdminStep

\* The mailbox table and the lease table agree in every reachable state: no
\* mailbox is held by two leases, by a dead one, or by none.
THEOREM BindingAlwaysConsistent == Spec => []BindingConsistent
  BY BindingInit, BindingStep, TypeCorrect, PTL DEF Spec

---------------------------------------------------------------------------
(* What a step may do to a row of either table                              *)

\* The row of a mailbox that was never imported, or was deleted, is blank.
AbsentIsBlank == \A m \in Mailbox : ~mailbox[m].here => mailbox[m] = AbsentMailbox

\* A row is cleared with its mailbox, created by a grant, or keeps its request
\* and its mailbox and at most ends; a commit turns reserved into used.
Cleared(l) ==
    /\ lease'[l].state = "none"
    /\ lease[l].state # "none" => ~mailbox'[lease[l].mailbox].here
Created(l) ==
    /\ l = nextLease
    /\ lease'[l].state = "claimed"
    /\ lease'[l].job = NoJob \/ JobLeases(lease'[l].job) = {}
Ends(l) ==
    /\ lease[l].state = "claimed"
    /\ lease'[l].state \in Terminal
    /\ lease'[l].state = "committed" =>
          /\ mailbox[lease[l].mailbox].status = "reserved"
          /\ mailbox'[lease[l].mailbox].status = "used"
Kept(l) ==
    /\ lease[l].state # "none"
    /\ lease'[l].job = lease[l].job
    /\ lease'[l].mailbox = lease[l].mailbox
    /\ lease'[l].state = lease[l].state \/ Ends(l)

LeaseFate == \A l \in LeaseId : Cleared(l) \/ Created(l) \/ Kept(l)

\* Only an administrator reopens a used mailbox, and only deletion forgets it.
MailboxFate ==
    \A m \in Mailbox : mailbox'[m].here =>
        /\ (mailbox[m].status = "used" /\ mailbox'[m].status # "used")
              => m \in recycled' /\ Reopened(m)
        /\ m \in recycled => m \in recycled'

LEMMA BlankInit == Init => AbsentIsBlank
  BY DEF Init, AbsentIsBlank

\* A step that writes no row of the mailbox table it does not find there, apart
\* from an import, keeps absent rows blank.
LEMMA BlankStep == TypeOK /\ BindingConsistent /\ AbsentIsBlank /\ [Next]_vars => AbsentIsBlank'
  <1> SUFFICES ASSUME TypeOK, BindingConsistent, AbsentIsBlank, [Next]_vars
               PROVE  AbsentIsBlank'
    OBVIOUS
  <1>0. ASSUME NEW now, Sweep(now)
        PROVE  AbsentIsBlank'
    <2>1. \A m \in Mailbox : Freed(m, now) => mailbox[m].here
      BY DEF Freed, Expirable, BindingConsistent, LeasesAreIssued, Held
    <2>2. \A m \in Mailbox : SweptMailboxes(now)[m].here = mailbox[m].here
      BY DEF SweptMailboxes, TypeOK, MailboxRecord
    <2>3. \A m \in Mailbox : ~Freed(m, now) => SweptMailboxes(now)[m] = mailbox[m]
      BY DEF SweptMailboxes
    <2>4. QED
      BY <1>0, <2>1, <2>2, <2>3 DEF Sweep, AbsentIsBlank
  <1>1. ASSUME NEW now \in Window, NEW job \in Job \cup {NoJob},
               ClaimRepeated(job, now) \/ ClaimNothing(job, now)
        PROVE  AbsentIsBlank'
    BY <1>0, <1>1 DEF ClaimRepeated, ClaimNothing
  <1>2. ASSUME NEW now \in Window, NEW job \in Job \cup {NoJob}, NEW ttl \in TTL,
               NEW m \in Mailbox, ClaimGrant(job, ttl, now, m)
        PROVE  AbsentIsBlank'
    <2>1. SweptMailboxes(now)[m].here
      BY <1>2 DEF ClaimGrant, OldestClaimable, Claimable
    <2>2. SweptMailboxes(now) \in [Mailbox -> MailboxRecord]
      BY SweepTypes
    <2>3. mailbox'[m].here
      BY <1>2, <2>1, <2>2 DEF ClaimGrant, MailboxRecord
    <2>4. \A n \in Mailbox : n # m => mailbox'[n] = SweptMailboxes(now)[n]
      BY <1>2, <2>2 DEF ClaimGrant
    <2>5. \A n \in Mailbox : Freed(n, now) => mailbox[n].here
      BY DEF Freed, Expirable, BindingConsistent, LeasesAreIssued, Held
    <2>6. \A n \in Mailbox : SweptMailboxes(now)[n].here = mailbox[n].here
      BY DEF SweptMailboxes, TypeOK, MailboxRecord
    <2>7. \A n \in Mailbox : ~Freed(n, now) => SweptMailboxes(now)[n] = mailbox[n]
      BY DEF SweptMailboxes
    <2>8. QED
      BY <2>3, <2>4, <2>5, <2>6, <2>7 DEF AbsentIsBlank
  <1>3. ASSUME NEW now \in Window, NEW l \in LeaseId,
               Commit(l, now) \/ Release(l, now)
        PROVE  AbsentIsBlank'
    <2>1. \A n \in Mailbox : n = lease[l].mailbox \/ mailbox'[n] = mailbox[n]
      BY <1>3 DEF Commit, Release, TypeOK
    <2>2. lease[l].mailbox \in Mailbox => mailbox'[lease[l].mailbox].here
      BY <1>3 DEF Commit, Release, Bound, TypeOK, MailboxRecord
    <2>3. QED
      BY <2>1, <2>2 DEF AbsentIsBlank
  <1>4. ASSUME NEW now \in Window, NEW l \in LeaseId, TooLate(l, now)
        PROVE  AbsentIsBlank'
    BY <1>0, <1>4 DEF TooLate
  <1>5. ASSUME NEW now \in Window, NEW l \in LeaseId, NEW ttl \in TTL, Renew(l, ttl, now)
        PROVE  AbsentIsBlank'
    BY <1>5 DEF Renew, AbsentIsBlank
  <1>6. ASSUME NEW l \in LeaseId, Reconcile(l)
        PROVE  AbsentIsBlank'
    <2>1. \A n \in Mailbox : n = lease[l].mailbox \/ mailbox'[n] = mailbox[n]
      BY <1>6 DEF Reconcile, TypeOK
    <2>2. lease[l].mailbox \in Mailbox => mailbox'[lease[l].mailbox].here
      BY <1>6 DEF Reconcile, TypeOK, MailboxRecord
    <2>3. QED
      BY <2>1, <2>2 DEF AbsentIsBlank
  <1>7. ASSUME NEW m \in Mailbox, NEW active \in BOOLEAN, NEW s \in Status \cup {""},
               RefreshMailbox(m, active) \/ SetMailboxStatus(m, active, s)
        PROVE  AbsentIsBlank'
    <2>1. /\ mailbox'[m].here
          /\ \A n \in Mailbox : n = m \/ mailbox'[n] = mailbox[n]
      <3>1. CASE RefreshMailbox(m, active)
        BY <3>1 DEF RefreshMailbox, TypeOK, MailboxRecord
      <3>2. CASE SetMailboxStatus(m, active, s)
        BY <3>2 DEF SetMailboxStatus, TypeOK, MailboxRecord
      <3>3. QED
        BY <1>7, <3>1, <3>2
    <2>2. QED
      BY <2>1 DEF AbsentIsBlank
  <1>8. ASSUME NEW active \in BOOLEAN, ImportMailbox(active)
        PROVE  AbsentIsBlank'
    BY <1>8 DEF ImportMailbox, TypeOK, AbsentIsBlank
  <1>9. ASSUME NEW S \in SUBSET Mailbox, DeleteMailboxes(S)
        PROVE  AbsentIsBlank'
    BY <1>9 DEF DeleteMailboxes, AbsentIsBlank
  <1>10. CASE Reap
    BY <1>0, <1>10 DEF Reap
  <1>11. CASE Tick \/ UNCHANGED vars
    BY <1>11 DEF Tick, vars, AbsentIsBlank
  <1>12. QED
    BY <1>1, <1>2, <1>3, <1>4, <1>5, <1>6, <1>7, <1>8, <1>9, <1>10, <1>11
    DEF Next, ClientStep, AdminStep

\* A sweep ends claimed leases as expired and reopens no used mailbox.
LEMMA SweepFate ==
    ASSUME TypeOK, NEW now
    PROVE  /\ \A l \in LeaseId :
                 /\ SweptLeases(now)[l].job = lease[l].job
                 /\ SweptLeases(now)[l].mailbox = lease[l].mailbox
                 /\ \/ SweptLeases(now)[l].state = lease[l].state
                    \/ /\ lease[l].state = "claimed"
                       /\ SweptLeases(now)[l].state = "expired"
           /\ \A m \in Mailbox :
                 mailbox[m].status = "used" => SweptMailboxes(now)[m].status = "used"
  <1>1. \A l \in LeaseId : l \in Expirable(now) => lease[l].state = "claimed"
    BY DEF Expirable, Held
  <1>2. \A l \in LeaseId : IF l \in Expirable(now)
                           THEN SweptLeases(now)[l] = [lease[l] EXCEPT !.state = "expired"]
                           ELSE SweptLeases(now)[l] = lease[l]
    BY DEF SweptLeases
  <1>3. \A l \in LeaseId : lease[l] \in LeaseRecord
    BY DEF TypeOK
  <1>4. \A l \in LeaseId :
           /\ SweptLeases(now)[l].job = lease[l].job
           /\ SweptLeases(now)[l].mailbox = lease[l].mailbox
           /\ \/ SweptLeases(now)[l].state = lease[l].state
              \/ /\ lease[l].state = "claimed"
                 /\ SweptLeases(now)[l].state = "expired"
    BY <1>1, <1>2, <1>3 DEF LeaseRecord
  <1>5. \A m \in Mailbox :
           mailbox[m].status = "used" => SweptMailboxes(now)[m].status = "used"
    BY DEF SweptMailboxes, TypeOK, MailboxRecord
  <1>6. QED
    BY <1>4, <1>5

LEMMA OnlySweeps ==
    ASSUME TypeOK, NEW now, Sweep(now), UNCHANGED recycled
    PROVE  LeaseFate /\ MailboxFate
  <1>1. MailboxFate
    BY SweepFate DEF Sweep, MailboxFate
  <1>2. \A l \in LeaseId : lease[l].state # "none" => Kept(l)
    BY SweepFate DEF Sweep, Kept, Ends, Terminal
  <1>3. \A l \in LeaseId : lease[l].state = "none" => Cleared(l)
    BY SweepFate DEF Sweep, Cleared
  <1>4. QED
    BY <1>1, <1>2, <1>3 DEF LeaseFate

\* One of the shared shapes: lease l, bound to mailbox m, ends with `outcome';
\* only the row of m is touched, and m was reserved.
LEMMA EndFate ==
    ASSUME TypeOK, NEW l \in LeaseId, NEW m \in Mailbox, NEW outcome \in Terminal,
           Held(l), lease[l].mailbox = m, mailbox[m].status = "reserved",
           lease' = [lease EXCEPT ![l].state = outcome],
           \A n \in Mailbox : n # m => mailbox'[n] = mailbox[n],
           outcome = "committed" => mailbox'[m].status = "used",
           \A n \in Mailbox : n \in recycled => n \in recycled'
    PROVE  LeaseFate /\ MailboxFate
  <1>1. Kept(l)
    BY DEF Kept, Ends, Held, TypeOK, LeaseRecord
  <1>2. \A k \in LeaseId : k # l => lease'[k] = lease[k]
    BY DEF TypeOK
  <1>3. \A k \in LeaseId : (k # l /\ lease[k].state # "none") => Kept(k)
    BY <1>2 DEF Kept
  <1>4. \A k \in LeaseId : (k # l /\ lease[k].state = "none") => Cleared(k)
    BY <1>2 DEF Cleared
  <1>5. MailboxFate
    BY DEF MailboxFate
  <1>6. QED
    BY <1>1, <1>3, <1>4, <1>5 DEF LeaseFate

\* A step that leaves the leases alone and reopens no used mailbox.
LEMMA LeasesAlone ==
    ASSUME lease' = lease, MailboxFate
    PROVE  LeaseFate /\ MailboxFate
  <1>1. \A k \in LeaseId : lease[k].state # "none" => Kept(k)
    BY DEF Kept
  <1>2. \A k \in LeaseId : lease[k].state = "none" => Cleared(k)
    BY DEF Cleared
  <1>3. QED
    BY <1>1, <1>2 DEF LeaseFate

LEMMA Fate ==
    TypeOK /\ BindingConsistent /\ AbsentIsBlank /\ [Next]_vars => LeaseFate /\ MailboxFate
  <1> SUFFICES ASSUME TypeOK, BindingConsistent, AbsentIsBlank, [Next]_vars
               PROVE  LeaseFate /\ MailboxFate
    OBVIOUS
  <1>1. ASSUME NEW now \in Window, NEW job \in Job \cup {NoJob},
               ClaimRepeated(job, now) \/ ClaimNothing(job, now)
        PROVE  LeaseFate /\ MailboxFate
    BY <1>1, OnlySweeps DEF ClaimRepeated, ClaimNothing
  <1>2. ASSUME NEW now \in Window, NEW job \in Job \cup {NoJob}, NEW ttl \in TTL,
               NEW m \in Mailbox, ClaimGrant(job, ttl, now, m)
        PROVE  LeaseFate /\ MailboxFate
    <2>1. /\ SweptLeases(now) \in [LeaseId -> LeaseRecord]
          /\ SweptMailboxes(now) \in [Mailbox -> MailboxRecord]
      BY SweepTypes
    <2>2. \A k \in LeaseId : IF k = nextLease
                             THEN lease'[k].state = "claimed" /\ lease'[k].job = job
                             ELSE lease'[k] = SweptLeases(now)[k]
      BY <1>2, <2>1 DEF ClaimGrant
    <2>3. \A k \in LeaseId : (k # nextLease /\ lease[k].state # "none") => Kept(k)
      BY <2>2, SweepFate DEF Kept, Ends, Terminal
    <2>4. \A k \in LeaseId : (k # nextLease /\ lease[k].state = "none") => Cleared(k)
      BY <2>2, SweepFate DEF Cleared
    <2>5. \A k \in LeaseId : k = nextLease => Created(k)
      BY <1>2, <2>2 DEF Created, ClaimGrant
    <2>6. SweptMailboxes(now)[m].status = "available"
      BY <1>2 DEF ClaimGrant, OldestClaimable, Claimable
    <2>7. \A n \in Mailbox : n # m => mailbox'[n] = SweptMailboxes(now)[n]
      BY <1>2, <2>1 DEF ClaimGrant
    <2>8. \A n \in Mailbox : mailbox[n].status = "used" => mailbox'[n].status = "used"
      BY <2>6, <2>7, SweepFate
    <2>9. MailboxFate
      BY <1>2, <2>8 DEF MailboxFate, ClaimGrant
    <2>10. QED
      BY <2>3, <2>4, <2>5, <2>9 DEF LeaseFate
  <1>3. ASSUME NEW now \in Window, NEW l \in LeaseId, Commit(l, now) \/ Release(l, now)
        PROVE  LeaseFate /\ MailboxFate
    <2> DEFINE m == lease[l].mailbox
               outcome == lease'[l].state
    <2>1. Held(l) /\ m \in Mailbox /\ mailbox[m].status = "reserved"
      BY <1>3 DEF Commit, Release, Bound, Held, BindingConsistent, LeasesAreIssued
    <2>2. lease' = [lease EXCEPT ![l].state = outcome] /\ outcome \in Terminal
      BY <1>3 DEF Commit, Release, Terminal, TypeOK, LeaseRecord
    <2>3. \A n \in Mailbox : n # m => mailbox'[n] = mailbox[n]
      BY <1>3 DEF Commit, Release, TypeOK
    <2>4. outcome = "committed" => mailbox'[m].status = "used"
      BY <1>3, <2>1 DEF Commit, Release, TypeOK, MailboxRecord, LeaseRecord
    <2>5. recycled' = recycled
      BY <1>3 DEF Commit, Release
    <2> HIDE DEF m, outcome
    <2>6. QED
      BY <2>1, <2>2, <2>3, <2>4, <2>5, EndFate DEF m
  <1>4. ASSUME NEW now \in Window, NEW l \in LeaseId, TooLate(l, now)
        PROVE  LeaseFate /\ MailboxFate
    BY <1>4, OnlySweeps DEF TooLate
  <1>5. ASSUME NEW now \in Window, NEW l \in LeaseId, NEW ttl \in TTL, Renew(l, ttl, now)
        PROVE  LeaseFate /\ MailboxFate
    <2>1. \A k \in LeaseId : /\ lease'[k].state = lease[k].state
                             /\ lease'[k].job = lease[k].job
                             /\ lease'[k].mailbox = lease[k].mailbox
      BY <1>5 DEF Renew, TypeOK, LeaseRecord
    <2>2. \A k \in LeaseId : lease[k].state # "none" => Kept(k)
      BY <2>1 DEF Kept
    <2>3. \A k \in LeaseId : lease[k].state = "none" => Cleared(k)
      BY <2>1 DEF Cleared
    <2>4. MailboxFate
      BY <1>5 DEF Renew, MailboxFate
    <2>5. QED
      BY <2>2, <2>3, <2>4 DEF LeaseFate
  <1>6. ASSUME NEW l \in LeaseId, Reconcile(l)
        PROVE  LeaseFate /\ MailboxFate
    <2>1. \A n \in Mailbox : mailbox[n].status = "used" => mailbox'[n].status = "used"
      BY <1>6 DEF Reconcile, TypeOK, MailboxRecord
    <2>2. MailboxFate
      BY <1>6, <2>1 DEF Reconcile, MailboxFate
    <2>3. QED
      BY <1>6, <2>2, LeasesAlone DEF Reconcile
  <1>7. ASSUME NEW m \in Mailbox, NEW active \in BOOLEAN, RefreshMailbox(m, active)
        PROVE  LeaseFate /\ MailboxFate
    <2>1. \A n \in Mailbox : mailbox'[n].status = mailbox[n].status
      BY <1>7 DEF RefreshMailbox, TypeOK, MailboxRecord
    <2>2. MailboxFate
      BY <1>7, <2>1 DEF RefreshMailbox, MailboxFate
    <2>3. QED
      BY <1>7, <2>2, LeasesAlone DEF RefreshMailbox
  <1>8. ASSUME NEW m \in Mailbox, NEW active \in BOOLEAN, NEW s \in Status \cup {""},
               SetMailboxStatus(m, active, s)
        PROVE  LeaseFate /\ MailboxFate
    <2>1. /\ \A n \in Mailbox : n # m => mailbox'[n] = mailbox[n]
          /\ mailbox'[m].status = IF s = "" THEN mailbox[m].status ELSE s
          /\ mailbox[m].lease \in LeaseId \cup {NoLease}
      BY <1>8 DEF SetMailboxStatus, TypeOK, MailboxRecord
    <2>2. recycled' = IF mailbox[m].status = "used" /\ s \notin {"", "used"}
                      THEN recycled \cup {m} ELSE recycled
      BY <1>8 DEF SetMailboxStatus
    <2>3. CASE mailbox[m].lease # NoLease /\ s \notin {"", "reserved"}
      <3> DEFINE l == mailbox[m].lease
                 outcome == IF s = "used" THEN "committed" ELSE "released"
      <3>1. /\ l \in LeaseId /\ Held(l)
            /\ lease[l].mailbox = m
            /\ mailbox[m].status = "reserved"
        BY <2>1, <2>3 DEF BindingConsistent, MailboxPointsAtLease
      <3>2. lease' = [lease EXCEPT ![l].state = outcome] /\ outcome \in Terminal
        BY <1>8, <2>3, <3>1 DEF SetMailboxStatus, Terminal
      <3>3. outcome = "committed" => mailbox'[m].status = "used"
        BY <2>1
      <3>4. \A n \in Mailbox : n \in recycled => n \in recycled'
        BY <2>2
      <3> HIDE DEF l, outcome
      <3>5. QED
        BY <2>1, <3>1, <3>2, <3>3, <3>4, EndFate
    <2>4. CASE ~(mailbox[m].lease # NoLease /\ s \notin {"", "reserved"})
      <3>1. lease' = lease
        BY <1>8, <2>4 DEF SetMailboxStatus
      <3>2. mailbox[m].status = "used" /\ mailbox'[m].status # "used"
               => m \in recycled' /\ Reopened(m)
        BY <1>8, <2>1, <2>2 DEF Reopened
      <3>3. MailboxFate
        BY <2>1, <2>2, <3>2 DEF MailboxFate
      <3>4. QED
        BY <3>1, <3>3, LeasesAlone
    <2>5. QED
      BY <2>3, <2>4
  <1>9. ASSUME NEW active \in BOOLEAN, ImportMailbox(active)
        PROVE  LeaseFate /\ MailboxFate
    <2>1. \A n \in Mailbox : mailbox[n].status = "used" => mailbox[n].here
      BY DEF AbsentIsBlank, AbsentMailbox
    <2>2. nextMailbox \in Mailbox => ~mailbox[nextMailbox].here
      BY DEF BindingConsistent, MailboxesAreImported, TypeOK, Mailbox
    <2>3. \A n \in Mailbox : n # nextMailbox => mailbox'[n] = mailbox[n]
      BY <1>9 DEF ImportMailbox, TypeOK
    <2>4. MailboxFate
      BY <1>9, <2>1, <2>2, <2>3 DEF MailboxFate, ImportMailbox
    <2>5. QED
      BY <1>9, <2>4, LeasesAlone DEF ImportMailbox
  <1>10. ASSUME NEW S \in SUBSET Mailbox, DeleteMailboxes(S)
         PROVE  LeaseFate /\ MailboxFate
    <2>1. \A n \in Mailbox : IF n \in S THEN ~mailbox'[n].here
                                        ELSE mailbox'[n] = mailbox[n]
      BY <1>10 DEF DeleteMailboxes, AbsentMailbox
    <2>2. \A k \in LeaseId : IF lease[k].state # "none" /\ lease[k].mailbox \in S
                             THEN lease'[k].state = "none"
                             ELSE lease'[k] = lease[k]
      BY <1>10 DEF DeleteMailboxes, LeasesOf, AbsentLease
    <2>3. \A k \in LeaseId : Cleared(k) \/ Kept(k)
      BY <2>1, <2>2 DEF Cleared, Kept, BindingConsistent, LeasesAreIssued
    <2>4. MailboxFate
      BY <1>10, <2>1 DEF MailboxFate, DeleteMailboxes
    <2>5. QED
      BY <2>3, <2>4 DEF LeaseFate
  <1>11. CASE Reap
    BY <1>11, OnlySweeps DEF Reap
  <1>12. CASE Tick \/ UNCHANGED vars
    <2>1. MailboxFate
      BY <1>12 DEF Tick, vars, MailboxFate
    <2>2. QED
      BY <1>12, <2>1, LeasesAlone DEF Tick, vars
  <1>13. QED
    BY <1>1, <1>2, <1>3, <1>4, <1>5, <1>6, <1>7, <1>8, <1>9, <1>10, <1>11, <1>12
    DEF Next, ClientStep, AdminStep

---------------------------------------------------------------------------
(* What retries, late calls and administrators cannot undo                  *)

LEMMA BlankAlways == Spec => []AbsentIsBlank
  BY BlankInit, BlankStep, TypeCorrect, BindingAlwaysConsistent, PTL DEF Spec

\* A claim retried with its request_id is answered with the lease it created:
\* no interleaving of retries with sweeps and deletions creates a second one.
THEOREM RequestsServedOnce == Spec => []OneLeasePerRequest
  <1>1. Init => OneLeasePerRequest
    BY DEF Init, OneLeasePerRequest, AbsentLease
  <1>2. ASSUME LeaseFate, OneLeasePerRequest
        PROVE  OneLeasePerRequest'
    <2> SUFFICES ASSUME NEW k \in LeaseId, NEW l \in LeaseId,
                        lease'[k].state # "none", lease'[l].state # "none",
                        lease'[k].job = lease'[l].job, lease'[l].job # NoJob
                 PROVE  k = l
      BY DEF OneLeasePerRequest
    <2>1. (Created(k) \/ Kept(k)) /\ (Created(l) \/ Kept(l))
      BY <1>2 DEF LeaseFate, Cleared
    <2>2. CASE Created(k) /\ Created(l)
      BY <2>2 DEF Created
    <2>3. CASE Kept(k) /\ Kept(l)
      BY <1>2, <2>3 DEF Kept, OneLeasePerRequest
    <2>4. CASE Created(k) /\ Kept(l)
      BY <2>4 DEF Created, Kept, JobLeases
    <2>5. CASE Kept(k) /\ Created(l)
      BY <2>5 DEF Created, Kept, JobLeases
    <2>6. QED
      BY <2>1, <2>2, <2>3, <2>4, <2>5
  <1>3. TypeOK /\ BindingConsistent /\ AbsentIsBlank /\ OneLeasePerRequest /\ [Next]_vars
           => OneLeasePerRequest'
    BY <1>2, Fate
  <1>4. QED
    BY <1>1, <1>3, TypeCorrect, BindingAlwaysConsistent, BlankAlways, PTL DEF Spec

\* A committed, released or expired lease never changes its outcome: late
\* calls, sweeps and reconciliation leave it, only deletion removes it.
THEOREM OutcomesAreFinal == Spec => OutcomeIsFinal
  <1>1. ASSUME TypeOK, BindingConsistent, AbsentIsBlank, [Next]_vars,
               NEW l \in LeaseId, lease[l].state \in Terminal
        PROVE  lease'[l].state = lease[l].state \/ ~mailbox'[lease[l].mailbox].here
    <2>1. lease[l].state \notin {"none", "claimed"} /\ l < nextLease
      BY <1>1 DEF Terminal, BindingConsistent, LeasesAreIssued
    <2>2. Cleared(l) \/ Created(l) \/ Kept(l)
      BY <1>1, Fate DEF LeaseFate
    <2>3. ~Created(l)
      BY <1>1, <2>1 DEF Created, TypeOK, LeaseId
    <2>4. QED
      BY <2>1, <2>2, <2>3 DEF Cleared, Kept, Ends
  <1>2. TypeOK /\ BindingConsistent /\ AbsentIsBlank /\ [Next]_vars =>
           [\A l \in LeaseId : lease[l].state \in Terminal =>
               \/ lease'[l].state = lease[l].state
               \/ ~mailbox'[lease[l].mailbox].here]_vars
    BY <1>1
  <1>3. QED
    BY <1>2, TypeCorrect, BindingAlwaysConsistent, BlankAlways, PTL
    DEF Spec, OutcomeIsFinal

\* No sweep, late call, retry or remote synchronisation reopens a used mailbox.
THEOREM UsedStaysUsed == Spec => UsedUntilReopened
  <1>1. TypeOK /\ BindingConsistent /\ AbsentIsBlank /\ [Next]_vars =>
           [\A m \in Mailbox :
               (mailbox[m].status = "used" /\ mailbox'[m].here /\ mailbox'[m].status # "used")
                   => Reopened(m)]_vars
    BY Fate DEF MailboxFate
  <1>2. QED
    BY <1>1, TypeCorrect, BindingAlwaysConsistent, BlankAlways, PTL
    DEF Spec, UsedUntilReopened

\* The strengthening of BoundOnce: a committed lease's mailbox is used until an
\* administrator reopens it.
BoundIsUsed ==
    \A l \in LeaseId : lease[l].state = "committed" =>
        mailbox[lease[l].mailbox].status = "used" \/ lease[l].mailbox \in recycled

LEMMA BoundStep ==
    ASSUME BindingConsistent, BindingConsistent', LeaseFate, MailboxFate,
           BoundIsUsed, BoundOnce
    PROVE  BoundIsUsed' /\ BoundOnce'
  <1> DEFINE Was(l) == lease[l].state = "committed" /\ lease'[l].mailbox = lease[l].mailbox
             Now(l) == /\ lease[l].state = "claimed"
                       /\ lease'[l].mailbox = lease[l].mailbox
                       /\ mailbox[lease[l].mailbox].status = "reserved"
                       /\ mailbox'[lease[l].mailbox].status = "used"
  <1>1. ASSUME NEW l \in LeaseId, lease'[l].state = "committed"
        PROVE  /\ Was(l) \/ Now(l)
               /\ lease'[l].mailbox \in Mailbox
               /\ mailbox'[lease'[l].mailbox].here
    <2>1. Kept(l)
      BY <1>1 DEF LeaseFate, Cleared, Created
    <2>2. /\ lease'[l].mailbox \in Mailbox
          /\ mailbox'[lease'[l].mailbox].here
      BY <1>1 DEF BindingConsistent, LeasesAreIssued
    <2>3. QED
      BY <1>1, <2>1, <2>2 DEF Kept, Ends
  <1>2. ASSUME NEW l \in LeaseId, lease'[l].state = "committed"
        PROVE  mailbox'[lease'[l].mailbox].status = "used" \/ lease'[l].mailbox \in recycled'
    BY <1>1, <1>2 DEF BoundIsUsed, MailboxFate
  <1>3. ASSUME NEW k \in LeaseId, NEW l \in LeaseId, k # l,
               lease'[k].state = "committed", lease'[l].state = "committed",
               lease'[k].mailbox = lease'[l].mailbox
        PROVE  lease'[l].mailbox \in recycled'
    <2>1. lease'[l].mailbox \in Mailbox /\ mailbox'[lease'[l].mailbox].here
      BY <1>1, <1>3
    <2>2. CASE Was(k) /\ Was(l)
      <3>1. lease'[l].mailbox \in recycled
        BY <1>3, <2>2 DEF BoundOnce
      <3>2. QED
        BY <2>1, <3>1 DEF MailboxFate
    <2>3. CASE Now(k) /\ Now(l)
      <3>1. mailbox[lease[k].mailbox].lease = k /\ mailbox[lease[l].mailbox].lease = l
        BY <2>3 DEF BindingConsistent, LeasePointsAtMailbox, Held
      <3>2. QED
        BY <1>3, <2>3, <3>1
    <2>4. CASE Was(k) /\ Now(l)
      <3>1. lease'[l].mailbox \in recycled
        BY <1>3, <2>4 DEF BoundIsUsed
      <3>2. QED
        BY <2>1, <3>1 DEF MailboxFate
    <2>5. CASE Now(k) /\ Was(l)
      <3>1. lease'[l].mailbox \in recycled
        BY <1>3, <2>5 DEF BoundIsUsed
      <3>2. QED
        BY <2>1, <3>1 DEF MailboxFate
    <2>6. QED
      BY <1>1, <1>3, <2>2, <2>3, <2>4, <2>5
  <1>4. QED
    BY <1>2, <1>3 DEF BoundIsUsed, BoundOnce

\* Two accounts are bound to one address only after an administrator reopened
\* the used mailbox, however commits race with retries, sweeps and edits.
THEOREM MailboxBoundOnce == Spec => []BoundOnce
  <1>1. Init => BoundIsUsed /\ BoundOnce
    BY DEF Init, BoundIsUsed, BoundOnce, AbsentLease
  <1>2. TypeOK /\ BindingConsistent /\ BindingConsistent' /\ AbsentIsBlank
        /\ BoundIsUsed /\ BoundOnce /\ [Next]_vars => BoundIsUsed' /\ BoundOnce'
    BY Fate, BoundStep
  <1>3. QED
    BY <1>1, <1>2, TypeCorrect, BindingAlwaysConsistent, BlankAlways, PTL DEF Spec

---------------------------------------------------------------------------
(* Deadlines                                                                *)

\* Every deadline is an instant of the model, so its text has a rank.
DeadlinesInTime == \A l \in LeaseId : lease[l].expires \in 0 .. MaxDeadline

\* A deadline granted or renewed at an instant of the clock is in time.
LEMMA NewDeadline ==
    ASSUME TypeOK, NEW now \in Window, NEW ttl \in TTL
    PROVE  now + ttl \in 0 .. MaxDeadline
  <1>1. clock \in Nat /\ clock <= MaxClock /\ now \in Nat /\ now <= clock
    BY ConstantsAssumption DEF TypeOK, Window
  <1>2. ttl \in Nat /\ MaxClock + ttl <= MaxDeadline /\ MaxClock \in Nat /\ MaxDeadline \in Nat
    BY ConstantsAssumption
  <1>3. QED
    BY <1>1, <1>2

\* A step sets the deadline of l to an instant or leaves it, and takes l from its holder as
\* expired only in a sweep that selects it.
DeadlineFate(l) ==
    /\ lease'[l].expires = lease[l].expires \/ lease'[l].expires \in 0 .. MaxDeadline
    /\ (Held(l) /\ lease'[l].state = "expired") => \E now \in Window : l \in Expirable(now)

LEMMA SweepDeadline ==
    ASSUME TypeOK, NEW l \in LeaseId, NEW now \in Window
    PROVE  /\ SweptLeases(now)[l].expires = lease[l].expires
           /\ (Held(l) /\ SweptLeases(now)[l].state = "expired") => l \in Expirable(now)
  <1>1. CASE l \in Expirable(now)
    BY <1>1 DEF SweptLeases, TypeOK, LeaseRecord
  <1>2. CASE l \notin Expirable(now)
    BY <1>2 DEF SweptLeases, Held
  <1>3. QED
    BY <1>1, <1>2

LEMMA StepDeadline ==
    ASSUME TypeOK, BindingConsistent, [Next]_vars, NEW l \in LeaseId
    PROVE  DeadlineFate(l)
  <1>1. ASSUME NEW now \in Window, Sweep(now)
        PROVE  DeadlineFate(l)
    BY <1>1, SweepDeadline DEF Sweep, DeadlineFate
  <1>2. ASSUME lease' = lease
        PROVE  DeadlineFate(l)
    BY <1>2 DEF DeadlineFate, Held
  <1>3. ASSUME NEW now \in Window, NEW job \in Job \cup {NoJob}, NEW ttl \in TTL,
               NEW m \in Mailbox, ClaimGrant(job, ttl, now, m)
        PROVE  DeadlineFate(l)
    <2>1. now + ttl \in 0 .. MaxDeadline
      BY NewDeadline
    <2>2. IF l = nextLease THEN lease'[l].expires = now + ttl /\ lease'[l].state = "claimed"
                           ELSE lease'[l] = SweptLeases(now)[l]
      BY <1>3, SweepTypes DEF ClaimGrant
    <2>3. QED
      BY <2>1, <2>2, SweepDeadline DEF DeadlineFate
  <1>4. ASSUME NEW now \in Window, NEW k \in LeaseId, Commit(k, now) \/ Release(k, now)
        PROVE  DeadlineFate(l)
    <2>1. lease'[l].expires = lease[l].expires
          /\ lease'[l].state \in {lease[l].state, "committed", "released"}
      BY <1>4 DEF Commit, Release, TypeOK, LeaseRecord
    <2>2. QED
      BY <2>1 DEF DeadlineFate, Held
  <1>5. ASSUME NEW now \in Window, NEW k \in LeaseId, NEW ttl \in TTL, Renew(k, ttl, now)
        PROVE  DeadlineFate(l)
    <2>1. now + ttl \in 0 .. MaxDeadline
      BY NewDeadline
    <2>2. lease'[l].expires \in {lease[l].expires, now + ttl} /\ lease'[l].state = lease[l].state
      BY <1>5 DEF Renew, TypeOK, LeaseRecord
    <2>3. QED
      BY <2>1, <2>2 DEF DeadlineFate, Held
  <1>6. ASSUME NEW m \in Mailbox, NEW active \in BOOLEAN, NEW s \in Status \cup {""},
               SetMailboxStatus(m, active, s)
        PROVE  DeadlineFate(l)
    <2> DEFINE k == mailbox[m].lease
    <2>1. \/ lease' = lease
          \/ /\ Held(k)
             /\ lease' = [lease EXCEPT ![k].state = IF s = "used" THEN "committed"
                                                     ELSE "released"]
      BY <1>6 DEF SetMailboxStatus
    <2> HIDE DEF k
    <2>2. lease'[l].expires = lease[l].expires
          /\ lease'[l].state \in {lease[l].state, "committed", "released"}
      <3>1. lease \in [LeaseId -> LeaseRecord] /\ lease[l] \in LeaseRecord
        BY DEF TypeOK
      <3>2. ASSUME NEW o \in {"committed", "released"}, lease' = [lease EXCEPT ![k].state = o]
            PROVE  lease'[l].expires = lease[l].expires /\ lease'[l].state \in {lease[l].state, o}
        <4>1. CASE k = l
          BY <3>1, <3>2, <4>1 DEF LeaseRecord
        <4>2. CASE k # l
          BY <3>1, <3>2, <4>2
        <4>3. QED
          BY <4>1, <4>2
      <3>3. QED
        BY <2>1, <3>2
    <2>3. QED
      BY <2>2 DEF DeadlineFate, Held
  <1>7. ASSUME NEW S \in SUBSET Mailbox, DeleteMailboxes(S)
        PROVE  DeadlineFate(l)
    <2>1. lease'[l] = lease[l] \/ lease'[l] = AbsentLease
      BY <1>7 DEF DeleteMailboxes
    <2>2. QED
      BY <2>1, ConstantsAssumption DEF DeadlineFate, Held, AbsentLease
  <1>8. CASE ClientStep
    <2>1. PICK now \in Window :
             \/ \E job \in Job \cup {NoJob} :
                   \/ ClaimRepeated(job, now)
                   \/ ClaimNothing(job, now)
                   \/ \E ttl \in TTL, m \in Mailbox : ClaimGrant(job, ttl, now, m)
             \/ \E k \in LeaseId :
                   \/ Commit(k, now)
                   \/ Release(k, now)
                   \/ TooLate(k, now)
                   \/ \E ttl \in TTL : Renew(k, ttl, now)
                   \/ Reconcile(k)
      BY <1>8 DEF ClientStep
    <2>2. ASSUME NEW job \in Job \cup {NoJob}, ClaimRepeated(job, now) \/ ClaimNothing(job, now)
          PROVE  Sweep(now)
      BY <2>2 DEF ClaimRepeated, ClaimNothing
    <2>3. ASSUME NEW k \in LeaseId, TooLate(k, now)
          PROVE  Sweep(now)
      BY <2>3 DEF TooLate
    <2>4. ASSUME NEW k \in LeaseId, Reconcile(k)
          PROVE  lease' = lease
      BY <2>4 DEF Reconcile
    <2>5. QED
      BY <1>1, <1>2, <1>3, <1>4, <1>5, <2>1, <2>2, <2>3, <2>4
  <1>9. CASE AdminStep
    <2>1. ASSUME NEW m \in Mailbox, NEW active \in BOOLEAN,
                 RefreshMailbox(m, active) \/ ImportMailbox(active)
          PROVE  lease' = lease
      BY <2>1 DEF RefreshMailbox, ImportMailbox
    <2>2. ASSUME NEW active \in BOOLEAN, ImportMailbox(active)
          PROVE  lease' = lease
      BY <2>2 DEF ImportMailbox
    <2>3. QED
      BY <1>2, <1>6, <1>7, <1>9, <2>1, <2>2 DEF AdminStep
  <1>10. CASE Reap
    BY <1>1, <1>10 DEF Reap
  <1>11. CASE Tick \/ UNCHANGED vars
    BY <1>2, <1>11 DEF Tick, vars
  <1>12. QED
    BY <1>8, <1>9, <1>10, <1>11 DEF Next

\* While the server's zone keeps one offset, so that the texts of two instants are ordered as
\* they are, no sweep takes a lease from its holder before its deadline: neither the reaper's,
\* nor one in a claim or a late call whose handler has waited for the mutex.
THEOREM ExpiryIsNeverEarly ==
    ASSUME \A a, b \in 0 .. MaxDeadline : TextLeq(a, b) => a <= b
    PROVE  Spec => NoEarlyExpiry
  <1>1. Init => DeadlinesInTime
    BY ConstantsAssumption DEF Init, DeadlinesInTime, AbsentLease
  <1>2. TypeOK /\ BindingConsistent /\ DeadlinesInTime /\ [Next]_vars => DeadlinesInTime'
    BY StepDeadline DEF DeadlineFate, DeadlinesInTime
  <1>3. ASSUME TypeOK, BindingConsistent, DeadlinesInTime, [Next]_vars,
               NEW l \in LeaseId, Held(l), lease'[l].state = "expired"
        PROVE  lease[l].expires <= clock
    <2>1. PICK now \in Window : l \in Expirable(now)
      BY <1>3, StepDeadline DEF DeadlineFate
    <2>2. now \in 0 .. MaxDeadline /\ now <= clock /\ TextLeq(lease[l].expires, now)
      <3>1. clock \in 0 .. MaxClock
        BY <1>3 DEF TypeOK
      <3>2. now \in 0 .. clock
        BY DEF Window
      <3>3. TextLeq(lease[l].expires, now)
        BY <2>1 DEF Expirable
      <3>4. now \in 0 .. MaxDeadline
        BY <3>1, <3>2, ConstantsAssumption
      <3>5. QED
        BY <3>1, <3>2, <3>3, <3>4
    <2>3. lease[l].expires \in 0 .. MaxDeadline
      BY <1>3 DEF DeadlinesInTime
    <2>4. lease[l].expires <= now
      BY <2>2, <2>3
    <2>5. clock \in Nat /\ now \in Nat /\ lease[l].expires \in Nat
      BY <1>3, <2>2, <2>3 DEF TypeOK
    <2>6. QED
      BY <2>2, <2>4, <2>5
  <1>4. TypeOK /\ BindingConsistent /\ DeadlinesInTime /\ [Next]_vars =>
           [\A l \in LeaseId : (Held(l) /\ lease'[l].state = "expired")
               => lease[l].expires <= clock]_vars
    BY <1>3
  <1>5. QED
    BY <1>1, <1>2, <1>4, TypeCorrect, BindingAlwaysConsistent, PTL DEF Spec, NoEarlyExpiry

=============================================================================
