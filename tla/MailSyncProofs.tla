----------------------------- MODULE MailSyncProofs -----------------------------
(***************************************************************************)
(* For every number of mailboxes, callers and mails, every fetch limit and *)
(* every clock: the state is well typed, ReceiveCount is the number of     *)
(* stored messages, and the account cursor passes no code it should store. *)
(***************************************************************************)
EXTENDS MailSync, FiniteSetTheorems, TLAPS

---------------------------------------------------------------------------
(* Helpers                                                                 *)

\* Greatest is the maximum of a set of UIDs: with the strict subset order on
\* the sets of greater UIDs, it is the one whose set is minimal.
LEMMA GreatestIsMaximum ==
  ASSUME NEW n \in Nat, NEW S \in SUBSET (1 .. n), S # {}
  PROVE  /\ Greatest(S) \in S
         /\ \A y \in S : y <= Greatest(S)
  <1> DEFINE Above(y) == {v \in 1 .. n : v > y}
             T == {Above(y) : y \in S}
  <1>1. IsFiniteSet(1 .. n)
    BY FS_Interval
  <1>2. T \subseteq FiniteSubsetsOf(1 .. n)
    <2>1. T \subseteq SUBSET (1 .. n)
      OBVIOUS
    <2>2. QED
      BY <1>1, <2>1, FS_FiniteSubsetsOfFinite
  <1>3. T # {}
    OBVIOUS
  <1>4. \E A \in T : \A B \in T : ~ (<<B, A>> \in StrictSubsetOrdering(1 .. n))
    <2> HIDE DEF T
    <2>1. IsWellFoundedOn(StrictSubsetOrdering(1 .. n), FiniteSubsetsOf(1 .. n))
      BY FS_StrictSubsetOrderingWellFounded
    <2>2. QED
      BY <1>2, <1>3, <2>1, WFMin
  <1>5. PICK x \in S : \A y \in S :
           ~ (<<Above(y), Above(x)>> \in StrictSubsetOrdering(1 .. n))
    BY <1>4
  <1>6. \A y \in S : y <= x
    <2> SUFFICES ASSUME NEW y \in S, y > x
                 PROVE  FALSE
      OBVIOUS
    <2>1. /\ Above(y) \subseteq Above(x)
          /\ y \in Above(x)
          /\ y \notin Above(y)
      OBVIOUS
    <2>2. <<Above(y), Above(x)>> \in StrictSubsetOrdering(1 .. n)
      BY <2>1 DEF StrictSubsetOrdering
    <2>3. QED
      BY <1>5, <2>2
  <1>7. QED
    BY <1>6 DEF Greatest

\* The next cursor is the old one or the greatest of the mails that were read.
LEMMA LastUidIsScanned ==
  ASSUME NEW n \in Nat, NEW S \in SUBSET (1 .. n)
  PROVE  IF S = {} THEN LastUid(S) = cursor
                   ELSE LastUid(S) \in S /\ \A y \in S : y <= LastUid(S)
  BY GreatestIsMaximum DEF LastUid

\* A set of UIDs is finite, and what is added to it is counted.
LEMMA UidsAreFinite ==
  ASSUME NEW S \in SUBSET Uid
  PROVE  IsFiniteSet(S) /\ Cardinality(S) \in Nat
  <1>1. IsFiniteSet(Uid)
    BY MailSyncAssumption, FS_Interval DEF Uid
  <1>2. QED
    BY <1>1, FS_Subset, FS_CardinalityType

LEMMA AddedAreCounted ==
  ASSUME NEW S \in SUBSET Uid, NEW T \in SUBSET Uid, S \cap T = {}
  PROVE  Cardinality(S \cup T) = Cardinality(S) + Cardinality(T)
  <1>1. Cardinality(S \cup T) = Cardinality(S) + Cardinality(T) - Cardinality(S \cap T)
    BY UidsAreFinite, FS_Union
  <1>2. Cardinality(S \cap T) = 0
    BY FS_EmptySet
  <1>3. QED
    BY <1>1, <1>2, UidsAreFinite

---------------------------------------------------------------------------
(* Type correctness                                                         *)

\* Records of the three kinds of values that steps write.
LEMMA InboxTypes ==
  ASSUME TypeOK, NEW u \in 1 .. Len(inbox)
  PROVE  inbox[u].to \in Mailbox
  <1>1. inbox \in Seq(Mail)
    BY DEF TypeOK
  <1>2. inbox[u] \in Mail
    BY <1>1
  <1>3. QED
    BY <1>2 DEF Mail

LEMMA NoCallIsCall == NoCall \in Call
  <1>1. 0 \in 0 .. MaxMail /\ 0 \in 0 .. MaxClock /\ FALSE \in BOOLEAN
    BY MailSyncAssumption
  <1>2. QED
    BY <1>1, Zenon DEF NoCall, Call

LEMMA CallUpdates ==
  ASSUME NEW call \in Call
  PROVE  /\ [call EXCEPT !.pc = "asking"] \in Call
         /\ [call EXCEPT !.pc = "waiting"] \in Call
         /\ \A outcome \in {"ok", "error"} : [call EXCEPT !.outcome = outcome] \in Call
         /\ \A kind \in Kind, boxes \in SUBSET Mailbox, after \in 0 .. MaxClock :
               [call EXCEPT !.pc = "asking", !.kind = kind, !.boxes = boxes,
                            !.after = after] \in Call
  BY DEF Call

LEMMA BoxUpdates ==
  ASSUME NEW b \in Box, NEW n \in Nat, NEW last \in 0 .. Never
  PROVE  [b EXCEPT !.count = @ + n, !.last = last] \in Box
  <1>1. b.count + n \in Nat
    BY DEF Box
  <1>2. QED
    BY <1>1, Zenon DEF Box

LEMMA TypeInit == Init => TypeOK
  BY MailSyncAssumption, NoCallIsCall
  DEF Init, TypeOK, Unknown, Box, Never, Uid

\* Whoever returns forgets his request, whoever waited in vain asks again.
LEMMA FinishTypes ==
  ASSUME TypeOK, NEW c \in Caller, NEW outcome \in {"ok", "error"}, Finish(c, outcome)
  PROVE  /\ caller' \in [Caller -> Call]
         /\ flight' \in Caller \cup {Nobody}
  <1>1. \A w \in Caller : caller[w] \in Call
    BY DEF TypeOK
  <1>2. [NoCall EXCEPT !.outcome = outcome] \in Call
    BY NoCallIsCall, CallUpdates
  <1>3. \A w \in Caller : [caller[w] EXCEPT !.pc = "asking"] \in Call
    BY <1>1, CallUpdates
  <1>4. QED
    BY <1>1, <1>2, <1>3 DEF Finish

LEMMA MatchedAreUids ==
  ASSUME TypeOK, NEW c \in Caller
  PROVE  /\ Matched(caller[c]) \subseteq Uid
         /\ Excuse(caller[c]) \subseteq Uid
  BY MailSyncAssumption DEF TypeOK, Matched, Excuse, Call, Uid

LEMMA ScannedArePresent ==
  ASSUME TypeOK, NEW call
  PROVE  Scanned(call) \subseteq present
  <1>1. present \in SUBSET (1 .. Len(inbox)) /\ Len(inbox) \in Nat
    BY DEF TypeOK
  <1>2. present # {} => Greatest(present) \in present
    BY <1>1, GreatestIsMaximum
  <1>3. Hits(call) \subseteq present
    <2>1. CASE call.kind = "bulk"
      BY <2>1 DEF Hits
    <2>2. CASE call.kind # "bulk" /\ Incremental(call.kind)
      BY <1>2, <2>2 DEF Hits
    <2>3. CASE call.kind # "bulk" /\ ~Incremental(call.kind)
      BY <2>3 DEF Hits
    <2>4. QED
      BY <2>1, <2>2, <2>3
  <1>4. \A n : FirstOf(Hits(call), n) \subseteq present /\ LastOf(Hits(call), n) \subseteq present
    BY <1>3 DEF FirstOf, LastOf
  <1>5. QED
    BY <1>3, <1>4 DEF Scanned

\* An instant before now is an instant.
LEMMA AgoIsAnInstant ==
  ASSUME TypeOK, NEW span \in Nat
  PROVE  Ago(span) \in 0 .. MaxClock
  <1>1. clock \in Nat /\ clock <= MaxClock /\ MaxClock \in Nat
    BY MailSyncAssumption DEF TypeOK
  <1>2. QED
    BY <1>1 DEF Ago

LEMMA TypeStep == TypeOK /\ [Next]_vars => TypeOK'
  <1> SUFFICES ASSUME TypeOK, [Next]_vars
               PROVE  TypeOK'
    OBVIOUS
  <1>1. ASSUME NEW m \in Mailbox, NEW code \in BOOLEAN, NEW sent \in 0 .. clock,
               Arrive(m, code, sent)
        PROVE  TypeOK'
    <2>1. [to |-> m, code |-> code, sent |-> sent, arrived |-> clock] \in Mail
      BY MailSyncAssumption DEF TypeOK, Mail
    <2>2. /\ inbox' \in Seq(Mail)
          /\ Len(inbox') = Len(inbox) + 1
          /\ Len(inbox) \in Nat
      <3>1. inbox \in Seq(Mail)
        BY DEF TypeOK
      <3>2. inbox' = Append(inbox, [to |-> m, code |-> code, sent |-> sent, arrived |-> clock])
        BY <1>1 DEF Arrive
      <3>3. QED
        BY <2>1, <3>1, <3>2
    <2>3. present' \subseteq 1 .. Len(inbox')
      <3>1. present \subseteq 1 .. Len(inbox) /\ present' = present \cup {Len(inbox')}
        BY <1>1 DEF Arrive, TypeOK
      <3>2. ASSUME NEW n \in Nat
            PROVE  (1 .. n) \cup {n + 1} \subseteq 1 .. (n + 1)
        OBVIOUS
      <3>3. (1 .. Len(inbox)) \cup {Len(inbox')} \subseteq 1 .. Len(inbox')
        BY <2>2, <3>2, Zenon
      <3>4. QED
        BY <3>1, <3>3, Zenon
    <2>4. Len(inbox') <= MaxMail
      BY <1>1, <2>2, MailSyncAssumption DEF Arrive
    <2>5. QED
      BY <1>1, <2>2, <2>3, <2>4 DEF Arrive, tables, calls, TypeOK
  <1>2. CASE Tick
    BY <1>2, MailSyncAssumption DEF Tick, tables, calls, TypeOK
  <1>3. ASSUME NEW c \in Caller, NEW kind \in Kind, NEW m \in Mailbox, Request(c, kind, m)
        PROVE  TypeOK'
    <2>1. List(kind, m) \subseteq Mailbox
      BY DEF List, Here
    <2> DEFINE after == IF kind = "watcher" THEN Ago(WatchLookback) ELSE 0
    <2>2. after \in 0 .. MaxClock
      BY AgoIsAnInstant, MailSyncAssumption
    <2>3. caller' = [caller EXCEPT ![c] = [NoCall EXCEPT
                        !.pc = "asking", !.kind = kind, !.boxes = List(kind, m), !.after = after]]
      BY <1>3 DEF Request
    <2> HIDE DEF after
    <2>4. [NoCall EXCEPT !.pc = "asking", !.kind = kind, !.boxes = List(kind, m),
                         !.after = after] \in Call
      BY <2>1, <2>2, NoCallIsCall, CallUpdates
    <2>5. caller' \in [Caller -> Call]
      BY <2>3, <2>4 DEF TypeOK
    <2>6. QED
      BY <1>3, <2>5 DEF Request, tables, apple, TypeOK
  <1>4. ASSUME NEW c \in Caller, Lead(c)
        PROVE  TypeOK'
    <2> DEFINE kind == caller[c].kind
               scanned == Scanned(caller[c])
               refreshed == caller[c].boxes \cap Here
    <2>1. caller[c] \in Call
      BY DEF TypeOK
    <2>2. Scanned(caller[c]) \subseteq Uid /\ Scanned(caller[c]) \in SUBSET (1 .. Len(inbox))
      <3>1. Scanned(caller[c]) \subseteq present
        BY ScannedArePresent
      <3>2. present \subseteq 1 .. Len(inbox) /\ Len(inbox) \in Nat /\ Len(inbox) <= MaxMail
        BY DEF TypeOK
      <3>3. 1 .. Len(inbox) \subseteq Uid
        BY <3>2, MailSyncAssumption DEF Uid
      <3>4. QED
        BY <3>1, <3>2, <3>3
    <2>3. LastUid(scanned) \in 0 .. MaxMail
      <3>1. cursor \in 0 .. MaxMail /\ Len(inbox) \in Nat
        BY DEF TypeOK
      <3>2. LastUid(scanned) = cursor \/ LastUid(scanned) \in scanned
        BY <2>2, <3>1, LastUidIsScanned
      <3>3. QED
        BY <2>2, <3>1, <3>2, MailSyncAssumption DEF Uid
    <2>4. refreshed \subseteq Mailbox /\ Incremental(kind) \in BOOLEAN
      BY DEF Here, Incremental
    <2>5. [caller[c] EXCEPT !.pc = "storing", !.refreshed = refreshed, !.scanned = scanned,
                            !.first = ~Incremental(kind), !.last = LastUid(scanned)] \in Call
      BY <2>1, <2>2, <2>3, <2>4 DEF Call
    <2>6. caller' = [caller EXCEPT ![c] =
             [caller[c] EXCEPT !.pc = "storing", !.refreshed = refreshed, !.scanned = scanned,
                               !.first = ~Incremental(kind), !.last = LastUid(scanned)]]
      BY <1>4 DEF Lead
    <2>7. caller' \in [Caller -> Call]
      BY <2>5, <2>6 DEF TypeOK
    <2>8. QED
      BY <1>4, <2>7 DEF Lead, apple, tables, TypeOK
  <1>5. ASSUME NEW c \in Caller, NothingToRead(c) \/ GiveUp(c) \/ Wait(c)
        PROVE  TypeOK'
    <2>1. /\ [NoCall EXCEPT !.outcome = "ok"] \in Call
          /\ [NoCall EXCEPT !.outcome = "error"] \in Call
          /\ [caller[c] EXCEPT !.pc = "waiting"] \in Call
      BY NoCallIsCall, CallUpdates DEF TypeOK
    <2>2. caller' \in [Caller -> Call]
      BY <1>5, <2>1 DEF NothingToRead, GiveUp, Wait, TypeOK
    <2>3. QED
      BY <1>5, <2>2 DEF NothingToRead, GiveUp, Wait, apple, tables, TypeOK
  <1>6. ASSUME NEW c \in Caller, Fail(c)
        PROVE  TypeOK'
    BY <1>6, FinishTypes DEF Fail, apple, tables, TypeOK
  <1>7. ASSUME NEW c \in Caller, Apply(c)
        PROVE  TypeOK'
    <2> DEFINE call == caller[c]
               new == [m \in Mailbox |-> {u \in Matched(call) \ stored[m] : inbox[u].to = m}]
    <2>1. call \in Call /\ Matched(call) \subseteq Uid /\ Excuse(call) \subseteq Uid
      BY MatchedAreUids DEF TypeOK
    <2>2. /\ caller' \in [Caller -> Call]
          /\ flight' \in Caller \cup {Nobody}
      BY <1>7, FinishTypes DEF Apply
    <2>3. CASE AllFound(call)
      <3>1. \A m \in Mailbox : new[m] \in SUBSET Uid /\ Cardinality(new[m]) \in Nat
        BY <2>1, UidsAreFinite
      <3>2. stored' \in [Mailbox -> SUBSET Uid]
        <4>1. stored' = [m \in Mailbox |-> stored[m] \cup new[m]]
          BY <1>7, <2>3 DEF Apply
        <4>2. QED
          BY <3>1, <4>1 DEF TypeOK
      <3>3. \A m \in Mailbox :
               /\ box[m] \in Box
               /\ \A last \in {clock, box[m].last} :
                     [box[m] EXCEPT !.count = @ + Cardinality(new[m]), !.last = last] \in Box
        <4>1. /\ \A m \in Mailbox : box[m] \in Box /\ box[m].last \in 0 .. Never
              /\ clock \in 0 .. Never
          BY MailSyncAssumption DEF TypeOK, Box, Never
        <4>2. QED
          BY <3>1, <4>1, BoxUpdates
      <3>4. box' \in [Mailbox -> Box]
        <4>1. \A m \in Mailbox : \E last \in {clock, box[m].last} :
                 box'[m] = box[m] \/
                 box'[m] = [box[m] EXCEPT !.count = @ + Cardinality(new[m]), !.last = last]
          BY <1>7, <2>3 DEF Apply
        <4>2. box' = [m \in Mailbox |-> box'[m]]
          BY <1>7, <2>3 DEF Apply
        <4>3. ASSUME NEW m \in Mailbox PROVE box'[m] \in Box
          BY <3>3, <4>1
        <4>4. QED
          BY <4>2, <4>3
      <3>5. cursor' \in 0 .. MaxMail /\ excused' \subseteq Uid
        BY <1>7, <2>1, <2>3 DEF Apply, TypeOK, Call
      <3>6. QED
        BY <1>7, <2>2, <3>2, <3>4, <3>5 DEF Apply, apple, TypeOK
    <2>4. CASE ~AllFound(call)
      BY <1>7, <2>2, <2>4 DEF Apply, apple, tables, TypeOK
    <2>5. QED
      BY <2>3, <2>4
  <1>8. ASSUME NEW m \in Mailbox, ImportMailbox(m) \/ Toggle(m)
        PROVE  TypeOK'
    <2>1. ASSUME NEW s \in {"enabled", "disabled"}
          PROVE  [box EXCEPT ![m].status = s] \in [Mailbox -> Box]
      <3>1. [box[m] EXCEPT !.status = s] \in Box
        BY DEF TypeOK, Box
      <3>2. QED
        BY <3>1 DEF TypeOK
    <2>2. box' \in [Mailbox -> Box]
      BY <1>8, <2>1 DEF ImportMailbox, Toggle
    <2>3. QED
      BY <1>8, <2>2 DEF ImportMailbox, Toggle, apple, calls, TypeOK
  <1>9. ASSUME NEW m \in Mailbox, DeleteMailbox(m)
        PROVE  TypeOK'
    <2>1. [Unknown EXCEPT !.status = "deleted"] \in Box
      BY MailSyncAssumption DEF Unknown, Box, Never
    <2>2. QED
      BY <1>9, <2>1 DEF DeleteMailbox, apple, calls, TypeOK
  <1>10. ASSUME NEW m \in Mailbox, NEW S \in SUBSET stored[m], DeleteMessages(m, S)
         PROVE  TypeOK'
    <2>1. stored' \in [Mailbox -> SUBSET Uid] /\ S \subseteq Uid
      BY <1>10 DEF DeleteMessages, TypeOK
    <2>2. Cardinality(stored'[m]) \in Nat
      BY <2>1, UidsAreFinite
    <2>3. box' \in [Mailbox -> Box]
      BY <1>10, <2>2 DEF DeleteMessages, TypeOK, Box
    <2>4. QED
      BY <1>10, <2>1, <2>3 DEF DeleteMessages, apple, calls, TypeOK
  <1>11. ASSUME NEW u \in Uid, Expunge(u)
         PROVE  TypeOK'
    BY <1>11 DEF Expunge, tables, calls, TypeOK
  <1>12. CASE UNCHANGED vars
    BY <1>12 DEF vars, TypeOK
  <1>13. QED
    BY <1>1, <1>2, <1>3, <1>4, <1>5, <1>6, <1>7, <1>8, <1>9, <1>10, <1>11, <1>12
    DEF Next, CallStep, AnswerStep, AdminStep

\* Every variable stays in its type.
THEOREM TypeCorrect == Spec => []TypeOK
  BY TypeInit, TypeStep, PTL DEF Spec

---------------------------------------------------------------------------
(* The counter                                                              *)

Live == {"enabled", "disabled"}

\* One mailbox agrees with its messages.  The last conjunct is what makes it
\* inductive: an import counts from zero.
RowCounted(row, messages) ==
    /\ messages # {} => row.status \in Live
    /\ row.status \in Live => row.count = Cardinality(messages)
    /\ row.status = "unknown" => row.count = 0

Counted == \A m \in Mailbox : RowCounted(box[m], stored[m])

LEMMA CountedIsEnough == Counted => MessagesCounted
  BY DEF Counted, RowCounted, MessagesCounted, Here, Live

LEMMA CountedInit == Init => Counted
  <1>1. Cardinality({}) = 0
    BY FS_EmptySet
  <1>2. QED
    BY <1>1 DEF Init, Counted, RowCounted, Unknown, Live

LEMMA CountedStep == TypeOK /\ Counted /\ [Next]_vars => Counted'
  <1> SUFFICES ASSUME TypeOK, Counted, [Next]_vars
               PROVE  Counted'
    OBVIOUS
  <1>0. Cardinality({}) = 0
    BY FS_EmptySet
  <1>1. ASSUME UNCHANGED <<box, stored>>
        PROVE  Counted'
    BY <1>1 DEF Counted
  <1>2. ASSUME NEW c \in Caller, Apply(c)
        PROVE  Counted'
    <2> DEFINE call == caller[c]
               new == [m \in Mailbox |-> {u \in Matched(call) \ stored[m] : inbox[u].to = m}]
    <2>1. CASE AllFound(call)
      <3>1. ASSUME NEW m \in Mailbox
            PROVE  RowCounted(box'[m], stored'[m])
        <4>1. /\ new[m] \in SUBSET Uid
              /\ stored[m] \in SUBSET Uid
              /\ stored[m] \cap new[m] = {}
          BY MatchedAreUids DEF TypeOK
        <4>2. stored'[m] = stored[m] \cup new[m]
          BY <1>2, <2>1 DEF Apply
        <4>3. RowCounted(box[m], stored[m])
          BY DEF Counted
        <4>4. CASE m \in call.refreshed
          <5>1. box[m].status \in Live
            BY <2>1, <4>4 DEF AllFound, Here, Live
          <5>2. /\ box'[m].status = box[m].status
                /\ box'[m].count = box[m].count + Cardinality(new[m])
            <6>1. box[m] \in Box
              BY DEF TypeOK
            <6>2. box'[m] = [box[m] EXCEPT
                      !.count = @ + Cardinality(new[m]),
                      !.last = IF new[m] # {} \/ (box[m].last = Never \/ clock >= box[m].last + Heartbeat)
                               THEN clock ELSE @]
              BY <1>2, <2>1, <4>4 DEF Apply
            <6> HIDE DEF new
            <6>3. QED
              BY <6>1, <6>2 DEF Box
          <5>3. Cardinality(stored'[m]) = Cardinality(stored[m]) + Cardinality(new[m])
            BY <4>1, <4>2, AddedAreCounted
          <5>4. QED
            BY <4>3, <5>1, <5>2, <5>3 DEF RowCounted, Live
        <4>5. CASE m \notin call.refreshed
          <5>1. box'[m] = box[m]
            BY <1>2, <2>1, <4>5 DEF Apply
          <5>2. new[m] = {}
            BY <4>5 DEF Matched
          <5>3. stored'[m] = stored[m]
            BY <4>2, <5>2
          <5>4. QED
            BY <4>3, <5>1, <5>3
        <4>6. QED
          BY <4>4, <4>5
      <3>2. QED
        BY <3>1 DEF Counted
    <2>2. CASE ~AllFound(call)
      BY <1>1, <1>2, <2>2 DEF Apply, tables
    <2>3. QED
      BY <2>1, <2>2
  <1>3. ASSUME NEW m \in Mailbox, ImportMailbox(m)
        PROVE  Counted'
    <2>1. /\ stored' = stored
          /\ box' = [box EXCEPT ![m] = [box[m] EXCEPT !.status = "enabled"]]
          /\ box[m].status = "unknown"
      BY <1>3 DEF ImportMailbox
    <2>2. stored[m] = {} /\ box[m].count = 0
      BY <2>1 DEF Counted, RowCounted, Live
    <2>3. /\ box'[m].status = "enabled" /\ box'[m].count = box[m].count
          /\ \A n \in Mailbox \ {m} : box'[n] = box[n]
      BY <2>1 DEF TypeOK, Box
    <2>4. QED
      BY <1>0, <2>1, <2>2, <2>3 DEF Counted, RowCounted, Live
  <1>4. ASSUME NEW m \in Mailbox, Toggle(m)
        PROVE  Counted'
    <2>1. /\ stored' = stored
          /\ box[m].status \in Live
          /\ box'[m].status \in Live /\ box'[m].count = box[m].count
          /\ \A n \in Mailbox \ {m} : box'[n] = box[n]
      BY <1>4 DEF Toggle, Here, Live, TypeOK, Box
    <2>2. QED
      BY <2>1 DEF Counted, RowCounted, Live
  <1>5. ASSUME NEW m \in Mailbox, DeleteMailbox(m)
        PROVE  Counted'
    <2>1. /\ stored'[m] = {} /\ box'[m].status = "deleted"
          /\ \A n \in Mailbox \ {m} : box'[n] = box[n] /\ stored'[n] = stored[n]
      BY <1>5 DEF DeleteMailbox, Unknown, TypeOK
    <2>2. QED
      BY <2>1 DEF Counted, RowCounted, Live
  <1>6. ASSUME NEW m \in Mailbox, NEW S \in SUBSET stored[m], DeleteMessages(m, S)
        PROVE  Counted'
    <2>1. /\ stored[m] # {}
          /\ box'[m].status = box[m].status
          /\ box'[m].count = Cardinality(stored'[m])
          /\ \A n \in Mailbox \ {m} : box'[n] = box[n] /\ stored'[n] = stored[n]
      BY <1>6 DEF DeleteMessages, TypeOK, Box
    <2>2. QED
      BY <2>1 DEF Counted, RowCounted, Live
  <1>7. QED
    BY <1>1, <1>2, <1>3, <1>4, <1>5, <1>6
    DEF Next, CallStep, AnswerStep, AdminStep, vars, tables, apple,
        Arrive, Tick, Request, Lead, NothingToRead, Wait, GiveUp, Fail, Expunge

\* ReceiveCount is the number of stored messages in every reachable state, and
\* no message outlives its mailbox.
THEOREM CountedAlways == Spec => []MessagesCounted
  BY TypeCorrect, CountedInit, CountedStep, CountedIsEnough, PTL DEF Spec

---------------------------------------------------------------------------
(* The cursor                                                               *)

\* A mail the cursor may be behind: stored in its mailbox, or excused.
Settled(u) == inbox[u].code => u \in stored[inbox[u].to] \cup excused

\* What a read that is about to be stored has seen: it holds the flight, its
\* new cursor is that of a mail, and behind the old cursor it has left out no
\* mail up to the new one that is still there.
Reading(c) ==
    LET call == caller[c] IN
    /\ flight = c
    /\ call.last <= Len(inbox)
    /\ call.scanned \subseteq 1 .. Len(inbox)
    /\ (call.kind # "bulk" /\ ~call.first) =>
          \A u \in present : (cursor < u /\ u <= call.last) => u \in call.scanned

CursorInv ==
    /\ cursor <= Len(inbox)
    /\ \A u \in 1 .. cursor : Settled(u)
    /\ \A c \in Caller : caller[c].pc = "storing" => Reading(c)

\* A limited read behind the cursor takes the first mails: it leaves out none
\* that is older than the last one it takes.
LEMMA FirstLeavesNoGap ==
  ASSUME NEW n \in Nat, NEW S \in SUBSET (1 .. n),
         NEW limit \in Nat, NEW last \in FirstOf(S, limit), NEW u \in S, u <= last
  PROVE  u \in FirstOf(S, limit)
  <1> DEFINE Before(x) == {v \in S : v < x}
  <1>0. \A x \in S : x \in Int
    OBVIOUS
  <1>1. IsFiniteSet(S)
    <2>1. IsFiniteSet(1 .. n)
      BY FS_Interval
    <2>2. QED
      BY <2>1, FS_Subset
  <1>2. IsFiniteSet(Before(last)) /\ IsFiniteSet(Before(u))
    BY <1>1, FS_Subset
  <1>3. last \in S /\ Cardinality(Before(last)) < limit
    BY DEF FirstOf
  <1>4. Before(u) \subseteq Before(last)
    <2>1. u \in Int /\ last \in Int /\ u <= last
      BY <1>0, <1>3
    <2>2. ASSUME NEW v \in S, v < u
          PROVE  v < last
      BY <1>0, <2>1, <2>2
    <2>3. QED
      BY <2>2
  <1>5. Cardinality(Before(u)) <= Cardinality(Before(last))
    BY <1>2, <1>4, FS_Subset
  <1>6. Cardinality(Before(u)) \in Nat /\ Cardinality(Before(last)) \in Nat
    BY <1>2, FS_CardinalityType
  <1>7. Cardinality(Before(u)) < limit
    BY <1>3, <1>5, <1>6
  <1>8. QED
    BY <1>7 DEF FirstOf

LEMMA IncrementalLeavesNoGap ==
  ASSUME TypeOK, NEW call, call.kind # "bulk", Incremental(call.kind),
         NEW u \in present, cursor < u, u <= LastUid(Scanned(call))
  PROVE  u \in Scanned(call)
  <1> DEFINE new == {v \in present : v > cursor}
  <1>1. /\ Len(inbox) \in Nat /\ present \in SUBSET (1 .. Len(inbox))
        /\ cursor \in Nat
    BY DEF TypeOK
  <1>2. Hits(call) = new /\ FetchLimit(call.kind) \in Nat
    BY MailSyncAssumption DEF Hits, FetchLimit
  <1>3. Scanned(call) = FirstOf(new, FetchLimit(call.kind))
    BY <1>2 DEF Scanned
  <1>4. Scanned(call) \in SUBSET (1 .. Len(inbox))
    BY <1>1, <1>3 DEF FirstOf
  <1>5. LastUid(Scanned(call)) \in Scanned(call)
    <2>1. u \in Nat /\ LastUid(Scanned(call)) # cursor
      BY <1>1
    <2>2. QED
      BY <1>1, <1>4, <2>1, LastUidIsScanned
  <1>6. new \in SUBSET (1 .. Len(inbox)) /\ u \in new
    BY <1>1
  <1>7. QED
    <2> HIDE DEF new
    <2>1. LastUid(Scanned(call)) \in FirstOf(new, FetchLimit(call.kind))
      BY <1>3, <1>5
    <2>2. u \in FirstOf(new, FetchLimit(call.kind))
      BY <1>1, <1>2, <1>6, <2>1, FirstLeavesNoGap
    <2>3. QED
      BY <1>3, <2>2

LEMMA CursorInit == Init => CursorInv
  BY DEF Init, CursorInv, NoCall

\* A caller that is storing after a flight has ended was not storing before:
\* the flight had one leader.
LEMMA NobodyReadsAfter ==
  ASSUME TypeOK, CursorInv, NEW c \in Caller, caller[c].pc = "storing",
         NEW outcome, Finish(c, outcome), NEW w \in Caller
  PROVE  caller'[w].pc # "storing"
  <1>1. caller[w].pc = "storing" => w = c
    BY DEF CursorInv, Reading
  <1>2. CASE w = c \/ (caller[w].pc = "waiting" /\ Signature(w) = Signature(c))
    <2>1. caller'[w] = [NoCall EXCEPT !.outcome = outcome]
      BY <1>2 DEF Finish
    <2>2. QED
      BY <2>1 DEF NoCall
  <1>3. CASE ~(w = c \/ (caller[w].pc = "waiting" /\ Signature(w) = Signature(c)))
    <2>1. caller[w] \in Call
      BY DEF TypeOK
    <2>2. caller'[w] = IF caller[w].pc = "waiting" THEN [caller[w] EXCEPT !.pc = "asking"]
                       ELSE caller[w]
      BY <1>3 DEF Finish
    <2>3. QED
      BY <1>1, <1>3, <2>1, <2>2 DEF Call
  <1>4. QED
    BY <1>2, <1>3

\* A read goes on while others act: new mail has greater UIDs than the read has
\* seen, and mail that goes away is none that it could leave out.
LEMMA ReadingKept ==
  ASSUME TypeOK, CursorInv, NEW w \in Caller, caller[w].pc = "storing",
         caller'[w] = caller[w], flight' = flight, cursor' = cursor,
         NEW n \in Nat, n = Len(inbox'), Len(inbox) <= n,
         \A u \in present' : u \in present \/ (u \in Nat /\ u > Len(inbox))
  PROVE  Reading(w)'
  <1>1. Reading(w)
    BY DEF CursorInv
  <1>2. /\ Len(inbox) \in Nat /\ cursor \in Nat /\ caller[w].last \in Nat
        /\ present \subseteq 1 .. Len(inbox)
    BY DEF TypeOK, Call
  <1>3. caller'[w].last <= Len(inbox') /\ caller'[w].scanned \subseteq 1 .. Len(inbox')
    BY <1>1, <1>2 DEF Reading
  <1>4. ASSUME caller'[w].kind # "bulk", ~caller'[w].first,
               NEW u \in present', cursor' < u, u <= caller'[w].last
        PROVE  u \in caller'[w].scanned
    <2>1. caller[w].last <= Len(inbox)
      BY <1>1 DEF Reading
    <2>2. u \in present
      <3>1. u <= caller[w].last
        BY <1>4
      <3>2. u \in present \/ (u \in Nat /\ u > Len(inbox))
        BY <1>4
      <3>3. CASE u \in Nat /\ u > Len(inbox)
        <4>1. caller[w].last < u
          BY <1>2, <2>1, <3>3
        <4>2. QED
          BY <1>2, <3>1, <4>1
      <3>4. QED
        BY <3>2, <3>3
    <2>3. QED
      BY <1>1, <1>4, <2>2 DEF Reading
  <1>5. QED
    BY <1>1, <1>3, <1>4 DEF Reading

\* A cursor that stays leaves settled what was settled, as long as no message
\* is lost without an excuse.
LEMMA SettledKept ==
  ASSUME TypeOK, CursorInv, cursor' = cursor,
         \A u \in 1 .. Len(inbox) : inbox'[u] = inbox[u],
         \A m \in Mailbox : stored[m] \cup excused \subseteq stored'[m] \cup excused'
  PROVE  \A u \in 1 .. cursor' : Settled(u)'
  <1> SUFFICES ASSUME NEW u \in 1 .. cursor
               PROVE  Settled(u)'
    OBVIOUS
  <1>1. u \in 1 .. Len(inbox) /\ Settled(u)
    BY DEF TypeOK, CursorInv
  <1>2. inbox[u].to \in Mailbox
    BY <1>1, InboxTypes
  <1>3. QED
    BY <1>1, <1>2 DEF Settled

\* Storing a read settles every mail up to its new cursor.
LEMMA ApplySettles ==
  ASSUME TypeOK, CursorInv, NEW c \in Caller, Apply(c), AllFound(caller[c]),
         NEW u \in 1 .. cursor'
  PROVE  Settled(u)'
  <1> DEFINE call == caller[c]
             new == [m \in Mailbox |-> {v \in Matched(call) \ stored[m] : inbox[v].to = m}]
  <1>1. /\ Reading(c)
        /\ inbox' = inbox
        /\ call.pc = "storing"
    BY DEF Apply, apple, CursorInv
  <1>2. \A m \in Mailbox : stored[m] \subseteq stored'[m] /\ new[m] \subseteq stored'[m]
    <2>1. stored' = [m \in Mailbox |-> stored[m] \cup new[m]]
      BY DEF Apply
    <2> HIDE DEF new
    <2>2. QED
      BY <2>1
  <1>3. /\ Len(inbox) \in Nat /\ cursor \in Nat /\ call.last \in Nat
        /\ cursor <= Len(inbox) /\ call.last <= Len(inbox)
    BY <1>1 DEF TypeOK, Call, CursorInv, Reading
  <1>4. CASE call.kind = "bulk"
    <2>1. cursor' = cursor /\ excused' = excused
      BY <1>4 DEF Apply
    <2>2. QED
      BY <1>1, <1>2, <2>1, SettledKept
  <1>5. CASE call.kind # "bulk"
    <2>1. cursor' = call.last /\ excused' = excused \cup Excuse(call)
      BY <1>5 DEF Apply
    <2>2. u \in 1 .. Len(inbox) /\ u \in 1 .. call.last
      BY <1>3, <2>1
    <2>3. inbox[u].to \in Mailbox
      BY <2>2, InboxTypes
    <2> SUFFICES ASSUME inbox[u].code, u \notin Excuse(call)
                 PROVE  u \in stored'[inbox[u].to] \cup excused'
      BY <1>1, <2>1 DEF Settled
    <2>4. /\ u \in present \cup call.scanned
          /\ inbox[u].to \in call.refreshed
          /\ ~Overdue(call, u)
          /\ call.first => u \in call.scanned
      BY <2>2 DEF Excuse
    <2>5. CASE u \in call.scanned
      <3>1. u \in Matched(call)
        BY <2>4, <2>5 DEF Matched
      <3>2. u \in stored[inbox[u].to] \/ u \in new[inbox[u].to]
        BY <2>3, <3>1
      <3>3. QED
        BY <1>2, <2>3, <3>2
    <2>6. CASE u \notin call.scanned
      <3>1. u <= cursor
        BY <1>1, <1>3, <1>5, <2>2, <2>4, <2>6 DEF Reading
      <3>2. Settled(u)
        BY <1>3, <2>2, <3>1 DEF CursorInv
      <3>3. QED
        BY <1>2, <2>1, <2>3, <3>2 DEF Settled
    <2>7. QED
      BY <2>5, <2>6
  <1>6. QED
    BY <1>4, <1>5

LEMMA CursorStep == TypeOK /\ CursorInv /\ [Next]_vars => CursorInv'
  <1> SUFFICES ASSUME TypeOK, CursorInv, [Next]_vars
               PROVE  CursorInv'
    OBVIOUS
  <1>0. /\ Len(inbox) \in Nat /\ cursor \in Nat /\ cursor <= Len(inbox)
        /\ present \subseteq 1 .. Len(inbox)
        /\ Nobody \notin Caller
    BY MailSyncAssumption DEF TypeOK, CursorInv
  \* Steps that touch neither the mail nor the tables keep what is settled; what
  \* is left to show is that the callers that store still read.
  <1>1. ASSUME UNCHANGED apple, UNCHANGED <<cursor, stored, excused>>,
               \A c \in Caller : caller'[c].pc = "storing" =>
                  Reading(c)' \/ (caller'[c] = caller[c] /\ flight' = flight)
        PROVE  CursorInv'
    <2>1. \A u \in 1 .. cursor' : Settled(u)'
      BY <1>1, SettledKept DEF apple
    <2>2. ASSUME NEW c \in Caller, caller'[c].pc = "storing"
          PROVE  Reading(c)'
      BY <1>0, <1>1, <2>2, ReadingKept DEF apple
    <2>3. QED
      BY <1>0, <1>1, <2>1, <2>2 DEF CursorInv, apple
  \* Steps that leave the calls alone keep the reads.
  <1>2. ASSUME UNCHANGED calls, UNCHANGED cursor, UNCHANGED inbox, present' \subseteq present,
               \A m \in Mailbox : stored[m] \cup excused \subseteq stored'[m] \cup excused'
        PROVE  CursorInv'
    <2>1. \A u \in 1 .. cursor' : Settled(u)'
      BY <1>2, SettledKept
    <2>2. ASSUME NEW c \in Caller, caller'[c].pc = "storing"
          PROVE  Reading(c)'
      <3>1. /\ caller' = caller /\ flight' = flight /\ cursor' = cursor
            /\ Len(inbox') = Len(inbox) /\ Len(inbox) <= Len(inbox)
        BY <1>0, <1>2 DEF calls
      <3>2. \A u \in present' : u \in present
        BY <1>2
      <3>3. QED
        BY <1>0, <2>2, <3>1, <3>2, ReadingKept
    <2>3. QED
      BY <1>0, <1>2, <2>1, <2>2 DEF CursorInv
  <1>3. ASSUME NEW m \in Mailbox, NEW code \in BOOLEAN, NEW sent \in 0 .. clock,
               Arrive(m, code, sent)
        PROVE  CursorInv'
    <2>1. inbox \in Seq(Mail) /\ inbox' = Append(inbox, [to |-> m, code |-> code, sent |-> sent, arrived |-> clock])
      BY <1>3 DEF Arrive, TypeOK
    <2>2. /\ Len(inbox') = Len(inbox) + 1
          /\ \A u \in 1 .. Len(inbox) : inbox'[u] = inbox[u]
      BY <2>1
    <2>3. \A u \in 1 .. cursor' : Settled(u)'
      BY <1>3, <2>2, SettledKept DEF Arrive, tables
    <2>4. present' = present \cup {Len(inbox) + 1}
      BY <1>3, <2>2 DEF Arrive
    <2>5. \A u \in present' : u \in present \/ (u \in Nat /\ u > Len(inbox))
      BY <1>0, <2>4
    <2>6. ASSUME NEW c \in Caller, caller'[c].pc = "storing"
          PROVE  Reading(c)'
      <3>1. /\ caller' = caller /\ flight' = flight /\ cursor' = cursor
            /\ Len(inbox) + 1 \in Nat /\ Len(inbox) <= Len(inbox) + 1
        BY <1>0, <1>3 DEF Arrive, calls, tables
      <3>2. QED
        BY <2>2, <2>5, <2>6, <3>1, ReadingKept
    <2>7. cursor' <= Len(inbox')
      BY <1>0, <1>3, <2>2 DEF Arrive, tables
    <2>8. QED
      BY <2>3, <2>6, <2>7 DEF CursorInv
  <1>4. CASE Tick
    BY <1>2, <1>4 DEF Tick, tables, calls
  <1>5. ASSUME NEW c \in Caller, NEW kind \in Kind, NEW m \in Mailbox, Request(c, kind, m)
        PROVE  CursorInv'
    <2>1. caller'[c].pc # "storing" /\ \A w \in Caller \ {c} : caller'[w] = caller[w]
      BY <1>5 DEF Request, NoCall, TypeOK
    <2>2. QED
      BY <1>1, <1>5, <2>1 DEF Request, apple, tables
  <1>6. ASSUME NEW c \in Caller, Lead(c)
        PROVE  CursorInv'
    <2> DEFINE kind == caller[c].kind
    <2>1. /\ flight = Nobody
          /\ \A w \in Caller : caller[w].pc # "storing"
      BY <1>0, <1>6 DEF Lead, CursorInv, Reading
    <2>2. /\ UNCHANGED apple /\ UNCHANGED tables /\ flight' = c
          /\ \A w \in Caller \ {c} : caller'[w] = caller[w]
          /\ caller'[c].kind = kind
          /\ caller'[c].scanned = Scanned(caller[c])
          /\ caller'[c].first = ~Incremental(kind)
          /\ caller'[c].last = LastUid(Scanned(caller[c]))
      BY <1>6 DEF Lead, TypeOK, Call
    <2>3. Scanned(caller[c]) \in SUBSET (1 .. Len(inbox))
      <3>1. Scanned(caller[c]) \subseteq present
        BY ScannedArePresent
      <3>2. QED
        BY <1>0, <3>1
    <2>4. LastUid(Scanned(caller[c])) <= Len(inbox)
      <3>1. \/ LastUid(Scanned(caller[c])) = cursor
            \/ LastUid(Scanned(caller[c])) \in Scanned(caller[c])
        BY <1>0, <2>3, LastUidIsScanned
      <3>2. QED
        BY <1>0, <2>3, <3>1
    <2>5. ASSUME kind # "bulk", Incremental(kind),
                 NEW u \in present, cursor < u, u <= LastUid(Scanned(caller[c]))
          PROVE  u \in Scanned(caller[c])
      BY <2>5, IncrementalLeavesNoGap
    <2>6. Reading(c)'
      BY <2>2, <2>3, <2>4, <2>5 DEF Reading, apple, tables
    <2>7. \A w \in Caller : caller'[w].pc = "storing" => w = c
      BY <2>1, <2>2
    <2>8. QED
      BY <1>1, <2>2, <2>6, <2>7 DEF tables
  <1>7. ASSUME NEW c \in Caller, NothingToRead(c) \/ Wait(c) \/ GiveUp(c)
        PROVE  CursorInv'
    <2>1. caller'[c].pc # "storing" /\ \A w \in Caller \ {c} : caller'[w] = caller[w]
      BY <1>7 DEF NothingToRead, Wait, GiveUp, NoCall, TypeOK, Call
    <2>2. QED
      BY <1>1, <1>7, <2>1 DEF NothingToRead, Wait, GiveUp, apple, tables
  <1>8. ASSUME NEW c \in Caller, Fail(c)
        PROVE  CursorInv'
    <2>1. \A w \in Caller : caller'[w].pc # "storing"
      BY <1>8, NobodyReadsAfter DEF Fail
    <2>2. QED
      BY <1>1, <1>8, <2>1 DEF Fail, tables
  <1>9. ASSUME NEW c \in Caller, Apply(c)
        PROVE  CursorInv'
    <2>1. \A w \in Caller : caller'[w].pc # "storing"
      BY <1>9, NobodyReadsAfter DEF Apply
    <2>2. CASE AllFound(caller[c])
      <3>1. \A u \in 1 .. cursor' : Settled(u)'
        BY <1>9, <2>2, ApplySettles
      <3>2. cursor' <= Len(inbox')
        <4>1. caller[c].last <= Len(inbox)
          BY <1>9 DEF Apply, CursorInv, Reading
        <4>2. QED
          BY <1>0, <1>9, <2>2, <4>1 DEF Apply, apple
      <3>3. QED
        BY <2>1, <3>1, <3>2 DEF CursorInv
    <2>3. CASE ~AllFound(caller[c])
      BY <1>1, <1>9, <2>1, <2>3 DEF Apply, tables
    <2>4. QED
      BY <2>2, <2>3
  <1>10. ASSUME NEW m \in Mailbox, ImportMailbox(m) \/ Toggle(m)
         PROVE  CursorInv'
    BY <1>2, <1>10 DEF ImportMailbox, Toggle, apple
  <1>11. ASSUME NEW m \in Mailbox, DeleteMailbox(m)
         PROVE  CursorInv'
    BY <1>2, <1>11 DEF DeleteMailbox, apple, TypeOK
  <1>12. ASSUME NEW m \in Mailbox, NEW S \in SUBSET stored[m], DeleteMessages(m, S)
         PROVE  CursorInv'
    BY <1>2, <1>12 DEF DeleteMessages, apple, TypeOK
  <1>13. ASSUME NEW u \in Uid, Expunge(u)
         PROVE  CursorInv'
    BY <1>2, <1>13 DEF Expunge, tables
  <1>14. CASE UNCHANGED vars
    BY <1>2, <1>14 DEF vars, calls
  <1>15. QED
    BY <1>3, <1>4, <1>5, <1>6, <1>7, <1>8, <1>9, <1>10, <1>11, <1>12, <1>13, <1>14
    DEF Next, CallStep, AnswerStep, AdminStep

LEMMA CursorIsEnough == CursorInv => NoCodePassedOver
  BY DEF CursorInv, Settled, NoCodePassedOver

\* In every reachable state a code mail behind the cursor is stored in its
\* mailbox or excused, whatever the fetch limit and whoever read, failed,
\* deleted or expunged in between.
THEOREM CodesNeverPassedOver == Spec => []NoCodePassedOver
  BY TypeCorrect, CursorInit, CursorStep, CursorIsEnough, PTL DEF Spec

=============================================================================
