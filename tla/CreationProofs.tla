----------------------------- MODULE CreationProofs -----------------------------
(****************************************************************************)
(* What is proved of the creation form of the tasks page: once no save is   *)
(* pending or on its way, the server has what the form shows, for any       *)
(* values and any number of saves in flight.  The inductive invariant says  *)
(* of the save that reaches the server last what it carries: what the form  *)
(* shows, or what the settings dialog sent and will show in the form.       *)
(****************************************************************************)
EXTENDS DeletionProofs   \* for ImageCounts

LEMMA CreateCountOf == \A S : Create!Cardinality(S) = Cardinality(S)
BY DEF Create!Cardinality, Cardinality

-----------------------------------------------------------------------------
(* Saves in flight                                                           *)

\* They have different numbers, none larger than their count.
Numbered(P) ==
    /\ P \subseteq Create!Put /\ IsFiniteSet(P) /\ Cardinality(P) <= MaxPuts
    /\ \A p, q \in P : p.no = q.no => p = q
    /\ \A p \in P : p.no <= Cardinality(P)

\* What the server will have when the saves P have reached it in their order
Lands(P, s, v) ==
    \/ \E p \in P : /\ ~p.processed /\ p.value = v
                    /\ \A q \in P : ~q.processed => q.no <= p.no
    \/ (\A p \in P : p.processed) /\ s = v

DialogIn(P) == \E p \in P : p.kind = "dialog"
OneDialog(P) == \A p, q \in P : p.kind = "dialog" /\ q.kind = "dialog" => p = q
OnlyDialogs(P) == \A p \in P : p.kind = "dialog"

\* The form shows it, or will when the dialog's save is answered.
Shows(P, s, v) ==
    Lands(P, s, v) \/ \E d \in P : d.kind = "dialog" /\ Lands(P, s, d.value)

\* The saves P are the saves Q under other numbers, in the same order, new or outdated.
SameSaves(P, Q) ==
    \E g \in [Q -> P] :
       /\ \A p \in P : \E q \in Q : g[q] = p
       /\ \A q \in Q : /\ g[q].kind = q.kind /\ g[q].value = q.value
                       /\ g[q].processed = q.processed /\ g[q].no <= Cardinality(Q)
       /\ \A q, r \in Q : q.no < r.no => g[q].no < g[r].no

LEMMA SavesTyped ==
    \A p \in Create!Put : /\ p.no \in 1 .. MaxPuts /\ p.no \in Nat
                          /\ p.kind \in {"auto", "dialog"} /\ p.value \in Value
BY ConsoleAssumption DEF Create!Put

LEMMA SameLands ==
    ASSUME NEW P, NEW Q, SameSaves(P, Q), P \subseteq Create!Put, Q \subseteq Create!Put,
           \A p, q \in Q : p.no = q.no => p = q, NEW s, NEW v, Lands(Q, s, v)
    PROVE  Lands(P, s, v)
<1>1. PICK g \in [Q -> P] :
         /\ \A p \in P : \E q \in Q : g[q] = p
         /\ \A q \in Q : g[q].value = q.value /\ g[q].processed = q.processed
         /\ \A q, r \in Q : q.no < r.no => g[q].no < g[r].no
    BY DEF SameSaves
<1>2. CASE (\A q \in Q : q.processed) /\ s = v
    BY <1>1, <1>2 DEF Lands
<1>3. CASE \E q \in Q : /\ ~q.processed /\ q.value = v
                        /\ \A r \in Q : ~r.processed => r.no <= q.no
    <2>1. PICK q \in Q : /\ ~q.processed /\ q.value = v
                         /\ \A r \in Q : ~r.processed => r.no <= q.no
        BY <1>3
    <2>2. g[q] \in P /\ ~g[q].processed /\ g[q].value = v
        BY <1>1, <2>1
    <2>3. ASSUME NEW p \in P, ~p.processed, p # g[q] PROVE p.no < g[q].no
        <3>1. PICK r \in Q : g[r] = p
            BY <1>1
        <3>2. r.no <= q.no /\ r # q
            BY <1>1, <2>1, <2>3, <3>1
        <3>3. r.no # q.no /\ r.no \in Nat /\ q.no \in Nat
            BY <3>2, SavesTyped
        <3>4. r.no < q.no
            BY <3>2, <3>3
        <3>. QED
            BY <1>1, <3>1, <3>4
    <2>4. \A p \in P : ~p.processed => p.no <= g[q].no
        <3>1. \A p \in P : p.no \in Nat
            BY SavesTyped
        <3>. QED
            BY <2>2, <2>3, <3>1
    <2>. QED
        BY <2>2, <2>4 DEF Lands
<1>. QED
    BY <1>2, <1>3 DEF Lands

LEMMA SameNumbered ==
    ASSUME NEW P, NEW Q, SameSaves(P, Q), P \subseteq Create!Put, Q \subseteq Create!Put,
           IsFiniteSet(Q), Cardinality(Q) <= MaxPuts, \A p, q \in Q : p.no = q.no => p = q
    PROVE  Numbered(P) /\ Cardinality(P) = Cardinality(Q)
<1>1. PICK g \in [Q -> P] :
         /\ \A p \in P : \E q \in Q : g[q] = p
         /\ \A q \in Q : g[q].no <= Cardinality(Q)
         /\ \A q, r \in Q : q.no < r.no => g[q].no < g[r].no
    BY DEF SameSaves
<1>2. ASSUME NEW q \in Q, NEW r \in Q, g[q].no = g[r].no PROVE q = r
    <2>1. q.no \in Nat /\ r.no \in Nat /\ g[q].no \in Nat /\ g[r].no \in Nat
        BY <1>1, SavesTyped
    <2>2. ~(q.no < r.no) /\ ~(r.no < q.no)
        BY <1>1, <1>2, <2>1
    <2>. QED
        BY <2>1, <2>2
<1>3. IsInjective(g) /\ DOMAIN g = Q /\ P = {g[q] : q \in Q}
    BY <1>1, <1>2 DEF IsInjective
<1>4. IsFiniteSet(P) /\ Cardinality(P) = Cardinality(Q)
    BY <1>3, ImageCounts
<1>. QED
    BY <1>1, <1>2, <1>4 DEF Numbered

\* Outdated answers and those of others that came stay the saves they are.
LEMMA OutdatedSame ==
    ASSUME NEW P, Numbered(P)
    PROVE  Create!Outdated(P) \subseteq Create!Put /\ SameSaves(Create!Outdated(P), P)
<1> DEFINE g == [p \in P |-> [p EXCEPT !.current = FALSE]]
<1>1. ASSUME NEW p \in P
      PROVE  /\ g[p] \in Create!Put /\ g[p].kind = p.kind /\ g[p].value = p.value
             /\ g[p].processed = p.processed /\ g[p].no = p.no
    <2>1. p \in Create!Put
        BY DEF Numbered
    <2>. QED
        BY <2>1 DEF Create!Put
<1>2. Create!Outdated(P) = {g[p] : p \in P}
    BY DEF Create!Outdated
<1> HIDE DEF g
<1>3. g \in [P -> Create!Outdated(P)]
    BY <1>2 DEF g
<1>. QED
    BY <1>1, <1>2, <1>3 DEF SameSaves, Numbered

LEMMA WithoutSame ==
    ASSUME NEW p \in puts, Numbered(puts)
    PROVE  /\ Create!Without(p) \subseteq Create!Put /\ SameSaves(Create!Without(p), puts \ {p})
           /\ IsFiniteSet(puts \ {p}) /\ Cardinality(puts \ {p}) = Cardinality(puts) - 1
           /\ Cardinality(puts) \in Nat
<1> DEFINE Q == puts \ {p}
           g == [q \in Q |-> [q EXCEPT !.no = Create!After(q.no, p.no)]]
<1>1. /\ IsFiniteSet(Q) /\ Cardinality(Q) = Cardinality(puts) - 1 /\ Cardinality(puts) \in Nat
    BY FS_RemoveElement, FS_CardinalityType DEF Numbered
<1>2. ASSUME NEW q \in Q
      PROVE  /\ Create!After(q.no, p.no) \in 1 .. Cardinality(Q)
             /\ Create!After(q.no, p.no) \in 1 .. MaxPuts
             /\ \A r \in Q : q.no < r.no => Create!After(q.no, p.no) < Create!After(r.no, p.no)
    <2>1. /\ \A r \in puts : r.no \in Nat /\ r.no >= 1 /\ r.no <= Cardinality(puts)
          /\ \A r \in Q : r.no # p.no
        BY SavesTyped DEF Numbered
    <2>2. Cardinality(puts) <= MaxPuts /\ MaxPuts \in Nat
        BY ConsoleAssumption DEF Numbered
    <2> HIDE DEF Q
    <2>3. q \in puts /\ p \in puts /\ \A r \in Q : r \in puts
        BY DEF Q
    <2>. QED
        BY <1>1, <2>1, <2>2, <2>3 DEF Create!After
<1>3. ASSUME NEW q \in Q
      PROVE  /\ g[q] \in Create!Put /\ g[q].kind = q.kind /\ g[q].value = q.value
             /\ g[q].processed = q.processed /\ g[q].no = Create!After(q.no, p.no)
    <2>1. q \in Create!Put
        BY DEF Numbered
    <2>. QED
        BY <1>2, <2>1 DEF Create!Put
<1>4. Create!Without(p) = {g[q] : q \in Q}
    BY DEF Create!Without
<1> HIDE DEF g, Q
<1>5. g \in [Q -> Create!Without(p)]
    BY <1>4 DEF g
<1>6. SameSaves(Create!Without(p), Q)
    BY <1>2, <1>3, <1>4, <1>5 DEF SameSaves
<1>. QED
    BY <1>1, <1>3, <1>4, <1>6 DEF Q

LEMMA SameKinds ==
    ASSUME NEW P, NEW Q, SameSaves(P, Q), P \subseteq Create!Put, Q \subseteq Create!Put,
           \A p, q \in Q : p.no = q.no => p = q, OneDialog(Q)
    PROVE  /\ OneDialog(P) /\ (DialogIn(P) <=> DialogIn(Q)) /\ (OnlyDialogs(Q) => OnlyDialogs(P))
           /\ \A s, v : Shows(Q, s, v) => Shows(P, s, v)
<1>1. PICK g \in [Q -> P] :
         /\ \A p \in P : \E q \in Q : g[q] = p
         /\ \A q \in Q : g[q].kind = q.kind /\ g[q].value = q.value
    BY DEF SameSaves
<1>2. OneDialog(P) /\ (DialogIn(P) <=> DialogIn(Q)) /\ (OnlyDialogs(Q) => OnlyDialogs(P))
    BY <1>1 DEF OneDialog, DialogIn, OnlyDialogs
<1>3. ASSUME NEW s, NEW v, Shows(Q, s, v) PROVE Shows(P, s, v)
    <2>1. CASE Lands(Q, s, v)
        BY <2>1, SameLands DEF Shows
    <2>2. ASSUME NEW d \in Q, d.kind = "dialog", Lands(Q, s, d.value) PROVE Shows(P, s, v)
        <3>1. Lands(P, s, d.value)
            BY <2>2, SameLands
        <3>. QED
            BY <1>1, <2>2, <3>1 DEF Shows
    <2>. QED
        BY <1>3, <2>1, <2>2 DEF Shows
<1>. QED
    BY <1>2, <1>3

\* A new save reaches the server last.
LEMMA SentLands ==
    ASSUME NEW P, Numbered(P), Cardinality(P) < MaxPuts, NEW k \in {"auto", "dialog"},
           NEW v \in Value, NEW R, R = Create!Sent(P, k, v)
    PROVE  /\ Numbered(R) /\ \A s : Lands(R, s, v)
           /\ \E n : n.kind = k /\ n.value = v /\ n \notin P /\ R = P \cup {n}
<1> DEFINE n == [no |-> Cardinality(P) + 1, kind |-> k, value |-> v, current |-> TRUE,
                 processed |-> FALSE]
<1>1. Create!Cardinality(P) = Cardinality(P) /\ Cardinality(P) \in Nat /\ MaxPuts \in Nat
    BY CreateCountOf, FS_CardinalityType, ConsoleAssumption DEF Numbered
<1>2. n \in Create!Put
    BY <1>1 DEF Create!Put
<1>3. R = P \cup {n}
    BY <1>1 DEF Create!Sent
<1>4. n.no = Cardinality(P) + 1 /\ n.kind = k /\ n.value = v /\ n.processed = FALSE
    OBVIOUS
<1> HIDE DEF n
<1>5. \A p \in P : p.no \in Nat /\ p.no <= Cardinality(P)
    BY SavesTyped DEF Numbered
<1>6. n \notin P
    BY <1>1, <1>4, <1>5
<1>7. IsFiniteSet(R) /\ Cardinality(R) = Cardinality(P) + 1
    BY <1>3, <1>6, FS_AddElement DEF Numbered
<1>8. Numbered(R)
    <2>1. \A p \in R : p.no <= Cardinality(R)
        BY <1>1, <1>3, <1>4, <1>5, <1>7
    <2>2. \A p, q \in R : p.no = q.no => p = q
        BY <1>1, <1>3, <1>4, <1>5 DEF Numbered
    <2>3. Cardinality(R) <= MaxPuts
        BY <1>1, <1>7
    <2>. QED
        BY <1>2, <1>3, <1>7, <2>1, <2>2, <2>3 DEF Numbered
<1>9. \A p \in R : p.no <= n.no
    BY <1>1, <1>3, <1>4, <1>5
<1>. QED
    BY <1>3, <1>4, <1>6, <1>8, <1>9 DEF Lands

\* When the oldest save is processed, what lands last stays what it was.
LEMMA ProcessedLands ==
    ASSUME NEW P, Numbered(P), NEW p \in P, ~p.processed, OneDialog(P),
           NEW R, R = (P \ {p}) \cup {[p EXCEPT !.processed = TRUE]}
    PROVE  /\ Numbered(R) /\ OneDialog(R) /\ (DialogIn(R) <=> DialogIn(P))
           /\ OnlyDialogs(P) => OnlyDialogs(R)
           /\ (~\E q \in P : q.no < p.no /\ ~q.processed)
              => \A s, v : Shows(P, s, v) => Shows(R, p.value, v)
<1> DEFINE n == [p EXCEPT !.processed = TRUE]
<1>1. n \in Create!Put /\ n.processed = TRUE /\ n.no = p.no /\ n.kind = p.kind /\ n.value = p.value
    BY DEF Create!Put, Numbered
<1>2. R = (P \ {p}) \cup {n}
    OBVIOUS
<1> HIDE DEF n
<1>3. n # p
    BY <1>1
<1>4. n \notin P
    BY <1>1, <1>3 DEF Numbered
<1>5. IsFiniteSet(R) /\ Cardinality(R) = Cardinality(P)
    <2>1. IsFiniteSet(P \ {p}) /\ Cardinality(P \ {p}) = Cardinality(P) - 1
        BY FS_RemoveElement DEF Numbered
    <2>2. IsFiniteSet(R) /\ Cardinality(R) = Cardinality(P \ {p}) + 1
        BY <1>2, <1>4, <2>1, FS_AddElement
    <2>. QED
        BY <2>1, <2>2, FS_CardinalityType DEF Numbered
<1>6. Numbered(R) /\ OneDialog(R) /\ (DialogIn(R) <=> DialogIn(P))
      /\ (OnlyDialogs(P) => OnlyDialogs(R))
    <2>1. Numbered(R)
        BY <1>1, <1>2, <1>5 DEF Numbered
    <2>. QED
        BY <1>1, <1>2, <2>1 DEF OneDialog, DialogIn, OnlyDialogs
<1>7. ASSUME ~\E q \in P : q.no < p.no /\ ~q.processed, NEW s, NEW v, Lands(P, s, v)
      PROVE  Lands(R, p.value, v)
    <2>1. PICK q \in P : /\ ~q.processed /\ q.value = v
                         /\ \A r \in P : ~r.processed => r.no <= q.no
        BY <1>7 DEF Lands
    <2>2. CASE q = p
        <3>1. ASSUME NEW r \in P, r # p PROVE r.processed
            <4>1. r.no # p.no /\ r.no \in Nat /\ p.no \in Nat
                BY <3>1, SavesTyped DEF Numbered
            <4>. QED
                BY <1>7, <2>1, <2>2, <4>1
        <3>. QED
            BY <1>1, <1>2, <2>1, <2>2, <3>1 DEF Lands
    <2>3. CASE q # p
        BY <1>1, <1>2, <2>1, <2>3 DEF Lands
    <2>. QED
        BY <2>2, <2>3
<1>8. ASSUME ~\E q \in P : q.no < p.no /\ ~q.processed, NEW s, NEW v, Shows(P, s, v)
      PROVE  Shows(R, p.value, v)
    <2>1. CASE Lands(P, s, v)
        BY <1>7, <1>8, <2>1 DEF Shows
    <2>2. ASSUME NEW d \in P, d.kind = "dialog", Lands(P, s, d.value) PROVE Shows(R, p.value, v)
        <3>1. Lands(R, p.value, d.value)
            BY <1>7, <1>8, <2>2
        <3>2. \E e \in R : e.kind = "dialog" /\ e.value = d.value
            BY <1>1, <1>2, <2>2
        <3>. QED
            BY <3>1, <3>2 DEF Shows
    <2>. QED
        BY <1>8, <2>1, <2>2 DEF Shows
<1>. QED
    BY <1>6, <1>8

\* An answer that came takes nothing away from what the server will have.
LEMMA AnsweredLands ==
    ASSUME NEW p \in puts, Numbered(puts), OneDialog(puts), NEW R, R = Create!Without(p)
    PROVE  /\ Numbered(R) /\ OneDialog(R)
           /\ p.kind = "dialog" => ~DialogIn(R)
           /\ p.kind # "dialog" => (DialogIn(R) <=> DialogIn(puts))
           /\ OnlyDialogs(puts) => OnlyDialogs(R)
           /\ p.processed => \A s, v : Lands(puts, s, v) => Lands(R, s, v)
           /\ p.processed /\ p.kind # "dialog" => \A s, v : Shows(puts, s, v) => Shows(R, s, v)
<1> DEFINE Q == puts \ {p}
<1>1. /\ R \subseteq Create!Put /\ SameSaves(R, Q) /\ IsFiniteSet(Q)
      /\ Cardinality(Q) = Cardinality(puts) - 1 /\ Cardinality(puts) \in Nat
    BY WithoutSame
<1>2. /\ Q \subseteq Create!Put /\ \A q, r \in Q : q.no = r.no => q = r
      /\ OneDialog(Q) /\ (OnlyDialogs(puts) => OnlyDialogs(Q))
      /\ (p.kind = "dialog" => ~DialogIn(Q))
      /\ (p.kind # "dialog" => (DialogIn(Q) <=> DialogIn(puts)))
    BY DEF Numbered, OneDialog, OnlyDialogs, DialogIn
<1>3. Cardinality(Q) <= MaxPuts
    BY <1>1, ConsoleAssumption DEF Numbered
<1>4. ASSUME p.processed, NEW s, NEW v, Lands(puts, s, v) PROVE Lands(Q, s, v)
    BY <1>4 DEF Lands
<1>5. ASSUME p.processed, p.kind # "dialog", NEW s, NEW v, Shows(puts, s, v)
      PROVE  Shows(Q, s, v)
    <2>1. CASE Lands(puts, s, v)
        BY <1>4, <1>5, <2>1 DEF Shows
    <2>2. ASSUME NEW d \in puts, d.kind = "dialog", Lands(puts, s, d.value)
          PROVE  Shows(Q, s, v)
        <3>1. d \in Q /\ Lands(Q, s, d.value)
            BY <1>4, <1>5, <2>2
        <3>. QED
            BY <2>2, <3>1 DEF Shows
    <2>. QED
        BY <1>5, <2>1, <2>2 DEF Shows
<1> HIDE DEF Q
<1>6. Numbered(R)
    BY <1>1, <1>2, <1>3, SameNumbered
<1>7. /\ OneDialog(R) /\ (DialogIn(R) <=> DialogIn(Q)) /\ (OnlyDialogs(Q) => OnlyDialogs(R))
      /\ \A s, v : Shows(Q, s, v) => Shows(R, s, v)
    BY <1>1, <1>2, SameKinds
<1>8. \A s, v : Lands(Q, s, v) => Lands(R, s, v)
    BY <1>1, <1>2, SameLands
<1>. QED
    BY <1>2, <1>4, <1>5, <1>6, <1>7, <1>8

-----------------------------------------------------------------------------
(* The invariant                                                             *)

FormTyped ==
    /\ setting \in Value /\ form \in Value /\ draft \in Value
    /\ settingsDialog \in {"closed", "open", "busy"}
    /\ initialized \in BOOLEAN /\ pending \in BOOLEAN
    /\ formLoad \in [at : {Create!None, "sent", "answered"}, value : Value]
    /\ left \in BOOLEAN /\ spoiled \in BOOLEAN

\* The dialog runs one save at a time, and before the first answer of load() is shown only
\* the dialog saves.
SavesKnown ==
    /\ Numbered(puts) /\ OneDialog(puts)
    /\ settingsDialog = "busy" <=> DialogIn(puts)
    /\ ~initialized => ~pending /\ OnlyDialogs(puts)

Kept ==
    ~spoiled => /\ left => settingsDialog # "busy"
                /\ initialized /\ ~pending => Shows(puts, setting, form)

CreateInv == FormTyped /\ SavesKnown /\ Kept

LEMMA CreateStarts == Create!Init => CreateInv
<1> SUFFICES ASSUME Create!Init PROVE CreateInv
    OBVIOUS
<1>1. Numbered(puts) /\ ~DialogIn(puts) /\ OneDialog(puts) /\ OnlyDialogs(puts)
    BY FS_EmptySet, ConsoleAssumption
    DEF Create!Init, Numbered, DialogIn, OneDialog, OnlyDialogs
<1>2. SavesKnown /\ Kept
    BY <1>1 DEF Create!Init, SavesKnown, Kept
<1>3. FormTyped
    BY DEF Create!Init, FormTyped
<1>. QED
    BY <1>2, <1>3 DEF CreateInv

\* The watcher of the form: outdated answers are the saves they were.
LEMMA FormWatched ==
    ASSUME NEW P, Numbered(P), OneDialog(P), NEW v \in Value, NEW w \in BOOLEAN,
           FormTyped, Create!FormBecomes(v, P, w)
    PROVE  /\ Numbered(puts') /\ OneDialog(puts') /\ (DialogIn(puts') <=> DialogIn(P))
           /\ OnlyDialogs(P) => OnlyDialogs(puts')
           /\ form' \in Value /\ pending' \in BOOLEAN /\ form' = v
           /\ w /\ ~pending' => ~pending /\ form = v /\ puts' = P
           /\ ~w => pending' = pending
<1>1. puts' = P \/ puts' = Create!Outdated(P)
    BY DEF Create!FormBecomes
<1>2. CASE puts' = Create!Outdated(P)
    <2>1. P \subseteq Create!Put /\ IsFiniteSet(P) /\ Cardinality(P) <= MaxPuts
          /\ \A p, q \in P : p.no = q.no => p = q
        BY DEF Numbered
    <2>2. Create!Outdated(P) \subseteq Create!Put /\ SameSaves(Create!Outdated(P), P)
        BY OutdatedSame
    <2>. QED
        BY <1>2, <2>1, <2>2, SameNumbered, SameKinds DEF Create!FormBecomes, FormTyped
<1>. QED
    BY <1>1, <1>2 DEF Create!FormBecomes, FormTyped

LEMMA CreatePreserved == CreateInv /\ [Create!Next]_(Create!vars) => CreateInv'
<1> SUFFICES ASSUME CreateInv, [Create!Next]_(Create!vars) PROVE CreateInv'
    OBVIOUS
<1>0. FormTyped /\ SavesKnown /\ Kept
    BY DEF CreateInv
<1> USE <1>0
<1>1. ASSUME NEW v \in Value, Create!EditForm(v) PROVE CreateInv'
    <2>1. /\ Create!FormBecomes(v, puts, initialized) /\ v # form
          /\ UNCHANGED <<setting, draft, settingsDialog, initialized, formLoad, left, spoiled>>
        BY <1>1 DEF Create!EditForm
    <2>2. /\ Numbered(puts') /\ OneDialog(puts') /\ (DialogIn(puts') <=> DialogIn(puts))
          /\ OnlyDialogs(puts) => OnlyDialogs(puts')
          /\ form' \in Value /\ pending' \in BOOLEAN
          /\ initialized => pending'
          /\ ~initialized => pending' = pending
        BY <2>1, FormWatched DEF SavesKnown, FormTyped
    <2>. QED
        BY <2>1, <2>2 DEF CreateInv, FormTyped, SavesKnown, Kept
<1>2. ASSUME Create!CreatedOne PROVE CreateInv'
    <2>1. /\ Create!FormBecomes(draft, puts, initialized)
          /\ UNCHANGED <<setting, draft, settingsDialog, initialized, formLoad, left, spoiled>>
        BY <1>2 DEF Create!CreatedOne
    <2>2. /\ Numbered(puts') /\ OneDialog(puts') /\ (DialogIn(puts') <=> DialogIn(puts))
          /\ OnlyDialogs(puts) => OnlyDialogs(puts')
          /\ form' \in Value /\ pending' \in BOOLEAN
          /\ initialized /\ ~pending' => ~pending /\ form' = form /\ puts' = puts
          /\ ~initialized => pending' = pending
        BY <2>1, FormWatched DEF SavesKnown, FormTyped
    <2>. QED
        BY <2>1, <2>2 DEF CreateInv, FormTyped, SavesKnown, Kept
\* What the form shows is sent after everything that is on its way.
<1>3. CASE Create!AutoSave
    <2>1. /\ pending /\ pending' = FALSE /\ puts' = Create!Sent(puts, "auto", form)
          /\ Cardinality(puts) < MaxPuts
          /\ UNCHANGED <<setting, form, draft, settingsDialog, initialized, formLoad, left,
                         spoiled>>
        BY <1>3, CreateCountOf DEF Create!AutoSave, Create!MayPut
    <2>2. /\ Numbered(puts') /\ \A s : Lands(puts', s, form)
          /\ \E n : n.kind = "auto" /\ n \notin puts /\ puts' = puts \cup {n}
        BY <2>1, SentLands DEF SavesKnown, FormTyped
    <2>3. OneDialog(puts') /\ (DialogIn(puts') <=> DialogIn(puts))
        BY <2>2 DEF OneDialog, DialogIn, SavesKnown
    <2>. QED
        BY <2>1, <2>2, <2>3 DEF CreateInv, FormTyped, SavesKnown, Kept, Shows
<1>4. CASE Create!OpenDialog
    BY <1>4 DEF Create!OpenDialog, CreateInv, FormTyped, SavesKnown, Kept
<1>5. ASSUME NEW v \in Value, Create!EditDraft(v) PROVE CreateInv'
    BY <1>5 DEF Create!EditDraft, CreateInv, FormTyped, SavesKnown, Kept
<1>6. CASE Create!CancelDialog
    BY <1>6 DEF Create!CancelDialog, CreateInv, FormTyped, SavesKnown, Kept
\* The dialog's save is the last one then, and its answer will show in the form.
<1>7. CASE Create!SaveDefaults
    <2>1. /\ settingsDialog = "open" /\ settingsDialog' = "busy" /\ ~left /\ pending' = FALSE
          /\ puts' = Create!Sent(Create!Outdated(puts), "dialog", draft)
          /\ Cardinality(puts) < MaxPuts
          /\ UNCHANGED <<setting, form, draft, initialized, formLoad, left, spoiled>>
        BY <1>7, CreateCountOf DEF Create!SaveDefaults, Create!MayPut
    <2> DEFINE P == Create!Outdated(puts)
    <2>2. P \subseteq Create!Put /\ SameSaves(P, puts)
        BY OutdatedSame DEF SavesKnown
    <2> HIDE DEF P
    <2>3. Numbered(P) /\ Cardinality(P) = Cardinality(puts)
        BY <2>2, SameNumbered DEF SavesKnown, Numbered
    <2>4. ~DialogIn(P) /\ (OnlyDialogs(puts) => OnlyDialogs(P))
        BY <2>1, <2>2, SameKinds DEF SavesKnown, Numbered
    <2>5. puts' = Create!Sent(P, "dialog", draft)
        BY <2>1 DEF P
    <2>6. /\ Numbered(puts') /\ \A s : Lands(puts', s, draft)
          /\ \E n : n.kind = "dialog" /\ n.value = draft /\ n \notin P /\ puts' = P \cup {n}
        BY <2>1, <2>3, <2>5, SentLands DEF FormTyped
    <2>7. /\ OneDialog(puts') /\ DialogIn(puts') /\ (OnlyDialogs(puts) => OnlyDialogs(puts'))
          /\ \A s, v : Shows(puts', s, v)
        BY <2>4, <2>6 DEF OneDialog, DialogIn, OnlyDialogs, Shows
    <2>. QED
        BY <2>1, <2>6, <2>7 DEF CreateInv, FormTyped, SavesKnown, Kept
<1>8. ASSUME NEW p \in puts, Create!ServerSaves(p) PROVE CreateInv'
    <2>1. /\ ~p.processed /\ setting' = p.value
          /\ puts' = (puts \ {p}) \cup {[p EXCEPT !.processed = TRUE]}
          /\ UNCHANGED <<form, draft, settingsDialog, initialized, pending, formLoad, left>>
        BY <1>8 DEF Create!ServerSaves
    <2>2. /\ spoiled' \in BOOLEAN
          /\ ~spoiled' => ~spoiled /\ ~\E q \in puts : q.no < p.no /\ ~q.processed
        BY <1>8, Zenon DEF Create!ServerSaves
    <2>3. p.value \in Value
        BY SavesTyped DEF SavesKnown, Numbered
    <2>4. /\ Numbered(puts') /\ OneDialog(puts') /\ (DialogIn(puts') <=> DialogIn(puts))
          /\ OnlyDialogs(puts) => OnlyDialogs(puts')
          /\ ~spoiled' => \A s, v : Shows(puts, s, v) => Shows(puts', p.value, v)
        BY <2>1, <2>2, ProcessedLands DEF SavesKnown
    <2>. QED
        BY <2>1, <2>2, <2>3, <2>4 DEF CreateInv, FormTyped, SavesKnown, Kept
<1>9. ASSUME NEW p \in puts, Create!AutoSaved(p) PROVE CreateInv'
    <2>1. /\ p.kind = "auto" /\ p.processed /\ puts' = Create!Without(p)
          /\ (draft' = draft \/ draft' = p.value)
          /\ UNCHANGED <<setting, form, settingsDialog, initialized, pending, formLoad, left,
                         spoiled>>
        BY <1>9 DEF Create!AutoSaved
    <2>2. draft' \in Value
        BY <2>1, SavesTyped DEF SavesKnown, Numbered, FormTyped
    <2>3. /\ Numbered(puts') /\ OneDialog(puts') /\ (DialogIn(puts') <=> DialogIn(puts))
          /\ OnlyDialogs(puts) => OnlyDialogs(puts')
          /\ \A s, v : Shows(puts, s, v) => Shows(puts', s, v)
        BY <2>1, AnsweredLands DEF SavesKnown
    <2>. QED
        BY <2>1, <2>2, <2>3 DEF CreateInv, FormTyped, SavesKnown, Kept
\* The form takes over what the dialog saved: that is what the server will have, or a save of
\* the form's new content is pending.
<1>10. ASSUME NEW p \in puts, Create!DefaultsSaved(p) PROVE CreateInv'
    <2>1. /\ p.kind = "dialog" /\ p.processed /\ draft' = p.value /\ settingsDialog' = "closed"
          /\ UNCHANGED <<setting, initialized, formLoad, left, spoiled>>
        BY <1>10 DEF Create!DefaultsSaved
    <2> DEFINE P == Create!Without(p)
    <2>2. /\ Numbered(P) /\ OneDialog(P) /\ ~DialogIn(P)
          /\ OnlyDialogs(puts) => OnlyDialogs(P)
          /\ \A s, v : Lands(puts, s, v) => Lands(P, s, v)
        BY <2>1, AnsweredLands DEF SavesKnown
    <2>3. p.value \in Value /\ settingsDialog = "busy" /\ \A d \in puts : d.kind = "dialog" => d = p
        BY <2>1, SavesTyped DEF SavesKnown, Numbered, DialogIn, OneDialog
    <2>4. CASE left
        <3>1. puts' = P /\ form' = form /\ pending' = pending
            BY <1>10, <2>4 DEF Create!DefaultsSaved
        <3>2. spoiled'
            BY <2>1, <2>3, <2>4 DEF Kept
        <3> HIDE DEF P
        <3>. QED
            BY <2>1, <2>2, <2>3, <3>1, <3>2 DEF CreateInv, FormTyped, SavesKnown, Kept
    <2>5. CASE ~left
        <3>1. Create!FormBecomes(p.value, P, initialized)
            BY <1>10, <2>5 DEF Create!DefaultsSaved
        <3> HIDE DEF P
        <3>2. /\ Numbered(puts') /\ OneDialog(puts') /\ ~DialogIn(puts')
              /\ OnlyDialogs(P) => OnlyDialogs(puts')
              /\ form' = p.value /\ pending' \in BOOLEAN
              /\ initialized /\ ~pending' => ~pending /\ form = p.value /\ puts' = P
              /\ ~initialized => pending' = pending
            BY <2>2, <2>3, <3>1, FormWatched DEF FormTyped
        <3>3. ASSUME ~spoiled, initialized, ~pending' PROVE Lands(puts', setting, p.value)
            <4>1. Shows(puts, setting, p.value)
                BY <3>2, <3>3 DEF Kept
            <4>2. Lands(puts, setting, p.value)
                BY <2>3, <4>1 DEF Shows
            <4>. QED
                BY <2>2, <3>2, <3>3, <4>2
        <3>4. Kept'
            BY <2>1, <2>5, <3>2, <3>3 DEF Kept, Shows
        <3>. QED
            BY <2>1, <2>2, <2>3, <3>2, <3>4 DEF CreateInv, FormTyped, SavesKnown
    <2>. QED
        BY <2>4, <2>5
<1>11. ASSUME NEW p \in puts, Create!SaveFails(p) PROVE CreateInv'
    <2>1. /\ puts' = Create!Without(p) /\ spoiled' = TRUE
          /\ UNCHANGED <<setting, form, draft, initialized, pending, formLoad, left>>
        BY <1>11 DEF Create!SaveFails
    <2>2. settingsDialog' = IF p.kind = "dialog" THEN "open" ELSE settingsDialog
        BY <1>11 DEF Create!SaveFails
    <2>3. /\ Numbered(puts') /\ OneDialog(puts')
          /\ p.kind = "dialog" => ~DialogIn(puts')
          /\ p.kind # "dialog" => (DialogIn(puts') <=> DialogIn(puts))
          /\ OnlyDialogs(puts) => OnlyDialogs(puts')
        BY <2>1, AnsweredLands DEF SavesKnown
    <2>. QED
        BY <2>1, <2>2, <2>3 DEF CreateInv, FormTyped, SavesKnown, Kept
<1>12. CASE Create!Load
    <2>1. formLoad' \in [at : {Create!None, "sent", "answered"}, value : Value]
        BY <1>12 DEF Create!Load, FormTyped
    <2>. QED
        BY <1>12, <2>1 DEF Create!Load, CreateInv, FormTyped, SavesKnown, Kept
<1>13. CASE Create!ServerAnswers
    <2>1. formLoad' \in [at : {Create!None, "sent", "answered"}, value : Value]
        BY <1>13 DEF Create!ServerAnswers, FormTyped
    <2>. QED
        BY <1>13, <2>1 DEF Create!ServerAnswers, CreateInv, FormTyped, SavesKnown, Kept
\* The form is filled for the first time with what the server has.
<1>14. ASSUME NEW ok \in BOOLEAN, Create!LoadEnds(ok) PROVE CreateInv'
    <2>1. /\ formLoad' \in [at : {Create!None, "sent", "answered"}, value : Value]
          /\ draft' \in Value /\ formLoad.value \in Value
          /\ UNCHANGED <<setting, settingsDialog, left>>
        BY <1>14 DEF Create!LoadEnds, FormTyped
    <2>2. /\ initialized' \in BOOLEAN /\ (initialized' <=> initialized \/ (ok /\ ~left))
          /\ spoiled' \in BOOLEAN
          /\ ~spoiled' => ~spoiled /\ (ok /\ ~initialized => formLoad.value = setting)
        BY <1>14, Zenon DEF Create!LoadEnds
    <2>3. CASE ok /\ ~initialized /\ ~left
        <3>1. Create!FormBecomes(formLoad.value, puts, TRUE)
            BY <1>14, <2>3 DEF Create!LoadEnds
        <3>2. /\ Numbered(puts') /\ OneDialog(puts') /\ (DialogIn(puts') <=> DialogIn(puts))
              /\ form' \in Value /\ pending' \in BOOLEAN
              /\ ~pending' => form' = formLoad.value /\ puts' = puts
            BY <2>1, <3>1, FormWatched DEF SavesKnown
        <3>3. ASSUME ~spoiled', ~pending' PROVE Shows(puts, setting, setting)
            <4>1. OneDialog(puts) /\ OnlyDialogs(puts)
                BY <2>3 DEF SavesKnown
            <4>2. CASE \A p \in puts : p.processed
                BY <4>2 DEF Shows, Lands
            <4>3. ASSUME NEW p \in puts, ~p.processed PROVE Shows(puts, setting, setting)
                <5>1. \A q \in puts : q = p
                    BY <4>1 DEF OneDialog, OnlyDialogs
                <5>2. p.kind = "dialog" /\ p.no \in Nat
                    BY <4>1, SavesTyped DEF OnlyDialogs, SavesKnown, Numbered
                <5>. QED
                    BY <4>3, <5>1, <5>2 DEF Shows, Lands
            <4>. QED
                BY <4>2, <4>3
        <3>4. Kept'
            BY <2>1, <2>2, <2>3, <3>2, <3>3 DEF Kept
        <3>. QED
            BY <2>1, <2>2, <2>3, <3>2, <3>4 DEF CreateInv, FormTyped, SavesKnown
    <2>4. CASE ~(ok /\ ~initialized /\ ~left)
        <3>1. UNCHANGED <<form, pending, puts>> /\ initialized' = initialized
            BY <1>14, <2>2, <2>4 DEF Create!LoadEnds, FormTyped
        <3>. QED
            BY <2>1, <2>2, <3>1 DEF CreateInv, FormTyped, SavesKnown, Kept
    <2>. QED
        BY <2>3, <2>4
\* What was pending is sent when the page is left.
<1>15. CASE Create!Leave
    <2>1. /\ Cardinality(puts) < MaxPuts /\ left' = TRUE /\ pending' = FALSE
          /\ UNCHANGED <<setting, form, draft, settingsDialog, initialized, formLoad>>
        BY <1>15, CreateCountOf DEF Create!Leave, Create!MayPut
    <2>2. spoiled' \in BOOLEAN /\ (~spoiled' => ~spoiled /\ settingsDialog # "busy")
        BY <1>15, Zenon DEF Create!Leave
    <2>3. CASE pending
        <3>1. puts' = Create!Sent(puts, "auto", form)
            BY <1>15, <2>3 DEF Create!Leave
        <3>2. /\ Numbered(puts') /\ \A s : Lands(puts', s, form)
              /\ \E n : n.kind = "auto" /\ n \notin puts /\ puts' = puts \cup {n}
            BY <2>1, <3>1, SentLands DEF SavesKnown, FormTyped
        <3>3. OneDialog(puts') /\ (DialogIn(puts') <=> DialogIn(puts))
            BY <3>2 DEF OneDialog, DialogIn, SavesKnown
        <3>. QED
            BY <2>1, <2>2, <2>3, <3>2, <3>3 DEF CreateInv, FormTyped, SavesKnown, Kept, Shows
    <2>4. CASE ~pending
        <3>1. puts' = puts
            BY <1>15, <2>4 DEF Create!Leave
        <3>. QED
            BY <2>1, <2>2, <2>4, <3>1 DEF CreateInv, FormTyped, SavesKnown, Kept
    <2>. QED
        BY <2>3, <2>4
<1>16. CASE UNCHANGED Create!vars
    BY <1>16 DEF Create!vars, CreateInv, FormTyped, SavesKnown, Kept
<1>. QED
    BY <1>1, <1>2, <1>3, <1>4, <1>5, <1>6, <1>7, <1>8, <1>9, <1>10, <1>11, <1>12, <1>13,
       <1>14, <1>15, <1>16 DEF Create!Next

LEMMA CreateSteps == [Next]_vars => [Create!Next]_(Create!vars)
BY DEF Next, vars, Rest, Opens, CreateVars, Create!vars

LEMMA CreateAlways == Spec => []CreateInv
<1>1. Init => Create!Init
    BY DEF Init
<1>. QED
    BY <1>1, CreateStarts, CreatePreserved, CreateSteps, PTL DEF Spec

\* When no save is pending or on its way, the server has what the form shows, or showed when the
\* page was left, unless a save failed, overtook another or began on a form the server did not
\* fill.
\* (scheduleFormAutoSave, saveFormSettings, saveDefaults, applyDefaults, onBeforeUnmount)
THEOREM FormAlwaysSaved == Spec => []FormSaved
<1>1. ASSUME CreateInv PROVE FormSaved
    BY <1>1 DEF CreateInv, Kept, Shows, Lands, FormSaved, Create!FormSaved
<1>. QED
    BY <1>1, CreateAlways, PTL
=============================================================================
