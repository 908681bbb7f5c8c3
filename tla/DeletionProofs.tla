----------------------------- MODULE DeletionProofs -----------------------------
(****************************************************************************)
(* What is proved of the deletion queue of the mailbox page, for any number *)
(* of mailboxes, accounts and places: deletions of one account never run    *)
(* together when the queue can know it, the notice's figures add up, and    *)
(* every step of the queue is a step of KeyedWork.                          *)
(*                                                                          *)
(* All three rest on one lemma about processDeleteQueue, Processed, and on  *)
(* one inductive invariant: no mailbox is twice in what waits or runs, no   *)
(* key is twice in what runs, and without a run both are empty.             *)
(****************************************************************************)
EXTENDS Console, FiniteSetTheorems, SequenceTheorems, TLAPS

LEMMA CountOf == \A S : Queue!Cardinality(S) = Cardinality(S)
BY DEF Queue!Cardinality, Cardinality

LEMMA PoolCountOf == \A S : Queue!Pool!Cardinality(S) = Cardinality(S)
BY DEF Queue!Pool!Cardinality, Cardinality

-----------------------------------------------------------------------------
(* Sets of numbers in their order                                            *)

\* A set of numbers with an upper bound has a least element.
LEMMA Least ==
    ASSUME NEW n \in Nat, NEW B \in SUBSET (0 .. n), B # {}
    PROVE  \E m \in B : \A k \in B : m <= k
<1> DEFINE T == {1 .. m : m \in B}
<1>1. ASSUME NEW m \in B PROVE 1 .. m \in FiniteSubsetsOf(1 .. n)
    <2>1. IsFiniteSet(1 .. m)
        BY FS_Interval
    <2>. QED
        BY <2>1 DEF FiniteSubsetsOf
<1>2. T \subseteq FiniteSubsetsOf(1 .. n) /\ T # {}
    BY <1>1
<1> HIDE DEF T
<1>3. PICK x \in T : \A y \in T : ~(<<y, x>> \in StrictSubsetOrdering(1 .. n))
    BY <1>2, FS_StrictSubsetOrderingWellFounded, WFMin, Zenon
<1>4. PICK m \in B : x = 1 .. m
    BY DEF T
<1>5. ASSUME NEW k \in B, k < m PROVE FALSE
    <2>1. 1 .. k \in T
        BY DEF T
    <2>2. 1 .. k \in SUBSET (1 .. n) /\ 1 .. m \in SUBSET (1 .. n)
        OBVIOUS
    <2>3. 1 .. k \subseteq 1 .. m /\ 1 .. k # 1 .. m
        BY <1>5
    <2>4. <<1 .. k, 1 .. m>> \in StrictSubsetOrdering(1 .. n)
        BY <2>2, <2>3 DEF StrictSubsetOrdering
    <2>. QED
        BY <1>3, <1>4, <2>1, <2>4
<1>. QED
    BY <1>4, <1>5

LEMMA Greatest ==
    ASSUME NEW n \in Nat, NEW S \in SUBSET (1 .. n), S # {}
    PROVE  \E m \in S : \A k \in S : k <= m
<1> DEFINE B == {m \in 0 .. n : \A k \in S : k <= m}
<1>1. n \in B
    OBVIOUS
<1>2. PICK m \in B : \A k \in B : m <= k
    BY <1>1, Least
<1>3. m \in 0 .. n /\ \A k \in S : k <= m
    OBVIOUS
<1>4. CASE m \in S
    BY <1>3, <1>4
<1>5. CASE m \notin S
    <2>1. \A k \in S : k <= m - 1 /\ k >= 1
        BY <1>3, <1>5
    <2>2. m - 1 \in 0 .. n
        <3>1. PICK s \in S : TRUE
            OBVIOUS
        <3>. QED
            BY <1>3, <2>1, <3>1
    <2>3. m - 1 \in B
        BY <2>1, <2>2
    <2>. QED
        BY <1>2, <1>3, <2>3
<1>. QED
    BY <1>4, <1>5

\* The first numbers of S, one more of them at every member of S
Initial(S, m) == S \cap (1 .. m)
Rises(at) == \A i, j \in DOMAIN at : i < j => at[i] < at[j]

LEMMA InitialGrows ==
    ASSUME NEW S \in SUBSET Nat, NEW m \in Nat, m > 0
    PROVE  /\ Initial(S, m) = Initial(S, m - 1) \cup (IF m \in S THEN {m} ELSE {})
           /\ IsFiniteSet(Initial(S, m - 1)) /\ IsFiniteSet(Initial(S, m))
           /\ Cardinality(Initial(S, m - 1)) \in Nat
           /\ Cardinality(Initial(S, m)) =
                 Cardinality(Initial(S, m - 1)) + (IF m \in S THEN 1 ELSE 0)
<1>1. Initial(S, m) = Initial(S, m - 1) \cup (IF m \in S THEN {m} ELSE {})
    BY DEF Initial
<1>2. IsFiniteSet(1 .. (m - 1)) /\ m \notin 1 .. (m - 1)
    BY FS_Interval
<1>3. IsFiniteSet(Initial(S, m - 1)) /\ m \notin Initial(S, m - 1)
    BY <1>2, FS_Subset DEF Initial
<1>4. CASE m \in S
    <2>1. Initial(S, m) = Initial(S, m - 1) \cup {m}
        BY <1>1, <1>4
    <2>. QED
        BY <1>1, <1>3, <1>4, <2>1, FS_AddElement, FS_CardinalityType
<1>5. CASE m \notin S
    <2>1. Initial(S, m) = Initial(S, m - 1)
        BY <1>1, <1>5
    <2>. QED
        BY <1>1, <1>3, <1>5, <2>1, FS_CardinalityType
<1>. QED
    BY <1>4, <1>5

\* A finite set of numbers can be listed in ascending order.
LEMMA CanAscend ==
    ASSUME NEW n \in Nat, NEW S \in SUBSET (1 .. n)
    PROVE  \E at \in [1 .. Cardinality(S) -> S] : Rises(at)
<1> DEFINE Listed(T) == \E at \in [1 .. Cardinality(T) -> T] : Rises(at)
           Bad == {m \in 0 .. n : ~Listed(Initial(S, m))}
<1>1. S \in SUBSET Nat /\ Initial(S, n) = S /\ Initial(S, 0) = {}
    <2>1. 1 .. 0 = {} /\ \A k \in S : k \in Nat /\ k \in 1 .. n
        OBVIOUS
    <2>. QED
        BY <2>1 DEF Initial
<1>2. Listed(Initial(S, 0))
    <2>1. Cardinality({}) = 0 /\ 1 .. 0 = {}
        BY FS_EmptySet
    <2>2. [i \in 1 .. 0 |-> i] \in [1 .. 0 -> {}] /\ Rises([i \in 1 .. 0 |-> i])
        BY <2>1 DEF Rises
    <2>. QED
        BY <1>1, <2>1, <2>2
<1>3. ASSUME NEW m \in 1 .. n, Listed(Initial(S, m - 1)) PROVE Listed(Initial(S, m))
    <2> DEFINE T == Initial(S, m - 1)
               c == Cardinality(T)
    <2>1. m \in Nat /\ m > 0
        OBVIOUS
    <2>2. /\ Initial(S, m) = T \cup (IF m \in S THEN {m} ELSE {}) /\ c \in Nat
          /\ Cardinality(Initial(S, m)) = c + (IF m \in S THEN 1 ELSE 0)
        BY <1>1, <2>1, InitialGrows
    <2>3. \A k \in T : k \in Nat /\ k < m
        BY DEF Initial
    <2>4. PICK at \in [1 .. c -> T] : Rises(at)
        BY <1>3
    <2> HIDE DEF T, c
    <2>5. CASE m \notin S
        <3>1. Initial(S, m) = T /\ Cardinality(Initial(S, m)) = c
            BY <2>2, <2>5
        <3>. QED
            BY <2>4, <3>1
    <2>6. CASE m \in S
        <3> DEFINE more == [i \in 1 .. (c + 1) |-> IF i = c + 1 THEN m ELSE at[i]]
        <3>1. Initial(S, m) = T \cup {m} /\ Cardinality(Initial(S, m)) = c + 1
            BY <2>2, <2>6
        <3>2. \A i \in 1 .. (c + 1) : i # c + 1 => i \in 1 .. c
            BY <2>2
        <3>3. more \in [1 .. (c + 1) -> T \cup {m}]
            BY <2>4, <3>2
        <3>4. ASSUME NEW i \in 1 .. (c + 1), NEW j \in 1 .. (c + 1), i < j
              PROVE  more[i] < more[j]
            <4>1. i # c + 1 /\ i \in 1 .. c /\ more[i] = at[i] /\ at[i] \in T
                BY <2>2, <2>4, <3>4
            <4>2. CASE j = c + 1
                BY <2>3, <4>1, <4>2
            <4>3. CASE j # c + 1
                BY <2>4, <3>2, <3>4, <4>1, <4>3 DEF Rises
            <4>. QED
                BY <4>2, <4>3
        <3>5. Rises(more)
            BY <3>4 DEF Rises
        <3> HIDE DEF more
        <3>. QED
            BY <3>1, <3>3, <3>5
    <2>. QED
        BY <2>5, <2>6
<1> HIDE DEF Listed
<1>4. SUFFICES ASSUME ~Listed(S) PROVE FALSE
    BY DEF Listed
<1>5. n \in Bad
    BY <1>1, <1>4
<1>6. PICK m \in Bad : \A k \in Bad : m <= k
    BY <1>5, Least
<1>7. m # 0 /\ m \in 1 .. n
    BY <1>2, <1>6
<1>8. m - 1 \notin Bad /\ m - 1 \in 0 .. n
    BY <1>6, <1>7
<1>. QED
    BY <1>3, <1>6, <1>7, <1>8

-----------------------------------------------------------------------------
(* The operators of the queue                                                *)

Distinct(q) == \A i, j \in DOMAIN q : q[i].id = q[j].id => i = j
OnePerId(S) == \A v, w \in S : v.id = w.id => v = w
OnePerKey(S) == \A v, w \in S : Queue!KeyOf(v) = Queue!KeyOf(w) => v = w
Apart(q, S) == \A i \in DOMAIN q : \A v \in S : q[i].id # v.id
Items(q) == {q[i] : i \in DOMAIN q}

\* What the running deletions are at any time
Held(S) ==
    /\ S \subseteq Queue!Item /\ IsFiniteSet(S) /\ OnePerId(S) /\ OnePerKey(S)
    /\ Cardinality(S) <= MaxConcurrent

\* The items of q at the places in stays, each once
Picks(remaining, q, stays) ==
    /\ Cardinality(stays) \in Nat /\ remaining \in [1 .. Cardinality(stays) -> Queue!Item]
    /\ \E at \in [1 .. Cardinality(stays) -> stays] :
          /\ \A k \in 1 .. Cardinality(stays) : remaining[k] = q[at[k]]
          /\ \A i, j \in 1 .. Cardinality(stays) : at[i] = at[j] => i = j
          /\ \A s \in stays : \E k \in 1 .. Cardinality(stays) : at[k] = s

\* What is left of the queue are the places that are not taken.
LEMMA LeftFacts ==
    ASSUME NEW n \in Nat, NEW q \in [1 .. n -> Queue!Item], NEW gone,
           NEW stays, stays = {i \in 1 .. n : q[i] \notin gone}
    PROVE  Picks(Queue!Left(q, gone), q, stays)
<1> DEFINE c == Cardinality(stays)
           at == Queue!Ascending(stays)
<1>1. IsFiniteSet(stays) /\ c \in Nat
    <2>1. IsFiniteSet(1 .. n) /\ stays \in SUBSET (1 .. n)
        BY FS_Interval
    <2>2. IsFiniteSet(stays)
        BY <2>1, FS_Subset
    <2>. QED
        BY <2>2, FS_CardinalityType
<1>2. DOMAIN q = 1 .. n
    OBVIOUS
<1>3. \E f \in [1 .. c -> stays] : Rises(f)
    BY CanAscend
<1>4. at \in [1 .. c -> stays] /\ Rises(at)
    <2>1. \A f \in [1 .. c -> stays] :
             Rises(f) <=> \A i, j \in DOMAIN f : i < j => f[i] < f[j]
        BY DEF Rises
    <2>2. at = CHOOSE f \in [1 .. c -> stays] : \A i, j \in DOMAIN f : i < j => f[i] < f[j]
        BY CountOf, Zenon DEF Queue!Ascending
    <2> HIDE DEF at, c
    <2>. QED
        BY <1>3, <2>1, <2>2, Zenon
<1>5. Queue!Left(q, gone) = [k \in 1 .. c |-> q[at[k]]]
    <2>1. {i \in DOMAIN q : q[i] \notin gone} = stays
        BY <1>2
    <2>2. Queue!Left(q, gone) = [k \in DOMAIN at |-> q[at[k]]]
        BY <2>1 DEF Queue!Left
    <2>3. DOMAIN at = 1 .. c
        BY <1>4
    <2>. QED
        BY <2>2, <2>3
<1>6. \A k \in stays : k \in Nat
    OBVIOUS
<1> HIDE DEF at, c
<1>7. ASSUME NEW i \in 1 .. c, NEW j \in 1 .. c, at[i] = at[j] PROVE i = j
    <2>1. at[i] \in Nat /\ at[j] \in Nat
        BY <1>4, <1>6
    <2>2. ~(i < j) /\ ~(j < i)
        BY <1>4, <1>7, <2>1 DEF Rises
    <2>. QED
        BY <1>1, <2>2
<1>8. \A s \in stays : \E k \in 1 .. c : at[k] = s
    <2>1. IsFiniteSet(1 .. c) /\ Cardinality(1 .. c) = Cardinality(stays)
        BY <1>1, FS_Interval DEF c
    <2>2. at \in Injection(1 .. c, stays)
        BY <1>4, <1>7 DEF Injection, IsInjective
    <2>3. at \in Surjection(1 .. c, stays)
        BY <1>1, <2>1, <2>2, FS_Injection
    <2>. QED
        BY <2>3 DEF Surjection
<1>. QED
    <2>1. \A k \in 1 .. c : q[at[k]] \in Queue!Item
        BY <1>4
    <2>2. Queue!Left(q, gone) \in [1 .. c -> Queue!Item]
        BY <1>5, <2>1
    <2>3. \A k \in 1 .. c : Queue!Left(q, gone)[k] = q[at[k]]
        BY <1>5
    <2>. QED
        BY <1>1, <1>4, <1>7, <1>8, <2>2, <2>3 DEF c, Picks

\* A set and its image under a function that tells its members apart are equally large.
LEMMA ImageCounts ==
    ASSUME NEW S, IsFiniteSet(S), NEW f, DOMAIN f = S, IsInjective(f),
           NEW T, T = {f[s] : s \in S}
    PROVE  IsFiniteSet(T) /\ Cardinality(T) = Cardinality(S)
<1>1. \A t \in T : \E s \in S : f[s] = t
    OBVIOUS
<1>2. [s \in S |-> f[s]] \in Bijection(S, T)
    BY <1>1 DEF Bijection, Injection, Surjection, IsInjective
<1>3. ExistsBijection(S, T)
    BY <1>2 DEF ExistsBijection
<1>. QED
    BY <1>3, FS_Bijection

\* The keys of what runs are as many as its items.
LEMMA KeysCount ==
    ASSUME NEW S, Held(S)
    PROVE  Queue!Cardinality(Queue!Keys(S)) = Cardinality(S) /\ Cardinality(S) \in Nat
<1> DEFINE f == [v \in S |-> Queue!KeyOf(v)]
<1>1. IsInjective(f) /\ DOMAIN f = S
    BY DEF IsInjective, Held, OnePerKey
<1>2. {f[v] : v \in S} = Queue!Keys(S)
    BY DEF Queue!Keys
<1> HIDE DEF f
<1>. QED
    BY <1>1, <1>2, ImageCounts, CountOf, FS_CardinalityType DEF Held

\* The places that start are no more than there are free places.
LEMMA StartsFit ==
    ASSUME NEW n \in Nat, NEW q \in [1 .. n -> Queue!Item], NEW S, Held(S)
    PROVE  /\ IsFiniteSet(Queue!Starts(q, S)) /\ Queue!Starts(q, S) \subseteq 1 .. n
           /\ Cardinality(Queue!Starts(q, S)) \in Nat
           /\ Cardinality(Queue!Starts(q, S)) + Cardinality(S) <= MaxConcurrent
<1> DEFINE st == Queue!Starts(q, S)
           Able(j) == Queue!Startable(q, j, Queue!Keys(S))
           free == MaxConcurrent - Cardinality(S)
<1>1. Cardinality(S) \in Nat /\ free \in Nat
    BY KeysCount, ConsoleAssumption DEF Held
<1>2. \A i \in st : /\ i \in 1 .. n /\ Able(i)
                    /\ Cardinality({j \in 1 .. (i - 1) : Able(j)}) < free
    <2>1. DOMAIN q = 1 .. n
        OBVIOUS
    <2>. QED
        BY <2>1, CountOf, KeysCount DEF Queue!Starts
<1>3. st \subseteq 1 .. n
    BY <1>2
<1> HIDE DEF st, Able
<1>4. IsFiniteSet(st) /\ Cardinality(st) \in Nat
    <2>1. IsFiniteSet(1 .. n)
        BY FS_Interval
    <2>2. IsFiniteSet(st)
        BY <1>3, <2>1, FS_Subset
    <2>. QED
        BY <2>2, FS_CardinalityType
<1>5. CASE st = {}
    <2>1. Cardinality(st) = 0
        BY <1>5, FS_EmptySet
    <2>. QED
        BY <1>1, <1>3, <1>4, <2>1 DEF st, Held
<1>6. CASE st # {}
    <2>1. PICK e \in st : \A k \in st : k <= e
        BY <1>3, <1>6, Greatest
    <2> DEFINE before == {j \in 1 .. (e - 1) : Able(j)}
    <2>2. st \ {e} \subseteq before
        <3>1. e \in Nat /\ \A k \in st : k \in Nat /\ k >= 1
            BY <1>3
        <3>2. ASSUME NEW k \in st, k # e PROVE k \in 1 .. (e - 1)
            <4>1. k <= e /\ k \in Nat /\ k >= 1
                BY <2>1, <3>1
            <4>. QED
                BY <3>1, <3>2, <4>1
        <3>3. \A k \in st : Able(k)
            BY <1>2
        <3>. QED
            BY <3>2, <3>3
    <2>3. IsFiniteSet(before) /\ Cardinality(before) < free /\ Cardinality(before) \in Nat
        <3>1. e \in Nat /\ IsFiniteSet(1 .. (e - 1))
            BY <1>3, <2>1, FS_Interval
        <3>2. IsFiniteSet(before)
            BY <3>1, FS_Subset
        <3>. QED
            BY <1>2, <2>1, <3>2, FS_CardinalityType
    <2> HIDE DEF before, free
    <2>4. Cardinality(st \ {e}) = Cardinality(st) - 1
        BY <1>4, <2>1, FS_RemoveElement
    <2>5. Cardinality(st \ {e}) <= Cardinality(before)
        BY <2>2, <2>3, FS_Subset
    <2>6. Cardinality(st) <= free
        BY <1>1, <1>4, <2>3, <2>4, <2>5
    <2>. QED
        BY <1>1, <1>3, <1>4, <2>6, ConsoleAssumption DEF st, free
<1>. QED
    BY <1>5, <1>6

\* The items that start join those that run: no key and no mailbox is there twice.
LEMMA TakenRun ==
    ASSUME NEW n \in Nat, NEW q \in [1 .. n -> Queue!Item], Distinct(q),
           NEW S, Held(S), Apart(q, S)
    PROVE  LET taken == {q[i] : i \in Queue!Starts(q, S)}
           IN  /\ Held(S \cup taken)
               /\ Cardinality(S \cup taken) = Cardinality(S) + Cardinality(Queue!Starts(q, S))
<1> DEFINE st == Queue!Starts(q, S)
           taken == {q[i] : i \in st}
<1>1. /\ IsFiniteSet(st) /\ st \subseteq 1 .. n /\ Cardinality(st) \in Nat
      /\ Cardinality(st) + Cardinality(S) <= MaxConcurrent
    BY StartsFit
<1>2. \A i \in st : /\ Queue!KeyOf(q[i]) \notin Queue!Keys(S)
                    /\ \A j \in 1 .. (i - 1) : Queue!KeyOf(q[j]) # Queue!KeyOf(q[i])
    BY DEF Queue!Starts, Queue!Startable
<1> HIDE DEF st
<1>3. IsFiniteSet(taken) /\ Cardinality(taken) = Cardinality(st)
    <2> DEFINE f == [i \in st |-> q[i]]
    <2>1. IsInjective(f) /\ DOMAIN f = st /\ {f[i] : i \in st} = taken
        BY <1>1 DEF IsInjective, Distinct
    <2> HIDE DEF f, taken
    <2>. QED
        BY <1>1, <2>1, ImageCounts
<1>4. taken \subseteq Queue!Item /\ \A v \in S, w \in taken : v.id # w.id
    BY <1>1 DEF Apart
<1>5. Cardinality(S \cup taken) = Cardinality(S) + Cardinality(st) /\ IsFiniteSet(S \cup taken)
    <2>1. S \cap taken = {}
        BY <1>4
    <2> HIDE DEF taken
    <2>2. Cardinality(S \cap taken) = 0 /\ Cardinality(S) \in Nat
        BY <2>1, FS_EmptySet, FS_CardinalityType DEF Held
    <2>3. /\ IsFiniteSet(S \cup taken)
          /\ Cardinality(S \cup taken) =
                Cardinality(S) + Cardinality(taken) - Cardinality(S \cap taken)
        BY <1>1, <1>3, FS_Union DEF Held
    <2>. QED
        BY <1>1, <1>3, <2>2, <2>3
<1>6. OnePerId(S \cup taken)
    BY <1>1, <1>4 DEF Held, OnePerId, Distinct
<1>7. OnePerKey(S \cup taken)
    <2>1. ASSUME NEW v \in S, NEW w \in taken PROVE Queue!KeyOf(v) # Queue!KeyOf(w)
        BY <1>2 DEF Queue!Keys
    <2>2. ASSUME NEW i \in st, NEW j \in st, Queue!KeyOf(q[i]) = Queue!KeyOf(q[j])
          PROVE  i = j
        <3>1. i \in 1 .. n /\ j \in 1 .. n
            BY <1>1
        <3>2. i < j => i \in 1 .. (j - 1)
            BY <3>1
        <3>3. j < i => j \in 1 .. (i - 1)
            BY <3>1
        <3>. QED
            BY <1>2, <2>2, <3>1, <3>2, <3>3
    <2>. QED
        BY <2>1, <2>2 DEF Held, OnePerKey
<1>. QED
    BY <1>1, <1>4, <1>5, <1>6, <1>7, KeysCount DEF Held, st

\* processDeleteQueue takes nothing twice, loses nothing and keeps within its places; a run is
\* over only when nothing waits and nothing runs.
LEMMA Processed ==
    ASSUME NEW n \in Nat, NEW q \in [1 .. n -> Queue!Item], Distinct(q),
           NEW S, Held(S), Apart(q, S), NEW counts, Queue!ProcessQueue(q, S, counts)
    PROVE  /\ queue' \in Seq(Queue!Item) /\ Distinct(queue')
           /\ Held(deleting') /\ Apart(queue', deleting')
           /\ S \subseteq deleting' /\ deleting' \subseteq S \cup Items(q)
           /\ Items(queue') \subseteq Items(q) /\ Items(q) \subseteq deleting' \cup Items(queue')
           /\ Cardinality(deleting') + Len(queue') = Cardinality(S) + n
           /\ ~inRun' => queue' = <<>> /\ deleting' = {}
<1> DEFINE st == Queue!Starts(q, S)
           now == S \cup {q[i] : i \in st}
           stays == {i \in 1 .. n : q[i] \notin now}
           c == Cardinality(stays)
<1>1. /\ queue' = Queue!Left(q, now) /\ deleting' = now
      /\ ~inRun' => queue' = <<>> /\ deleting' = {}
    BY Zenon DEF Queue!ProcessQueue
<1>2. Held(now) /\ Cardinality(now) = Cardinality(S) + Cardinality(st)
    BY TakenRun
<1>3. /\ st \subseteq 1 .. n /\ IsFiniteSet(st) /\ Cardinality(st) \in Nat
      /\ Cardinality(S) \in Nat
    BY StartsFit, KeysCount
<1>4. \A i \in 1 .. n : q[i] \in now <=> i \in st
    <2> HIDE DEF st
    <2>1. ASSUME NEW i \in 1 .. n, q[i] \in now PROVE i \in st
        BY <1>3, <2>1 DEF Apart, Distinct
    <2>. QED
        BY <2>1
<1> HIDE DEF st
<1>5. stays = (1 .. n) \ st
    BY <1>4
<1>6. c = n - Cardinality(st)
    <2>1. IsFiniteSet(1 .. n) /\ Cardinality(1 .. n) = n
        BY FS_Interval
    <2>2. (1 .. n) \cap st = st
        BY <1>3
    <2>3. Cardinality((1 .. n) \ st) = Cardinality(1 .. n) - Cardinality((1 .. n) \cap st)
        BY <2>1, FS_Difference
    <2>. QED
        BY <1>5, <2>1, <2>2, <2>3
<1>7. PICK at \in [1 .. c -> stays] :
          /\ queue' \in [1 .. c -> Queue!Item] /\ c \in Nat
          /\ \A k \in 1 .. c : queue'[k] = q[at[k]]
          /\ \A i, j \in 1 .. c : at[i] = at[j] => i = j
          /\ \A s \in stays : \E k \in 1 .. c : at[k] = s
    <2>1. stays = {i \in 1 .. n : q[i] \notin now}
        OBVIOUS
    <2> HIDE DEF now, stays
    <2>2. Picks(Queue!Left(q, now), q, stays)
        BY <2>1, LeftFacts
    <2>. QED
        BY <1>1, <2>2 DEF Picks
<1> HIDE DEF now, c
<1>8. queue' \in Seq(Queue!Item) /\ Len(queue') = c /\ DOMAIN queue' = 1 .. c
    BY <1>7
<1>9. Distinct(queue')
    BY <1>7, <1>8 DEF Distinct
<1>10. Items(queue') = {q[i] : i \in stays}
    BY <1>7, <1>8 DEF Items
<1>11. Apart(queue', deleting')
    <2>1. ASSUME NEW i \in stays, NEW v \in now PROVE q[i].id # v.id
        <3>1. CASE v \in S
            BY <3>1 DEF Apart
        <3>2. CASE v \notin S
            BY <1>3, <1>5, <2>1, <3>2 DEF now, Distinct
        <3>. QED
            BY <3>1, <3>2
    <2>. QED
        BY <1>1, <1>7, <1>8, <2>1 DEF Apart
<1>12. S \subseteq now /\ now \subseteq S \cup Items(q)
    BY <1>3 DEF now, Items
<1>13. Items(q) \subseteq now \cup {q[i] : i \in stays} /\ {q[i] : i \in stays} \subseteq Items(q)
    BY DEF Items
<1>14. Cardinality(now) + c = Cardinality(S) + n
    BY <1>2, <1>3, <1>6
<1>. QED
    BY <1>1, <1>2, <1>8, <1>9, <1>10, <1>11, <1>12, <1>13, <1>14

\* A set is appended in some order, each member once.
LEMMA AnyOrder ==
    ASSUME NEW S, IsFiniteSet(S)
    PROVE  /\ Cardinality(S) \in Nat /\ Queue!SetToSeq(S) \in [1 .. Cardinality(S) -> S]
           /\ \A i, j \in 1 .. Cardinality(S) :
                 Queue!SetToSeq(S)[i] = Queue!SetToSeq(S)[j] => i = j
<1>1. PICK f \in Bijection(1 .. Cardinality(S), S) : Cardinality(S) \in Nat
    BY FS_CardinalityType DEF ExistsBijection
<1>2. f \in [1 .. Cardinality(S) -> S] /\ Queue!IsInjective(f)
    BY DEF Bijection, Injection, IsInjective, Queue!IsInjective
<1>3. Queue!SetToSeq(S) \in [1 .. Cardinality(S) -> S] /\ Queue!IsInjective(Queue!SetToSeq(S))
    BY <1>2, CountOf, Zenon DEF Queue!SetToSeq
<1>. QED
    BY <1>1, <1>3 DEF Queue!IsInjective

LEMMA ItemsFinite == IsFiniteSet(Queue!Item)
<1> DEFINE O == {"full", "ticked"}
           f == [p \in Mailbox \X O |-> [id |-> p[1], from |-> p[2]]]
<1>1. IsFiniteSet(O)
    <2>1. IsFiniteSet({"full"})
        BY FS_Singleton
    <2>2. IsFiniteSet({"full"} \cup {"ticked"})
        BY <2>1, FS_AddElement
    <2>3. O = {"full"} \cup {"ticked"}
        OBVIOUS
    <2>. QED
        BY <2>2, <2>3
<1>2. IsFiniteSet(Mailbox \X O)
    BY <1>1, FS_Product, ConsoleAssumption
<1>3. f \in Surjection(Mailbox \X O, Queue!Item)
    <2>1. \A p \in Mailbox \X O : [id |-> p[1], from |-> p[2]] \in Queue!Item
        BY DEF Queue!Item, Queue!Origin
    <2>2. f \in [Mailbox \X O -> Queue!Item]
        BY <2>1
    <2>3. ASSUME NEW item \in Queue!Item PROVE \E p \in Mailbox \X O : f[p] = item
        <3>1. <<item.id, item.from>> \in Mailbox \X O
            BY DEF Queue!Item, Queue!Origin
        <3>2. [id |-> item.id, from |-> item.from] = item
            BY DEF Queue!Item
        <3>3. f[<<item.id, item.from>>] = item
            BY <3>1, <3>2
        <3>. QED
            BY <3>1, <3>3
    <2>. QED
        BY <2>2, <2>3 DEF Surjection
<1>. QED
    BY <1>2, <1>3, FS_Surjection

-----------------------------------------------------------------------------
(* The inductive invariant                                                   *)

Waits ==
    /\ Distinct(queue) /\ Held(deleting) /\ Apart(queue, deleting)
    /\ ~inRun => queue = <<>> /\ deleting = {}
    /\ Queue!CountsAddUp

QueueInv == Queue!TypeOK /\ Waits /\ OnePerId(asked)

\* Nothing that waits is dropped and nothing that runs waits again.
Onward ==
    /\ Items(queue) \subseteq Items(queue') \cup deleting'
    /\ Items(queue') \cap deleting = {}

\* The parts of the types that the queue's operators write
WorkTyped ==
    /\ queue \in Seq(Queue!Item) /\ deleting \in SUBSET Queue!Item /\ inRun \in BOOLEAN
    /\ tally \in [done : Nat, failed : Nat] /\ queueNotice \in {Queue!None, "progress", "result"}
    /\ accepted \in [batch : Nat, all : Nat]

LEMMA ProcessTyped ==
    ASSUME NEW q, NEW S, NEW counts, Queue!ProcessQueue(q, S, counts),
           queueNotice \in {Queue!None, "progress", "result"}
    PROVE  inRun' \in BOOLEAN /\ queueNotice' \in {Queue!None, "progress", "result"}
<1>1. inRun' \in BOOLEAN
    BY Zenon DEF Queue!ProcessQueue
<1>2. queueNotice' \in {"progress", "result", queueNotice}
    BY Zenon DEF Queue!ProcessQueue
<1>. QED
    BY <1>1, <1>2

LEMMA Unmoved ==
    ASSUME WorkTyped, Waits, UNCHANGED <<queue, deleting, inRun, tally, queueNotice, accepted>>
    PROVE  WorkTyped' /\ Waits' /\ Onward
<1>1. WorkTyped'
    BY DEF WorkTyped
<1>2. Waits'
    BY DEF Waits, Queue!CountsAddUp
<1>3. Onward
    BY DEF Onward, Waits, Apart, Items
<1>. QED
    BY <1>1, <1>2, <1>3

\* enqueueMailboxDeletions appends what neither waits nor runs, and counts it; without a run
\* there is nothing that the cleared counters would lose.
LEMMA Enqueued ==
    ASSUME WorkTyped, Waits, NEW items \in SUBSET Queue!Item, OnePerId(items),
           Queue!Enqueue(items)
    PROVE  WorkTyped' /\ Waits' /\ Onward
<1> DEFINE new == Queue!Fresh(items)
           s == Queue!SetToSeq(new)
           c == Cardinality(new)
           b == Len(queue)
           q == queue \o s
           counts == IF Queue!Cleared THEN [done |-> 0, failed |-> 0] ELSE tally
<1>1. CASE new = {}
    <2>1. UNCHANGED <<queue, deleting, inRun, tally, queueNotice, accepted>>
        BY <1>1 DEF Queue!Enqueue
    <2>. QED
        BY <2>1, Unmoved
<1>2. CASE new # {}
    <2>1. new \subseteq items /\ \A item \in new : item.id \notin Queue!Ids(deleting)
                                               /\ item.id \notin Queue!Ids(Queue!Waiting)
        BY DEF Queue!Fresh
    <2>2. IsFiniteSet(new)
        BY <2>1, ItemsFinite, FS_Subset
    <2>3. c \in Nat /\ s \in [1 .. c -> new] /\ \A i, j \in 1 .. c : s[i] = s[j] => i = j
        BY <2>2, AnyOrder
    <2>4. /\ tally' = counts
          /\ accepted' = [batch |-> (IF Queue!Cleared THEN 0 ELSE accepted.batch) + c,
                          all |-> accepted.all + c]
          /\ Queue!ProcessQueue(q, deleting, counts)
        BY <1>2, CountOf DEF Queue!Enqueue
    <2> HIDE DEF new, s, c
    <2>5. b \in Nat /\ queue \in [1 .. b -> Queue!Item]
        BY DEF WorkTyped
    <2>6. s \in Seq(Queue!Item) /\ Len(s) = c
        BY <2>1, <2>3
    <2>7. /\ q \in [1 .. (b + c) -> Queue!Item]
          /\ \A i \in 1 .. (b + c) : q[i] = IF i <= b THEN queue[i] ELSE s[i - b]
        <3>1. queue \in Seq(Queue!Item)
            BY DEF WorkTyped
        <3>2. q \in Seq(Queue!Item) /\ Len(q) = b + c
            BY <2>6, <3>1, ConcatProperties
        <3>3. \A i \in 1 .. Len(q) : q[i] = IF i <= b THEN queue[i] ELSE s[i - b]
            BY <2>6, <3>1, ConcatProperties
        <3> HIDE DEF q, b
        <3>4. q \in [1 .. Len(q) -> Queue!Item]
            BY <3>2
        <3>. QED
            BY <3>2, <3>3, <3>4
    <2>8. \A i \in 1 .. (b + c) : IF i <= b THEN i \in 1 .. b ELSE (i - b) \in 1 .. c
        BY <2>3, <2>5
    <2> HIDE DEF q, b
    <2>9. \A item \in new : /\ \A v \in deleting : item.id # v.id
                            /\ \A i \in 1 .. b : item.id # queue[i].id
        <3>1. \A i \in 1 .. b : queue[i].id \in Queue!Ids(Queue!Waiting)
            BY <2>5 DEF Queue!Ids, Queue!Waiting, Queue!ToSet
        <3>. QED
            BY <2>1, <3>1 DEF Queue!Ids
    <2>10. Distinct(q)
        <3> SUFFICES ASSUME NEW i \in 1 .. (b + c), NEW j \in 1 .. (b + c), q[i].id = q[j].id
                     PROVE  i = j
            BY <2>7 DEF Distinct
        <3>1. CASE i <= b /\ j <= b
            BY <2>5, <2>7, <2>8, <3>1 DEF Waits, Distinct
        <3>2. CASE ~(i <= b) /\ ~(j <= b)
            <4>1. s[i - b] \in new /\ s[j - b] \in new /\ s[i - b].id = s[j - b].id
                BY <2>3, <2>7, <2>8, <3>2
            <4>2. s[i - b] = s[j - b]
                BY <2>1, <4>1 DEF OnePerId
            <4>3. i - b = j - b
                BY <2>3, <2>8, <3>2, <4>2
            <4>. QED
                BY <2>3, <2>5, <4>3
        <3>3. CASE (i <= b) # (j <= b)
            BY <2>3, <2>7, <2>8, <2>9, <3>3
        <3>. QED
            BY <3>1, <3>2, <3>3
    <2>11. Apart(q, deleting)
        BY <2>3, <2>5, <2>7, <2>8, <2>9 DEF Waits, Apart
    <2>12. b + c \in Nat /\ Held(deleting)
        BY <2>3, <2>5 DEF Waits
    <2> HIDE DEF counts
    <2>13. /\ queue' \in Seq(Queue!Item) /\ Distinct(queue') /\ Held(deleting')
           /\ Apart(queue', deleting')
           /\ deleting \subseteq deleting' /\ Items(q) \subseteq deleting' \cup Items(queue')
           /\ Cardinality(deleting') + Len(queue') = Cardinality(deleting) + (b + c)
           /\ ~inRun' => queue' = <<>> /\ deleting' = {}
        BY <2>4, <2>7, <2>10, <2>11, <2>12, Processed
    <2>14. Items(queue) \subseteq Items(q)
        <3>1. \A i \in 1 .. b : i \in 1 .. (b + c) /\ q[i] = queue[i]
            BY <2>3, <2>5, <2>7
        <3>. QED
            BY <2>5, <2>7, <3>1 DEF Items
    <2>15. Onward
        BY <2>13, <2>14 DEF Onward, Apart, Items
    <2>16. WorkTyped'
        BY <2>3, <2>4, <2>13, ProcessTyped DEF WorkTyped, counts, Held
    <2>17. Queue!CountsAddUp'
        <3>1. Cardinality(deleting) \in Nat /\ Cardinality(deleting') \in Nat /\ Len(queue') \in Nat
            BY <2>12, <2>13, FS_CardinalityType DEF Held
        <3>2. CASE Queue!Cleared
            <4>1. b = 0 /\ Cardinality(deleting) = 0
                BY <3>2, FS_EmptySet DEF Waits, Queue!Cleared, b
            <4>. QED
                BY <2>3, <2>4, <2>13, <3>1, <3>2, <4>1, CountOf DEF counts, Queue!CountsAddUp
        <3>3. CASE ~Queue!Cleared
            <4>1. tally.done + tally.failed + Cardinality(deleting) + b = accepted.batch
                BY CountOf DEF Waits, Queue!CountsAddUp, b
            <4>2. tally' = tally /\ accepted'.batch = accepted.batch + c
                BY <2>4, <3>3 DEF counts
            <4>3. tally.done \in Nat /\ tally.failed \in Nat /\ accepted.batch \in Nat
                BY DEF WorkTyped
            <4>4. Cardinality(deleting') + Len(queue') = Cardinality(deleting) + (b + c)
                BY <2>13
            <4>5. b \in Nat /\ c \in Nat
                BY <2>3, <2>5
            <4>6. tally.done + tally.failed + Cardinality(deleting') + Len(queue')
                     = accepted.batch + c
                <5> DEFINE r == Cardinality(deleting)  r2 == Cardinality(deleting')
                           d == tally.done  f == tally.failed  a == accepted.batch
                           b2 == Len(queue')
                <5>1. /\ r \in Nat /\ r2 \in Nat /\ d \in Nat /\ f \in Nat /\ a \in Nat
                      /\ b2 \in Nat /\ d + f + r + b = a /\ r2 + b2 = r + (b + c)
                    BY <3>1, <4>1, <4>3, <4>4
                <5> HIDE DEF r, r2, d, f, a, b2
                <5>2. d + f + r2 + b2 = a + c
                    BY <4>5, <5>1
                <5>. QED
                    BY <5>2 DEF r, r2, d, f, a, b2
            <4>. QED
                BY <4>2, <4>6, CountOf DEF Queue!CountsAddUp
        <3>. QED
            BY <3>2, <3>3
    <2>. QED
        BY <2>13, <2>15, <2>16, <2>17 DEF Waits
<1>. QED
    BY <1>1, <1>2

\* The answer of a deletion frees its place and its key, and counts.
LEMMA Answered ==
    ASSUME WorkTyped, Waits, NEW item \in Queue!Item, NEW ok \in BOOLEAN,
           Queue!DeletionAnswered(item, ok)
    PROVE  WorkTyped' /\ Waits' /\ Onward
<1>1. /\ item \in deleting /\ deleting' = deleting \ {item}
      /\ UNCHANGED <<queue, inRun, queueNotice, accepted>>
    BY DEF Queue!DeletionAnswered
<1>2. /\ tally' \in [done : Nat, failed : Nat]
      /\ tally'.done + tally'.failed = tally.done + tally.failed + 1
    <2>1. tally.done \in Nat /\ tally.failed \in Nat
        BY DEF WorkTyped
    <2>2. CASE ok
        BY <2>1, <2>2 DEF Queue!DeletionAnswered, WorkTyped
    <2>3. CASE ~ok
        BY <2>1, <2>3 DEF Queue!DeletionAnswered, WorkTyped
    <2>. QED
        BY <2>2, <2>3
<1>3. /\ IsFiniteSet(deleting') /\ Cardinality(deleting') = Cardinality(deleting) - 1
      /\ Cardinality(deleting) \in Nat
    BY <1>1, FS_RemoveElement, FS_CardinalityType DEF Waits, Held
<1>4. Held(deleting')
    BY <1>1, <1>3, ConsoleAssumption DEF Waits, Held, OnePerId, OnePerKey
<1>5. Queue!CountsAddUp'
    <2> DEFINE r == Cardinality(deleting)  b == Len(queue)
    <2>1. tally.done + tally.failed + r + b = accepted.batch /\ b \in Nat /\ r \in Nat
        BY <1>3, CountOf DEF Waits, Queue!CountsAddUp, WorkTyped
    <2>2. tally.done \in Nat /\ tally.failed \in Nat /\ tally'.done \in Nat /\ tally'.failed \in Nat
        BY <1>2 DEF WorkTyped
    <2> HIDE DEF r, b
    <2>3. tally'.done + tally'.failed + (r - 1) + b = accepted.batch
        BY <1>2, <2>1, <2>2
    <2>. QED
        BY <1>1, <1>3, <2>3, CountOf DEF Queue!CountsAddUp, r, b
<1>6. Waits'
    BY <1>1, <1>4, <1>5 DEF Waits, Apart, Distinct
<1>7. WorkTyped'
    BY <1>1, <1>2 DEF WorkTyped
<1>8. Onward
    BY <1>1 DEF Onward, Waits, Apart, Items
<1>. QED
    BY <1>6, <1>7, <1>8

LEMMA Settled ==
    ASSUME WorkTyped, Waits, Queue!Settle
    PROVE  WorkTyped' /\ Waits' /\ Onward
<1>1. Queue!ProcessQueue(queue, deleting, tally) /\ UNCHANGED <<tally, accepted>>
    BY DEF Queue!Settle
<1>2. Len(queue) \in Nat /\ queue \in [1 .. Len(queue) -> Queue!Item]
    BY DEF WorkTyped
<1>3. /\ queue' \in Seq(Queue!Item) /\ Distinct(queue')
      /\ Held(deleting') /\ Apart(queue', deleting')
      /\ deleting \subseteq deleting' /\ Items(queue) \subseteq deleting' \cup Items(queue')
      /\ Cardinality(deleting') + Len(queue') = Cardinality(deleting) + Len(queue)
      /\ ~inRun' => queue' = <<>> /\ deleting' = {}
    BY <1>1, <1>2, Processed DEF Waits
<1>4. WorkTyped'
    BY <1>1, <1>3, ProcessTyped DEF WorkTyped, Held
<1>5. Queue!CountsAddUp'
    <2> DEFINE r == Cardinality(deleting)  r2 == Cardinality(deleting')
               b == Len(queue)  b2 == Len(queue')
    <2>1. r \in Nat /\ r2 \in Nat
        BY <1>3, FS_CardinalityType DEF Waits, Held
    <2>2. /\ tally.done + tally.failed + r + b = accepted.batch /\ b \in Nat
          /\ tally.done \in Nat /\ tally.failed \in Nat
        BY <1>2, CountOf DEF Waits, Queue!CountsAddUp, WorkTyped
    <2>3. r2 + b2 = r + b /\ b2 \in Nat
        BY <1>3
    <2> HIDE DEF r, r2, b, b2
    <2>4. tally.done + tally.failed + r2 + b2 = accepted.batch
        BY <2>1, <2>2, <2>3
    <2>. QED
        BY <1>1, <2>4, CountOf DEF Queue!CountsAddUp, r2, b2
<1>6. Onward
    BY <1>3 DEF Onward, Apart, Items
<1>. QED
    BY <1>3, <1>4, <1>5, <1>6 DEF Waits

LEMMA QueueStarts == Queue!Init => QueueInv
<1> SUFFICES ASSUME Queue!Init PROVE QueueInv
    OBVIOUS
<1>1. Queue!TypeOK /\ OnePerId(asked)
    <2>1. inRun \in BOOLEAN /\ queue \in Seq(Queue!Item)
        <3>1. inRun \in BOOLEAN
            BY Zenon DEF Queue!Init
        <3>2. queue = <<>>
            BY DEF Queue!Init
        <3>. QED
            BY <3>1, <3>2, EmptySeq
    <2>2. /\ tally \in [done : Nat, failed : Nat] /\ accepted \in [batch : Nat, all : Nat]
          /\ pasted \in [at : {Queue!None, "sent", "answered"}, ids : SUBSET Mailbox]
        BY DEF Queue!Init
    <2>. QED
        BY <2>1, <2>2 DEF Queue!Init, Queue!TypeOK, OnePerId
<1>2. IsFiniteSet({}) /\ Cardinality({}) = 0
    BY FS_EmptySet
<1>3. Waits
    BY <1>2, CountOf, ConsoleAssumption
    DEF Queue!Init, Waits, Held, Distinct, Apart, OnePerId, OnePerKey, Queue!CountsAddUp
<1>. QED
    BY <1>1, <1>3 DEF QueueInv

LEMMA QueuePreserved == QueueInv /\ [Queue!Next]_(Queue!vars) => QueueInv' /\ Onward
<1> SUFFICES ASSUME QueueInv, [Queue!Next]_(Queue!vars) PROVE QueueInv' /\ Onward
    OBVIOUS
<1> DEFINE
      PageTyped ==
          /\ pool \subseteq Mailbox /\ ticked \subseteq Mailbox
          /\ confirmation \in {Queue!None, "deletion", "other"}
          /\ asked \in SUBSET Queue!Item
          /\ pasted \in [at : {Queue!None, "sent", "answered"}, ids : SUBSET Mailbox]
          /\ settling \in Nat
      Work == <<queue, deleting, inRun, tally, queueNotice, accepted>>
<1>1. WorkTyped /\ Waits /\ PageTyped /\ OnePerId(asked)
    BY DEF QueueInv, WorkTyped, Queue!TypeOK
<1>2. SUFFICES WorkTyped' /\ Waits' /\ Onward /\ PageTyped' /\ OnePerId(asked')
    BY DEF QueueInv, WorkTyped, Queue!TypeOK
<1>3. ASSUME NEW m \in Mailbox, Queue!Tick(m)
      PROVE  UNCHANGED Work /\ PageTyped' /\ OnePerId(asked')
    BY <1>1, <1>3 DEF Queue!Tick
<1>4. ASSUME NEW m \in Mailbox, Queue!AskRow(m)
      PROVE  UNCHANGED Work /\ PageTyped' /\ OnePerId(asked')
    BY <1>1, <1>4 DEF Queue!AskRow, Queue!Item, Queue!Origin, OnePerId
<1>5. CASE Queue!AskTicked
    <2>1. UNCHANGED Work /\ PageTyped' /\ OnePerId(asked')
        BY <1>1, <1>5 DEF Queue!AskTicked, Queue!Item, Queue!Origin, OnePerId
    <2>. QED
        BY <1>1, <2>1, Unmoved
<1>6. CASE Queue!AskOther \/ Queue!Cancel
    <2>1. UNCHANGED Work /\ PageTyped' /\ OnePerId(asked')
        BY <1>1, <1>6 DEF Queue!AskOther, Queue!Cancel, OnePerId
    <2>. QED
        BY <1>1, <2>1, Unmoved
<1>7. CASE Queue!SubmitPasted \/ Queue!Resolve
    <2>1. UNCHANGED Work /\ PageTyped' /\ OnePerId(asked')
        BY <1>1, <1>7 DEF Queue!SubmitPasted, Queue!Resolve
    <2>. QED
        BY <1>1, <2>1, Unmoved
<1>8. CASE Queue!Accept
    <2>1. PageTyped' /\ OnePerId(asked')
        BY <1>1, <1>8 DEF Queue!Accept, OnePerId
    <2>2. CASE confirmation = "deletion"
        <3>1. Queue!Enqueue(asked)
            BY <1>8, <2>2 DEF Queue!Accept
        <3>. QED
            BY <1>1, <2>1, <3>1, Enqueued
    <2>3. CASE confirmation # "deletion"
        <3>1. UNCHANGED Work
            BY <1>8, <2>3 DEF Queue!Accept
        <3>. QED
            BY <1>1, <2>1, <3>1, Unmoved
    <2>. QED
        BY <2>2, <2>3
<1>9. CASE Queue!PastedArrives
    <2> DEFINE found == {[id |-> m, from |-> "full"] : m \in {n \in pasted.ids : ~Queue!Busy(n)}}
    <2>1. PageTyped' /\ asked' = asked
        BY <1>1, <1>9 DEF Queue!PastedArrives
    <2>2. found \in SUBSET Queue!Item /\ OnePerId(found)
        BY <1>1 DEF Queue!Item, Queue!Origin, OnePerId
    <2>3. Queue!Enqueue(found)
        BY <1>9 DEF Queue!PastedArrives
    <2> HIDE DEF found
    <2>. QED
        BY <1>1, <2>1, <2>2, <2>3, Enqueued
<1>10. ASSUME NEW item \in Queue!Item, NEW ok \in BOOLEAN, Queue!DeletionAnswered(item, ok)
       PROVE  WorkTyped' /\ Waits' /\ Onward /\ PageTyped' /\ OnePerId(asked')
    <2>1. PageTyped' /\ asked' = asked
        BY <1>1, <1>10 DEF Queue!DeletionAnswered
    <2>. QED
        BY <1>1, <1>10, <2>1, Answered
<1>11. CASE Queue!Settle
    <2>1. PageTyped' /\ asked' = asked
        BY <1>1, <1>11 DEF Queue!Settle
    <2>. QED
        BY <1>1, <1>11, <2>1, Settled
<1>12. CASE UNCHANGED Queue!vars
    <2>1. UNCHANGED Work /\ PageTyped' /\ OnePerId(asked')
        BY <1>1, <1>12 DEF Queue!vars
    <2>. QED
        BY <1>1, <2>1, Unmoved
<1> HIDE DEF PageTyped
<1>. QED
    BY <1>1, <1>3, <1>4, <1>5, <1>6, <1>7, <1>8, <1>9, <1>10, <1>11, <1>12, Unmoved
    DEF Queue!Next

-----------------------------------------------------------------------------
(* The theorems                                                              *)

LEMMA QueueSteps == [Next]_vars => [Queue!Next]_(Queue!vars)
BY DEF Next, vars, Rest, Opens, QueueVars, Queue!vars

LEMMA QueueAlways == Spec => []QueueInv
<1>1. Init => Queue!Init
    BY DEF Init
<1>. QED
    BY <1>1, QueueStarts, QueuePreserved, QueueSteps, PTL DEF Spec

\* Two deletions of one account run together only if one of them comes from a ticked row, whose
\* account the queue cannot know, and never more than the queue has places.
\* (processDeleteQueue, removeSelectedMailboxes, submitBulkDeleteEmails)
THEOREM AccountsAlwaysSerialised == Spec => []AccountsSerialised
<1>1. ASSUME QueueInv PROVE AccountsSerialised
    <2>1. Held(deleting)
        BY <1>1 DEF QueueInv, Waits
    <2>2. ASSUME NEW v \in deleting, NEW w \in deleting, AccountOf[v.id] = AccountOf[w.id],
                 v.from = w.from
          PROVE  v = w
        BY <2>1, <2>2 DEF Held, OnePerKey, Queue!KeyOf
    <2>. QED
        BY <2>1, <2>2, CountOf DEF AccountsSerialised, Queue!AccountsSerialised, Held
<1>. QED
    BY <1>1, QueueAlways, PTL

\* The notice's figures are those of everything accepted since the counters were cleared.
\* (updateDeleteProgress, enqueueMailboxDeletions)
THEOREM CountsAlwaysAddUp == Spec => []CountsAddUp
<1>1. QueueInv => CountsAddUp
    BY DEF QueueInv, Waits, CountsAddUp
<1>. QED
    BY <1>1, QueueAlways, PTL

\* Every step of the queue is one of KeyedWork: what is accepted waits, runs and is gone, each
\* lane one at a time and each mailbox once; nothing is dropped and nothing runs twice.  That
\* everything which waits runs in the end is left to the run.
\* (enqueueMailboxDeletions, processDeleteQueue, executeMailboxDeletion)
THEOREM QueueKeepsItsPromise == Spec => Queue!Pool!Safety
<1>1. Init => Queue!Pool!Init
    BY DEF Init, Queue!Init, Queue!Pool!Init, Queue!Waiting, Queue!ToSet
<1>2. ASSUME QueueInv, QueueInv', Onward PROVE Queue!Pool!Next
    <2>1. Queue!Waiting = Items(queue) /\ Queue!Waiting' = Items(queue')
        BY DEF Queue!Waiting, Queue!ToSet, Items
    <2>2. Held(deleting') /\ Apart(queue', deleting') /\ Distinct(queue')
        BY <1>2 DEF QueueInv, Waits
    <2>3. Items(queue') \cup deleting' \subseteq Queue!Item
        BY <1>2 DEF QueueInv, Queue!TypeOK, Items
    <2>4. OnePerId(Items(queue') \cup deleting') /\ Items(queue') \cap deleting' = {}
        BY <2>2 DEF Held, Apart, Distinct, Items, OnePerId
    <2>. QED
        BY <1>2, <2>1, <2>2, <2>3, <2>4, PoolCountOf
        DEF Onward, Queue!Pool!Next, Queue!Pool!OnePer, OnePerId, Held, OnePerKey
<1>. QED
    BY <1>1, <1>2, QueueAlways, QueuePreserved, QueueSteps, PTL DEF Spec, Queue!Pool!Safety
=============================================================================
