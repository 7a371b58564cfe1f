------------------------ MODULE AlertLifecycleProofs ------------------------
(***************************************************************************)
(* The alerts of a machine, for every set of conditions, any number of     *)
(* requests under way and any thresholds: the rows of a condition do not   *)
(* pile up, and a rule is resolved only after a run of normal samples.     *)
(***************************************************************************)
EXTENDS AlertLifecycle, FiniteSetTheorems, WellFoundedInduction, TLAPS

-----------------------------------------------------------------------------
(* A handler that found no row and may still insert one. *)
Asking == {"count", "confirm", "create"}

Asks(h) == pc[h] \in Asking /\ found[h] = {}

Pending(k) == {h \in Handlers : Asks(h) /\ Class[key[h]] = Class[k]}

(* What a handler has in hand where it stands. *)
Fits(p, s, k, f) ==
  /\ p \in {"count", "confirm", "create", "resolve", "reset"} => k \in Conditions
  /\ p = "count" => k \in Rules \/ (k \in Checks /\ f = {})
  /\ p = "count" /\ k \in Rules /\ k \notin s => f # {}
  /\ p = "confirm" => k \in Checks /\ f = {}
  /\ p = "create" => f = {}
  /\ p = "resolve" => f # {}

Linked == \A h \in Handlers : Fits(pc[h], sample[h], key[h], found[h])

HandlersTyped ==
  /\ pc \in [Handlers -> PCs]
  /\ sample \in [Handlers -> SUBSET Conditions]
  /\ todo \in [Handlers -> SUBSET Conditions]
  /\ key \in [Handlers -> Conditions \cup {None}]
  /\ found \in [Handlers -> SUBSET Row]
  /\ sweep \in [Handlers -> SUBSET Row]

TableTyped == active \in SUBSET Row /\ dups \in SUBSET Row

CountersTyped ==
  /\ breach \in [Counters -> 0 .. ReqBreaches]
  /\ normal \in [Rules -> 0 .. ReqNormal]
  /\ trend \in [Rules -> -ReqNormal .. ReqBreaches]

FaultsTyped ==
  /\ closes \in 0 .. MaxCloses /\ dbFails \in 0 .. MaxDbFails
  /\ restarts \in 0 .. MaxRestarts

(* Every row was inserted by a handler that had asked in vain: one of the  *)
(* handlers, or one whose query failed.                                    *)
Counted ==
  /\ IsFiniteSet(active)
  /\ \A k \in Conditions :
       Cardinality(Matching(k)) + Cardinality(Pending(k)) <= Cardinality(Handlers) + dbFails

(* The count of normal samples of a rule is never ahead of what was        *)
(* counted since the last breach.                                          *)
Sustained == \A r \in Rules : normal[r] > 0 => trend[r] <= -normal[r]

Sound ==
  /\ TableTyped /\ HandlersTyped /\ CountersTyped /\ FaultsTyped
  /\ Linked /\ Counted /\ Sustained

-----------------------------------------------------------------------------
(* The effect of a step on the handler that takes it. *)
Moves(h, p, s, t, k, f, w) ==
  /\ pc' = [pc EXCEPT ![h] = p]
  /\ sample' = [sample EXCEPT ![h] = s]
  /\ todo' = [todo EXCEPT ![h] = t]
  /\ key' = [key EXCEPT ![h] = k]
  /\ found' = [found EXCEPT ![h] = f]
  /\ sweep' = [sweep EXCEPT ![h] = w]

(* A nonempty set of natural numbers has a minimum. *)
LEMMA MinIsIn ==
  ASSUME NEW S \in SUBSET Nat, S # {}
  PROVE  Min(S) \in S
<1>1. PICK m \in S : \A n \in S : <<n, m>> \notin OpToRel(<, Nat)
  BY WFMin, NatLessThanWellFounded
<1>2. \A n \in S : ~(n < m)
  BY <1>1, Zenon DEF OpToRel
<1>3. \A n \in S : m <= n
  BY <1>2
<1>. QED
  BY <1>3 DEF Min

(* What a handler does not touch is an update by what is there. *)
LEMMA Kept ==
  ASSUME HandlersTyped, NEW h \in Handlers
  PROVE  /\ sample = [sample EXCEPT ![h] = sample[h]]
         /\ todo = [todo EXCEPT ![h] = todo[h]]
         /\ key = [key EXCEPT ![h] = key[h]]
         /\ found = [found EXCEPT ![h] = found[h]]
         /\ sweep = [sweep EXCEPT ![h] = sweep[h]]
BY DEF HandlersTyped

(* A step that gives its handler a proper state keeps all of them proper. *)
LEMMA MovesKeep ==
  ASSUME HandlersTyped, Linked, NEW h \in Handlers,
         NEW p \in PCs, NEW s \in SUBSET Conditions, NEW t \in SUBSET Conditions,
         NEW k \in Conditions \cup {None}, NEW f \in SUBSET Row, NEW w \in SUBSET Row,
         Fits(p, s, k, f), Moves(h, p, s, t, k, f, w)
  PROVE  HandlersTyped' /\ Linked'
<1>1. HandlersTyped'
  BY DEF HandlersTyped, Moves
<1>2. \A g \in Handlers : Fits(pc'[g], sample'[g], key'[g], found'[g])
  <2> TAKE g \in Handlers
  <2>1. CASE g = h
    BY <2>1 DEF HandlersTyped, Moves
  <2>2. CASE g # h
    <3>1. pc'[g] = pc[g] /\ sample'[g] = sample[g] /\ key'[g] = key[g] /\ found'[g] = found[g]
      BY <2>2 DEF HandlersTyped, Moves
    <3>. QED
      BY <3>1 DEF Linked
  <2>. QED
    BY <2>1, <2>2
<1>. QED
  BY <1>1, <1>2 DEF Linked

(* Leaving a condition, as a move. *)
LEMMA GotoMoves ==
  ASSUME HandlersTyped, NEW h \in Handlers, NEW where, Goto(h, where)
  PROVE  /\ pc' = [pc EXCEPT ![h] = where]
         /\ key' = [key EXCEPT ![h] = None]
         /\ found' = [found EXCEPT ![h] = {}]
         /\ sample' = [sample EXCEPT ![h] = IF where = "idle" THEN {} ELSE sample[h]]
BY Kept DEF Goto

(* A handler between two conditions has nothing in hand to fit. *)
LEMMA GotoFits ==
  ASSUME NEW s, NEW k, NEW f, NEW p \in {"idle", "evaluate", "events", "sweep"}
  PROVE  Fits(p, s, k, f)
BY DEF Fits

(* The counted sets are finite; a handler asks for one condition at most.  *)
LEMMA Sizes ==
  ASSUME Counted, NEW k
  PROVE  /\ IsFiniteSet(Matching(k)) /\ Cardinality(Matching(k)) \in Nat
         /\ IsFiniteSet(Pending(k)) /\ Cardinality(Pending(k)) \in Nat
         /\ Cardinality(Pending(k)) <= Cardinality(Handlers) /\ Cardinality(Handlers) \in Nat
<1>1. Matching(k) \in SUBSET active /\ Pending(k) \in SUBSET Handlers
  BY DEF Matching, Pending
<1>2. IsFiniteSet(active) /\ IsFiniteSet(Handlers)
  BY AlertAssumption DEF Counted
<1>. QED
  BY <1>1, <1>2, FS_Subset, FS_CardinalityType

(* No row is added and no handler begins to ask. *)
LEMMA CountedShrinks ==
  ASSUME Counted, dbFails \in Nat, dbFails' \in Nat, dbFails <= dbFails',
         active' \subseteq active,
         \A g \in Handlers : Asks(g)' => Asks(g) /\ key'[g] = key[g]
  PROVE  Counted'
<1>1. IsFiniteSet(active')
  BY FS_Subset DEF Counted
<1>2. ASSUME NEW k \in Conditions
      PROVE  /\ Cardinality(Matching(k)') <= Cardinality(Matching(k))
             /\ Cardinality(Pending(k)') <= Cardinality(Pending(k))
             /\ Cardinality(Matching(k)') \in Nat /\ Cardinality(Pending(k)') \in Nat
  <2>1. Matching(k)' \in SUBSET Matching(k)
    BY DEF Matching
  <2>2. Pending(k)' \in SUBSET Pending(k)
    BY DEF Pending
  <2>. QED
    BY <2>1, <2>2, Sizes, FS_Subset, FS_CardinalityType
<1>3. ASSUME NEW k \in Conditions
      PROVE  Cardinality(Matching(k)') + Cardinality(Pending(k)') <= Cardinality(Handlers) + dbFails'
  <2>1. Cardinality(Matching(k)) + Cardinality(Pending(k)) <= Cardinality(Handlers) + dbFails
    BY DEF Counted
  <2>. QED
    BY <1>2, <2>1, Sizes
<1>. QED
  BY <1>1, <1>3 DEF Counted

(* A handler asks about a condition: either there is no row of it, or the  *)
(* query failed and is counted.                                            *)
LEMMA CountedAsks ==
  ASSUME Counted, NEW h \in Handlers, NEW q \in Conditions,
         active' = active, dbFails \in Nat,
         \/ Matching(q) = {} /\ dbFails' = dbFails
         \/ dbFails' = dbFails + 1,
         key'[h] = q,
         \A g \in Handlers \ {h} : Asks(g)' => Asks(g) /\ key'[g] = key[g]
  PROVE  Counted'
<1>1. IsFiniteSet(active')
  BY DEF Counted
<1>2. ASSUME NEW k \in Conditions
      PROVE  Cardinality(Matching(k)') + Cardinality(Pending(k)') <= Cardinality(Handlers) + dbFails'
  <2>0. Cardinality(Matching(k)) + Cardinality(Pending(k)) <= Cardinality(Handlers) + dbFails
    BY DEF Counted
  <2>1. Matching(k)' = Matching(k)
    BY DEF Matching
  <2>2. Pending(k)' \in SUBSET (Pending(k) \cup {h})
    BY DEF Pending
  <2>3. Pending(k)' \in SUBSET Handlers
    BY DEF Pending
  <2>4. /\ Cardinality(Pending(k)') \in Nat
        /\ Cardinality(Pending(k)') <= Cardinality(Handlers)
    BY <2>3, AlertAssumption, FS_Subset, FS_CardinalityType
  <2>5. CASE dbFails' = dbFails + 1
    <3>1. /\ IsFiniteSet(Pending(k) \cup {h})
          /\ \/ Cardinality(Pending(k) \cup {h}) = Cardinality(Pending(k)) + 1
             \/ Cardinality(Pending(k) \cup {h}) = Cardinality(Pending(k))
      BY Sizes, FS_AddElement
    <3>2. Cardinality(Pending(k)') <= Cardinality(Pending(k) \cup {h})
      BY <2>2, <3>1, FS_Subset
    <3>. QED
      BY <2>0, <2>1, <2>4, <2>5, <3>1, <3>2, Sizes
  <2>6. CASE Matching(q) = {} /\ dbFails' = dbFails
    <3>1. CASE Class[k] = Class[q]
      <4>1. Cardinality(Matching(k)) = 0
        BY <2>6, <3>1, FS_EmptySet DEF Matching
      <4>. QED
        BY <2>1, <2>4, <2>6, <4>1, Sizes
    <3>2. CASE Class[k] # Class[q]
      <4>1. Pending(k)' \in SUBSET Pending(k)
        BY <3>2 DEF Pending
      <4>2. Cardinality(Pending(k)') <= Cardinality(Pending(k))
        BY <4>1, Sizes, FS_Subset
      <4>. QED
        BY <2>0, <2>1, <2>4, <2>6, <4>2, Sizes
    <3>. QED
      BY <3>1, <3>2
  <2>. QED
    BY <2>5, <2>6
<1>. QED
  BY <1>1, <1>2 DEF Counted

(* A handler that asks inserts its row, and asks no more. *)
LEMMA CountedInserts ==
  ASSUME Counted, NEW h \in Handlers, NEW n,
         Asks(h), ~Asks(h)', key[h] \in Conditions,
         active' = active \cup {<<key[h], n>>},
         dbFails \in Nat, dbFails' = dbFails,
         \A g \in Handlers \ {h} : Asks(g)' => Asks(g) /\ key'[g] = key[g]
  PROVE  Counted'
<1> DEFINE row == <<key[h], n>>
<1>1. IsFiniteSet(active')
  BY FS_AddElement DEF Counted
<1>2. ASSUME NEW k \in Conditions
      PROVE  Cardinality(Matching(k)') + Cardinality(Pending(k)') <= Cardinality(Handlers) + dbFails'
  <2>0. Cardinality(Matching(k)) + Cardinality(Pending(k)) <= Cardinality(Handlers) + dbFails
    BY DEF Counted
  <2>1. About(row) = key[h]
    BY DEF About
  <2>2. Pending(k)' \in SUBSET (Pending(k) \ {h})
    BY DEF Pending
  <2>3. Matching(k)' \in SUBSET (Matching(k) \cup {row})
    BY DEF Matching
  <2>4. Pending(k) \ {h} \in SUBSET Pending(k)
    OBVIOUS
  <2>5. /\ Cardinality(Pending(k)') \in Nat /\ IsFiniteSet(Pending(k) \ {h})
        /\ Cardinality(Pending(k)') <= Cardinality(Pending(k) \ {h})
        /\ Cardinality(Pending(k) \ {h}) \in Nat
        /\ Cardinality(Pending(k) \ {h}) <= Cardinality(Pending(k))
    BY <2>2, <2>4, Sizes, FS_Subset, FS_CardinalityType
  <2>6. CASE Class[k] = Class[key[h]]
    <3>1. h \in Pending(k)
      BY <2>6 DEF Pending
    <3>2. Cardinality(Pending(k) \ {h}) = Cardinality(Pending(k)) - 1
      BY <3>1, Sizes, FS_RemoveElement
    <3>3. /\ IsFiniteSet(Matching(k) \cup {row})
          /\ \/ Cardinality(Matching(k) \cup {row}) = Cardinality(Matching(k)) + 1
             \/ Cardinality(Matching(k) \cup {row}) = Cardinality(Matching(k))
      BY Sizes, FS_AddElement
    <3>4. /\ Cardinality(Matching(k)') <= Cardinality(Matching(k) \cup {row})
          /\ Cardinality(Matching(k)') \in Nat
      BY <2>3, <3>3, FS_Subset, FS_CardinalityType
    <3>. QED
      BY <2>0, <2>5, <3>2, <3>3, <3>4, Sizes
  <2>7. CASE Class[k] # Class[key[h]]
    <3>1. Matching(k)' = Matching(k)
      BY <2>1, <2>7 DEF Matching
    <3>. QED
      BY <2>0, <2>5, <3>1, Sizes
  <2>. QED
    BY <2>6, <2>7
<1>. QED
  BY <1>1, <1>2 DEF Counted

-----------------------------------------------------------------------------
(* A step of one handler that leaves the table and the counters as they    *)
(* are, or only takes rows away: enough that its handler stays proper and  *)
(* does not begin to ask.                                                  *)
LEMMA MovesSound ==
  ASSUME Sound, NEW h \in Handlers,
         NEW p \in PCs, NEW s \in SUBSET Conditions, NEW t \in SUBSET Conditions,
         NEW k \in Conditions \cup {None}, NEW f \in SUBSET Row, NEW w \in SUBSET Row,
         Fits(p, s, k, f), Moves(h, p, s, t, k, f, w),
         p \in Asking /\ f = {} => Asks(h) /\ k = key[h],
         active' \subseteq active, dups' = dups,
         dbFails' \in 0 .. MaxDbFails, dbFails <= dbFails',
         closes' = closes, restarts' = restarts,
         CountersTyped', Sustained'
  PROVE  Sound'
<1>1. HandlersTyped' /\ Linked'
  BY MovesKeep DEF Sound
<1>2. TableTyped' /\ FaultsTyped'
  BY DEF Sound, TableTyped, FaultsTyped
<1>3. \A g \in Handlers : Asks(g)' => Asks(g) /\ key'[g] = key[g]
  <2> SUFFICES ASSUME NEW g \in Handlers, Asks(g)'
               PROVE  Asks(g) /\ key'[g] = key[g]
    OBVIOUS
  <2>1. CASE g = h
    <3>1. pc'[h] = p /\ found'[h] = f /\ key'[h] = k
      BY DEF Moves, Sound, HandlersTyped
    <3>. QED
      BY <2>1, <3>1 DEF Asks
  <2>2. CASE g # h
    <3>1. pc'[g] = pc[g] /\ found'[g] = found[g] /\ key'[g] = key[g]
      BY <2>2 DEF Moves, Sound, HandlersTyped
    <3>. QED
      BY <3>1 DEF Asks
  <2>. QED
    BY <2>1, <2>2
<1>4. Counted'
  <2>1. dbFails \in Nat /\ dbFails' \in Nat
    BY AlertAssumption DEF Sound, FaultsTyped
  <2>. QED
    BY <1>3, <2>1, CountedShrinks DEF Sound
<1>. QED
  BY <1>1, <1>2, <1>4 DEF Sound

(* Most steps count nothing. *)
LEMMA CountersStay ==
  ASSUME Sound, UNCHANGED <<breach, normal, trend>>
  PROVE  CountersTyped' /\ Sustained'
BY DEF Sound, CountersTyped, Sustained

(* A step that ends what its handler does with a condition. *)
LEMMA LeavesSound ==
  ASSUME Sound, NEW h \in Handlers,
         NEW where \in {"idle", "evaluate", "events", "sweep"}, Goto(h, where),
         NEW t \in SUBSET Conditions, todo' = [todo EXCEPT ![h] = t],
         NEW w \in SUBSET Row, sweep' = [sweep EXCEPT ![h] = w],
         active' \subseteq active, dups' = dups,
         dbFails' \in 0 .. MaxDbFails, dbFails <= dbFails',
         closes' = closes, restarts' = restarts,
         CountersTyped', Sustained'
  PROVE  Sound'
<1> DEFINE s == IF where = "idle" THEN {} ELSE sample[h]
<1>1. Moves(h, where, s, t, None, {}, w)
  BY GotoMoves DEF Moves, Sound
<1>2. where \in PCs /\ s \in SUBSET Conditions
  BY DEF PCs, Sound, HandlersTyped
<1>3. Fits(where, s, None, {})
  BY GotoFits
<1>4. None \in Conditions \cup {None} /\ {} \in SUBSET Row /\ where \notin Asking
  BY DEF Asking
<1> HIDE DEF s
<1>. QED
  BY <1>1, <1>2, <1>3, <1>4, MovesSound

(* What the handler has in hand is typed. *)
LEMMA InHand ==
  ASSUME Sound, NEW h \in Handlers
  PROVE  /\ pc[h] \in PCs /\ sample[h] \in SUBSET Conditions /\ todo[h] \in SUBSET Conditions
         /\ key[h] \in Conditions \cup {None} /\ found[h] \in SUBSET Row
         /\ sweep[h] \in SUBSET Row
         /\ Fits(pc[h], sample[h], key[h], found[h])
         /\ dbFails \in 0 .. MaxDbFails /\ dbFails <= dbFails /\ dbFails \in Nat
         /\ dbFails < MaxDbFails => dbFails + 1 \in 0 .. MaxDbFails /\ dbFails <= dbFails + 1
BY AlertAssumption DEF Sound, HandlersTyped, Linked, FaultsTyped

(* A request arrives. *)
LEMMA ReceiveSound ==
  ASSUME Sound, NEW h \in Handlers, Receive(h) \/ ReceiveEvent(h) \/ ReceiveRecovery(h)
  PROVE  Sound'
<1> USE DEF faults, handlers
<1>1. CASE Receive(h)
  <2>1. PICK S \in SUBSET Conditions :
          /\ sample' = [sample EXCEPT ![h] = S]
          /\ todo' = [todo EXCEPT ![h] = Rules \cup (S \cap Checks)]
    BY <1>1 DEF Receive
  <2> DEFINE t == Rules \cup (S \cap Checks)
  <2>2. Moves(h, "evaluate", S, t, key[h], found[h], sweep[h])
    BY <1>1, <2>1, Kept DEF Receive, Moves, Sound
  <2>3. "evaluate" \in PCs /\ t \in SUBSET Conditions /\ "evaluate" \notin Asking
    BY DEF PCs, Asking, Conditions
  <2>4. Fits("evaluate", S, key[h], found[h])
    BY GotoFits
  <2>5. /\ active' \subseteq active /\ UNCHANGED <<breach, normal, trend>>
        /\ dups' = dups /\ dbFails' = dbFails /\ closes' = closes /\ restarts' = restarts
    BY <1>1 DEF Receive
  <2> HIDE DEF t
  <2>. QED
    BY <2>2, <2>3, <2>4, <2>5, InHand, CountersStay, MovesSound
<1>2. CASE ReceiveEvent(h)
  <2>1. PICK e \in Events : todo' = [todo EXCEPT ![h] = {e}]
    BY <1>2 DEF ReceiveEvent
  <2>2. Moves(h, "events", sample[h], {e}, key[h], found[h], sweep[h])
    BY <1>2, <2>1, Kept DEF ReceiveEvent, Moves, Sound
  <2>3. "events" \in PCs /\ {e} \in SUBSET Conditions /\ "events" \notin Asking
    BY DEF PCs, Asking, Conditions
  <2>4. Fits("events", sample[h], key[h], found[h])
    BY GotoFits
  <2>5. /\ active' \subseteq active /\ UNCHANGED <<breach, normal, trend>>
        /\ dups' = dups /\ dbFails' = dbFails /\ closes' = closes /\ restarts' = restarts
    BY <1>2 DEF ReceiveEvent
  <2>. QED
    BY <2>2, <2>3, <2>4, <2>5, InHand, CountersStay, MovesSound
<1>3. CASE ReceiveRecovery(h)
  <2>1. PICK e \in Events : \E i \in Matching(e) :
          key' = [key EXCEPT ![h] = e] /\ found' = [found EXCEPT ![h] = {i}]
    BY <1>3 DEF ReceiveRecovery
  <2>2. PICK i \in Matching(e) :
          key' = [key EXCEPT ![h] = e] /\ found' = [found EXCEPT ![h] = {i}]
    BY <2>1
  <2>3. Moves(h, "resolve", sample[h], todo[h], e, {i}, sweep[h])
    BY <1>3, <2>2, Kept DEF ReceiveRecovery, Moves, Sound
  <2>4. /\ "resolve" \in PCs /\ "resolve" \notin Asking /\ e \in Conditions
        /\ {i} \in SUBSET Row
    BY DEF PCs, Asking, Conditions, Matching, Sound, TableTyped
  <2>5. Fits("resolve", sample[h], e, {i})
    BY <2>4 DEF Fits
  <2>6. /\ active' \subseteq active /\ UNCHANGED <<breach, normal, trend>>
        /\ dups' = dups /\ dbFails' = dbFails /\ closes' = closes /\ restarts' = restarts
    BY <1>3 DEF ReceiveRecovery
  <2>. QED
    BY <2>3, <2>4, <2>5, <2>6, InHand, CountersStay, MovesSound
<1>. QED
  BY <1>1, <1>2, <1>3

(* The counters are held at what the code compares them with, and a trend  *)
(* calms down by one count at a time.                                      *)
LEMMA UpToFacts ==
  ASSUME NEW n \in Nat, NEW max \in Nat
  PROVE  UpTo(n, max) \in 0 .. max /\ (UpTo(n, max) >= max <=> n >= max)
BY DEF UpTo

(* One more normal sample: the trend falls no slower than the count grows. *)
LEMMA CalmerFacts ==
  ASSUME NEW t \in -ReqNormal .. ReqBreaches
  PROVE  /\ Calmer(t) \in -ReqNormal .. ReqBreaches
         /\ Calmer(t) <= t
         /\ \A n \in 0 .. ReqNormal :
              (n > 0 => t <= -n) => Calmer(t) <= -UpTo(n + 1, ReqNormal)
BY AlertAssumption DEF Calmer, UpTo

(* Only the counter of one category and component changes. *)
LEMMA BreachSound ==
  ASSUME Sound, NEW c, NEW n \in 0 .. ReqBreaches,
         breach' = [breach EXCEPT ![c] = n], UNCHANGED <<normal, trend>>
  PROVE  CountersTyped' /\ Sustained'
BY DEF Sound, CountersTyped, Sustained

(* Loop leads to one of the places a handler leaves a condition for. *)
LEMMA LoopLeaves ==
  ASSUME NEW h, NEW k
  PROVE  Loop(h, k) \in {"idle", "evaluate", "events", "sweep"}
BY DEF Loop

(* A breach is counted: the handler goes on to insert or leaves.           *)
LEMMA CountBreachSound ==
  ASSUME Sound, NEW h \in Handlers, CountBreach(h)
  PROVE  Sound'
<1> USE DEF faults
<1> DEFINE r == key[h]
           n == UpTo(breach[Class[r]] + 1, ReqBreaches)
           m == UpTo((IF trend[r] > 0 THEN trend[r] ELSE 0) + 1, ReqBreaches)
<1>1. pc[h] = "count" /\ r \in Rules /\ r \in Conditions
  BY DEF CountBreach, Conditions
<1>2. Class[r] \in Counters
  BY <1>1, AlertAssumption DEF Counters, Range
<1>3. breach[Class[r]] \in Nat /\ trend[r] \in Int /\ ReqBreaches \in Nat /\ ReqNormal \in Nat
  BY <1>1, <1>2, AlertAssumption DEF Sound, CountersTyped
<1>4. n \in 0 .. ReqBreaches /\ m \in 0 .. ReqBreaches
  <2>1. breach[Class[r]] + 1 \in Nat /\ (IF trend[r] > 0 THEN trend[r] ELSE 0) + 1 \in Nat
    BY <1>3
  <2>. QED
    BY <2>1, <1>3, UpToFacts
<1>5. /\ breach' = [breach EXCEPT ![Class[r]] = n]
      /\ normal' = [normal EXCEPT ![r] = 0]
      /\ trend' = [trend EXCEPT ![r] = m]
  BY DEF CountBreach
<1> HIDE DEF n, m
<1>6. CountersTyped' /\ Sustained'
  <2>1. m \in -ReqNormal .. ReqBreaches /\ 0 \in 0 .. ReqNormal
    BY <1>3, <1>4
  <2>2. CountersTyped'
    BY <1>4, <1>5, <2>1 DEF Sound, CountersTyped
  <2>3. \A q \in Rules : normal'[q] > 0 => trend'[q] <= -normal'[q]
    <3> TAKE q \in Rules
    <3>1. CASE q = r
      BY <3>1, <1>5 DEF Sound, CountersTyped
    <3>2. CASE q # r
      <4>1. normal'[q] = normal[q] /\ trend'[q] = trend[q]
        BY <3>2, <1>5 DEF Sound, CountersTyped
      <4>. QED
        BY <4>1 DEF Sound, Sustained
    <3>. QED
      BY <3>1, <3>2
  <2>. QED
    BY <2>2, <2>3 DEF Sustained
<1>7. /\ active' \subseteq active /\ dups' = dups /\ dbFails' = dbFails
      /\ closes' = closes /\ restarts' = restarts
      /\ todo' = [todo EXCEPT ![h] = todo[h]] /\ sweep' = [sweep EXCEPT ![h] = sweep[h]]
  BY Kept DEF CountBreach, Sound
<1>8. CASE found[h] = {} /\ pc' = [pc EXCEPT ![h] = "create"] /\ UNCHANGED <<sample, key, found>>
  <2>1. Moves(h, "create", sample[h], todo[h], key[h], found[h], sweep[h])
    BY <1>7, <1>8, Kept DEF Moves, Sound
  <2>2. "create" \in PCs /\ Asks(h)
    BY <1>1, <1>8 DEF PCs, Asks, Asking
  <2>3. Fits("create", sample[h], key[h], found[h])
    BY <1>1, <1>8 DEF Fits
  <2>. QED
    BY <1>6, <1>7, <2>1, <2>2, <2>3, InHand, MovesSound
<1>9. CASE Goto(h, "evaluate")
  BY <1>6, <1>7, <1>9, InHand, LeavesSound
<1>. QED
  BY <1>8, <1>9 DEF CountBreach

(* A normal sample is counted: the handler goes on to resolve or leaves.   *)
LEMMA CountNormalSound ==
  ASSUME Sound, NEW h \in Handlers, CountNormal(h)
  PROVE  Sound'
<1> USE DEF faults
<1> DEFINE r == key[h]
           n == UpTo(normal[r] + 1, ReqNormal)
<1>1. pc[h] = "count" /\ r \in Rules /\ r \in Conditions /\ r \notin sample[h]
  BY DEF CountNormal, Conditions
<1>2. /\ normal[r] \in 0 .. ReqNormal /\ trend[r] \in -ReqNormal .. ReqBreaches
      /\ ReqBreaches \in Nat /\ ReqNormal \in Nat
      /\ normal[r] > 0 => trend[r] <= -normal[r]
  BY <1>1, AlertAssumption DEF Sound, CountersTyped, Sustained
<1>3. n \in 0 .. ReqNormal
  <2>1. normal[r] + 1 \in Nat
    BY <1>2
  <2>. QED
    BY <1>2, <2>1, UpToFacts
<1>4. /\ Calmer(trend[r]) \in -ReqNormal .. ReqBreaches
      /\ Calmer(trend[r]) <= -n
  BY <1>2, CalmerFacts
<1>5. /\ breach' = [breach EXCEPT ![Class[r]] = 0]
      /\ normal' = [normal EXCEPT ![r] = n]
      /\ trend' = [trend EXCEPT ![r] = Calmer(trend[r])]
  BY DEF CountNormal
<1> HIDE DEF n
<1>6. CountersTyped' /\ Sustained'
  <2>1. 0 \in 0 .. ReqBreaches
    BY <1>2
  <2>2. CountersTyped'
    BY <1>3, <1>4, <1>5, <2>1 DEF Sound, CountersTyped
  <2>3. \A q \in Rules : normal'[q] > 0 => trend'[q] <= -normal'[q]
    <3> TAKE q \in Rules
    <3>1. CASE q = r
      BY <3>1, <1>4, <1>5 DEF Sound, CountersTyped
    <3>2. CASE q # r
      <4>1. normal'[q] = normal[q] /\ trend'[q] = trend[q]
        BY <3>2, <1>5 DEF Sound, CountersTyped
      <4>. QED
        BY <4>1 DEF Sound, Sustained
    <3>. QED
      BY <3>1, <3>2
  <2>. QED
    BY <2>2, <2>3 DEF Sustained
<1>7. /\ active' \subseteq active /\ dups' = dups /\ dbFails' = dbFails
      /\ closes' = closes /\ restarts' = restarts
      /\ todo' = [todo EXCEPT ![h] = todo[h]] /\ sweep' = [sweep EXCEPT ![h] = sweep[h]]
  BY Kept DEF CountNormal, Sound
<1>8. CASE pc' = [pc EXCEPT ![h] = "resolve"] /\ UNCHANGED <<sample, key, found>>
  <2>1. Moves(h, "resolve", sample[h], todo[h], key[h], found[h], sweep[h])
    BY <1>7, <1>8, Kept DEF Moves, Sound
  <2>2. "resolve" \in PCs /\ "resolve" \notin Asking
    BY DEF PCs, Asking
  <2>3. Fits("resolve", sample[h], key[h], found[h])
    BY <1>1, InHand DEF Fits
  <2>. QED
    BY <1>6, <1>7, <2>1, <2>2, <2>3, InHand, MovesSound
<1>9. CASE Goto(h, "evaluate")
  BY <1>6, <1>7, <1>9, InHand, LeavesSound
<1>. QED
  BY <1>8, <1>9 DEF CountNormal

(* A check is counted, and confirmed before its row is inserted. *)
LEMMA CheckSound ==
  ASSUME Sound, NEW h \in Handlers, CountCheck(h) \/ Confirm(h)
  PROVE  Sound'
<1> USE DEF faults
<1>1. /\ active' \subseteq active /\ dups' = dups /\ dbFails' = dbFails
      /\ closes' = closes /\ restarts' = restarts
      /\ UNCHANGED <<normal, trend>>
      /\ todo' = [todo EXCEPT ![h] = todo[h]] /\ sweep' = [sweep EXCEPT ![h] = sweep[h]]
  BY Kept DEF CountCheck, Confirm, Sound
<1>2. CASE CountCheck(h)
  <2> DEFINE n == UpTo(breach[Class[key[h]]] + 1, ReqBreaches)
  <2>1. pc[h] = "count" /\ key[h] \in Checks /\ key[h] \in Conditions /\ key[h] \notin Rules
    BY <1>2, AlertAssumption DEF CountCheck, Conditions
  <2>2. found[h] = {}
    BY <2>1, InHand DEF Fits
  <2>3. n \in 0 .. ReqBreaches
    <3>1. Class[key[h]] \in Counters
      BY <2>1, AlertAssumption DEF Counters, Range
    <3>2. breach[Class[key[h]]] + 1 \in Nat /\ ReqBreaches \in Nat
      BY <3>1, AlertAssumption DEF Sound, CountersTyped
    <3>. QED
      BY <3>2, UpToFacts
  <2>4. CountersTyped' /\ Sustained'
    <3>1. breach' = [breach EXCEPT ![Class[key[h]]] = n]
      BY <1>2 DEF CountCheck
    <3> HIDE DEF n
    <3>. QED
      BY <3>1, <2>3, <1>1, BreachSound
  <2>5. CASE pc' = [pc EXCEPT ![h] = "confirm"] /\ UNCHANGED <<sample, key, found>>
    <3>1. Moves(h, "confirm", sample[h], todo[h], key[h], found[h], sweep[h])
      BY <1>1, <2>5, Kept DEF Moves, Sound
    <3>2. "confirm" \in PCs /\ Asks(h)
      BY <2>1, <2>2 DEF PCs, Asks, Asking
    <3>3. Fits("confirm", sample[h], key[h], found[h])
      BY <2>1, <2>2 DEF Fits
    <3>. QED
      BY <1>1, <2>4, <3>1, <3>2, <3>3, InHand, MovesSound
  <2>6. CASE Goto(h, "evaluate")
    BY <1>1, <2>4, <2>6, InHand, LeavesSound
  <2>. QED
    BY <1>2, <2>5, <2>6 DEF CountCheck
<1>3. CASE Confirm(h)
  <2>1. pc[h] = "confirm" /\ key[h] \in Conditions /\ found[h] = {}
    BY <1>3, InHand DEF Confirm, Fits
  <2>2. Moves(h, "create", sample[h], todo[h], key[h], found[h], sweep[h])
    BY <1>3, <1>1, Kept DEF Confirm, Moves, Sound
  <2>3. "create" \in PCs /\ Asks(h)
    BY <2>1 DEF PCs, Asks, Asking
  <2>4. Fits("create", sample[h], key[h], found[h])
    BY <2>1 DEF Fits
  <2>5. CountersTyped' /\ Sustained'
    <3>1. breach' = [breach EXCEPT ![Class[key[h]]] = 0] /\ 0 \in 0 .. ReqBreaches
      BY <1>3, AlertAssumption DEF Confirm
    <3>. QED
      BY <3>1, <1>1, BreachSound
  <2>. QED
    BY <1>1, <2>2, <2>3, <2>4, <2>5, InHand, MovesSound
<1>. QED
  BY <1>2, <1>3

(* The insertion, the only step that adds a row. *)
LEMMA CreateSound ==
  ASSUME Sound, NEW h \in Handlers, Create(h)
  PROVE  Sound'
<1> USE DEF faults
<1> DEFINE n == Min(Unused(key[h]))
           where == Loop(h, key[h])
           s == IF where = "idle" THEN {} ELSE sample[h]
<1>1. pc[h] = "create" /\ key[h] \in Conditions /\ found[h] = {} /\ Asks(h)
  BY InHand DEF Create, Fits, Asks, Asking
<1>2. n \in 1 .. MaxRows
  <2>1. Unused(key[h]) \in SUBSET (1 .. MaxRows) /\ Unused(key[h]) # {}
    BY DEF Create, Unused
  <2>2. Unused(key[h]) \in SUBSET Nat
    BY <2>1, AlertAssumption
  <2>. QED
    BY <2>1, <2>2, MinIsIn
<1>3. /\ active' = active \cup {<<key[h], n>>} /\ Goto(h, where)
      /\ dups' = dups /\ dbFails' = dbFails /\ closes' = closes /\ restarts' = restarts
      /\ UNCHANGED <<breach, normal, trend>>
      /\ todo' = [todo EXCEPT ![h] = todo[h]] /\ sweep' = [sweep EXCEPT ![h] = sweep[h]]
  BY Kept DEF Create, Sound
<1> HIDE DEF n
<1>4. where \in {"idle", "evaluate", "events", "sweep"}
  BY LoopLeaves
<1> HIDE DEF where
<1>5. Moves(h, where, s, todo[h], None, {}, sweep[h])
  BY <1>3, GotoMoves DEF Moves, Sound
<1>6. where \in PCs /\ s \in SUBSET Conditions /\ where \notin Asking
  BY <1>4, InHand DEF PCs, Asking
<1> HIDE DEF s
<1>7. HandlersTyped' /\ Linked'
  <2>1. Fits(where, s, None, {}) /\ None \in Conditions \cup {None} /\ {} \in SUBSET Row
    BY <1>4, GotoFits
  <2>. QED
    BY <1>5, <1>6, <2>1, InHand, MovesKeep DEF Sound
<1>8. TableTyped' /\ FaultsTyped'
  <2>1. <<key[h], n>> \in Row
    BY <1>1, <1>2 DEF Row
  <2>. QED
    BY <1>3, <2>1 DEF Sound, TableTyped, FaultsTyped
<1>9. Counted'
  <2>1. ~Asks(h)'
    <3>1. pc'[h] = where
      BY <1>5 DEF Moves, Sound, HandlersTyped
    <3>. QED
      BY <3>1, <1>6 DEF Asks
  <2>2. \A g \in Handlers \ {h} : Asks(g)' => Asks(g) /\ key'[g] = key[g]
    BY <1>5 DEF Moves, Sound, HandlersTyped, Asks
  <2>. QED
    BY <1>1, <1>3, <2>1, <2>2, InHand, CountedInserts DEF Sound
<1>. QED
  BY <1>3, <1>7, <1>8, <1>9, CountersStay DEF Sound

(* The steps that fail, and the end of a resolution. *)
LEMMA ResolveSound ==
  ASSUME Sound, NEW h \in Handlers, CreateFails(h) \/ Resolve(h) \/ ResolveFails(h)
  PROVE  Sound'
<1> USE DEF faults
<1>1. /\ active' \subseteq active /\ dups' = dups
      /\ dbFails' \in 0 .. MaxDbFails /\ dbFails <= dbFails'
      /\ closes' = closes /\ restarts' = restarts
      /\ UNCHANGED <<breach, normal, trend>>
      /\ todo' = [todo EXCEPT ![h] = todo[h]] /\ sweep' = [sweep EXCEPT ![h] = sweep[h]]
  BY Kept, InHand DEF CreateFails, Resolve, ResolveFails, Sound
<1>2. CASE CreateFails(h) \/ ResolveFails(h)
  <2>1. Goto(h, Loop(h, key[h]))
    BY <1>2 DEF CreateFails, ResolveFails
  <2>. QED
    BY <1>1, <2>1, LoopLeaves, InHand, CountersStay, LeavesSound
<1>3. CASE Resolve(h)
  <2>1. CASE Goto(h, "idle")
    BY <1>1, <2>1, InHand, CountersStay, LeavesSound
  <2>2. CASE pc' = [pc EXCEPT ![h] = "reset"] /\ found' = [found EXCEPT ![h] = {}]
             /\ UNCHANGED <<sample, key>>
    <3>1. pc[h] = "resolve" /\ key[h] \in Conditions
      BY <1>3, InHand DEF Resolve, Fits
    <3>2. Moves(h, "reset", sample[h], todo[h], key[h], {}, sweep[h])
      BY <1>1, <2>2, Kept DEF Moves, Sound
    <3>3. "reset" \in PCs /\ "reset" \notin Asking /\ {} \in SUBSET Row
      BY DEF PCs, Asking
    <3>4. Fits("reset", sample[h], key[h], {})
      BY <3>1 DEF Fits
    <3>. QED
      BY <1>1, <3>2, <3>3, <3>4, InHand, CountersStay, MovesSound
  <2>. QED
    BY <1>3, <2>1, <2>2 DEF Resolve
<1>. QED
  BY <1>2, <1>3

(* The reset of the counters, of a rule or of a swept row. *)
LEMMA ResetSound ==
  ASSUME Sound, NEW h \in Handlers, Reset(h)
  PROVE  Sound'
<1> USE DEF faults
<1>1. /\ active' \subseteq active /\ dups' = dups /\ dbFails' = dbFails
      /\ closes' = closes /\ restarts' = restarts /\ UNCHANGED trend
      /\ sweep' = [sweep EXCEPT ![h] = sweep[h]]
  BY Kept DEF Reset, Sound
<1>2. CountersTyped' /\ Sustained'
  <2>1. /\ breach' = [breach EXCEPT ![Class[key[h]]] = 0] /\ 0 \in 0 .. ReqBreaches
        /\ normal' = [r \in Rules |-> IF r = key[h] THEN 0 ELSE normal[r]] /\ 0 \in 0 .. ReqNormal
    BY AlertAssumption DEF Reset
  <2>2. CountersTyped'
    BY <2>1, <1>1 DEF Sound, CountersTyped
  <2>3. \A r \in Rules : normal'[r] > 0 => trend'[r] <= -normal'[r]
    BY <2>1, <1>1 DEF Sound, Sustained
  <2>. QED
    BY <2>2, <2>3 DEF Sustained
<1>3. CASE Goto(h, "evaluate") /\ UNCHANGED todo
  <2>1. todo' = [todo EXCEPT ![h] = todo[h]]
    BY <1>3, Kept DEF Sound
  <2>. QED
    BY <1>1, <1>2, <1>3, <2>1, InHand, LeavesSound
<1>4. CASE /\ Goto(h, AfterSweep(h, sweep[h]))
           /\ todo' = [todo EXCEPT ![h] = sample[h] \cap Events]
  <2>1. AfterSweep(h, sweep[h]) \in {"idle", "evaluate", "events", "sweep"}
    BY DEF AfterSweep
  <2>2. sample[h] \cap Events \in SUBSET Conditions
    BY InHand
  <2>. QED
    BY <1>1, <1>2, <1>4, <2>1, <2>2, InHand, LeavesSound
<1>. QED
  BY <1>3, <1>4 DEF Reset

(* The sweep: its query, and one row after the other. *)
LEMMA SweepSound ==
  ASSUME Sound, NEW h \in Handlers, SweepQuery(h) \/ SweepRow(h)
  PROVE  Sound'
<1> USE DEF faults
<1>1. CASE SweepQuery(h)
  <2>1. PICK rows \in {Stale(h), {}} :
          /\ \/ rows = Stale(h) /\ UNCHANGED dbFails
             \/ rows # Stale(h) /\ dbFails < MaxDbFails /\ dbFails' = dbFails + 1
          /\ sweep' = [sweep EXCEPT ![h] = rows]
          /\ Goto(h, AfterSweep(h, rows))
    BY <1>1 DEF SweepQuery
  <2>2. rows \in SUBSET Row
    BY DEF Stale, Sound, TableTyped
  <2>3. AfterSweep(h, rows) \in {"idle", "evaluate", "events", "sweep"}
    BY DEF AfterSweep
  <2>4. sample[h] \cap Events \in SUBSET Conditions
    BY InHand
  <2>5. /\ active' \subseteq active /\ dups' = dups
        /\ closes' = closes /\ restarts' = restarts /\ UNCHANGED <<breach, normal, trend>>
        /\ todo' = [todo EXCEPT ![h] = sample[h] \cap Events]
    BY <1>1 DEF SweepQuery
  <2>6. dbFails' \in 0 .. MaxDbFails /\ dbFails <= dbFails'
    BY <2>1, InHand
  <2>. QED
    BY <2>1, <2>2, <2>3, <2>4, <2>5, <2>6, CountersStay, LeavesSound
<1>2. CASE SweepRow(h)
  <2>1. PICK i \in sweep[h] :
          /\ \/ active' = active \ {i} /\ UNCHANGED dbFails
             \/ dbFails < MaxDbFails /\ dbFails' = dbFails + 1 /\ UNCHANGED active
          /\ sweep' = [sweep EXCEPT ![h] = sweep[h] \ {i}]
          /\ key' = [key EXCEPT ![h] = About(i)]
    BY <1>2 DEF SweepRow
  <2>2. i \in Row /\ About(i) \in Conditions /\ sweep[h] \ {i} \in SUBSET Row
    BY InHand DEF Row, About
  <2>3. Moves(h, "reset", sample[h], todo[h], About(i), found[h], sweep[h] \ {i})
    BY <1>2, <2>1, Kept DEF SweepRow, Moves, Sound
  <2>4. "reset" \in PCs /\ "reset" \notin Asking
    BY DEF PCs, Asking
  <2>5. Fits("reset", sample[h], About(i), found[h])
    BY <2>2 DEF Fits
  <2>6. /\ active' \subseteq active /\ dups' = dups
        /\ closes' = closes /\ restarts' = restarts /\ UNCHANGED <<breach, normal, trend>>
    BY <1>2, <2>1 DEF SweepRow
  <2>7. dbFails' \in 0 .. MaxDbFails /\ dbFails <= dbFails'
    BY <2>1, InHand
  <2>. QED
    BY <2>2, <2>3, <2>4, <2>5, <2>6, <2>7, InHand, CountersStay, MovesSound
<1>. QED
  BY <1>1, <1>2

(* The query that decides whether a handler begins to ask. *)
LEMMA FindSound ==
  ASSUME Sound, NEW h \in Handlers, Find(h)
  PROVE  Sound'
<1> USE DEF faults
<1>1. PICK k \in Ahead(h) : \E F \in SUBSET active :
        /\ Query(k, F)
        /\ todo' = [todo EXCEPT ![h] = todo[h] \ {k}]
        /\ LET where == AfterFind(h, k, F)
           IN IF where \in {"count", "create"}
              THEN /\ pc' = [pc EXCEPT ![h] = where]
                   /\ key' = [key EXCEPT ![h] = k]
                   /\ found' = [found EXCEPT ![h] = F]
                   /\ UNCHANGED <<sample, trend>>
              ELSE /\ Goto(h, where)
                   /\ trend' = [r \in Rules |-> IF r = k THEN Calmer(trend[r]) ELSE trend[r]]
  BY DEF Find
<1>2. PICK F \in SUBSET active :
        /\ Query(k, F)
        /\ todo' = [todo EXCEPT ![h] = todo[h] \ {k}]
        /\ LET where == AfterFind(h, k, F)
           IN IF where \in {"count", "create"}
              THEN /\ pc' = [pc EXCEPT ![h] = where]
                   /\ key' = [key EXCEPT ![h] = k]
                   /\ found' = [found EXCEPT ![h] = F]
                   /\ UNCHANGED <<sample, trend>>
              ELSE /\ Goto(h, where)
                   /\ trend' = [r \in Rules |-> IF r = k THEN Calmer(trend[r]) ELSE trend[r]]
  BY <1>1
<1> DEFINE where == AfterFind(h, k, F)
<1>3. /\ active' = active /\ active' \subseteq active /\ dups' = dups
      /\ closes' = closes /\ restarts' = restarts /\ UNCHANGED <<breach, normal>>
      /\ sweep' = [sweep EXCEPT ![h] = sweep[h]]
  BY Kept DEF Find, Sound
<1>4. k \in Conditions /\ F \in SUBSET Row /\ todo[h] \ {k} \in SUBSET Conditions
  BY InHand DEF Ahead, Sound, TableTyped
<1>5. /\ dbFails' \in 0 .. MaxDbFails /\ dbFails <= dbFails'
      /\ F = {} => (Matching(k) = {} /\ dbFails' = dbFails) \/ dbFails' = dbFails + 1
  <2>1. CASE F = {} /\ Matching(k) # {} /\ dbFails < MaxDbFails /\ dbFails' = dbFails + 1
    BY <2>1, InHand
  <2>2. CASE (IF Matching(k) = {} THEN F = {} ELSE \E i \in Matching(k) : F = {i}) /\ UNCHANGED dbFails
    BY <2>2, InHand
  <2>. QED
    BY <1>2, <2>1, <2>2 DEF Query
<1>6. where \in {"idle", "evaluate", "events", "count", "create"}
  BY DEF AfterFind, Loop
<1>7. where = "count" => k \in Rules \/ (k \in Checks /\ F = {})
  BY <1>4, AlertAssumption DEF AfterFind, Loop, Conditions
<1>8. where = "count" /\ k \in Rules /\ k \notin sample[h] => F # {}
  BY DEF AfterFind
<1>9. where = "create" => F = {}
  BY DEF AfterFind, Loop
<1> HIDE DEF where
<1>10. CASE where \in {"count", "create"}
  <2>1. /\ pc' = [pc EXCEPT ![h] = where] /\ key' = [key EXCEPT ![h] = k]
        /\ found' = [found EXCEPT ![h] = F] /\ UNCHANGED <<sample, trend>>
    BY <1>2, <1>10 DEF where
  <2>2. Moves(h, where, sample[h], todo[h] \ {k}, k, F, sweep[h])
    BY <1>2, <1>3, <2>1, Kept DEF Moves, Sound
  <2>3. where \in PCs
    BY <1>10 DEF PCs
  <2>4. Fits(where, sample[h], k, F)
    BY <1>4, <1>7, <1>8, <1>9, <1>10 DEF Fits
  <2>5. CASE F = {}
    <3>1. HandlersTyped' /\ Linked'
      BY <1>4, <2>2, <2>3, <2>4, InHand, MovesKeep DEF Sound
    <3>2. TableTyped' /\ FaultsTyped'
      BY <1>3, <1>5 DEF Sound, TableTyped, FaultsTyped
    <3>3. key'[h] = k
      BY <2>2 DEF Moves, Sound, HandlersTyped
    <3>4. \A g \in Handlers \ {h} : Asks(g)' => Asks(g) /\ key'[g] = key[g]
      BY <2>2 DEF Moves, Sound, HandlersTyped, Asks
    <3>5. Counted'
      BY <1>3, <1>4, <1>5, <2>5, <3>3, <3>4, InHand, CountedAsks DEF Sound
    <3>6. CountersTyped' /\ Sustained'
      BY <1>3, <2>1, CountersStay
    <3>. QED
      BY <3>1, <3>2, <3>5, <3>6 DEF Sound
  <2>6. CASE F # {}
    BY <1>3, <1>4, <1>5, <2>1, <2>2, <2>3, <2>4, <2>6, InHand, CountersStay, MovesSound
  <2>. QED
    BY <2>5, <2>6
<1>11. CASE where \in {"idle", "evaluate", "events", "sweep"}
  <2>1. /\ Goto(h, where)
        /\ trend' = [r \in Rules |-> IF r = k THEN Calmer(trend[r]) ELSE trend[r]]
    BY <1>2, <1>11 DEF where
  <2>2. \A r \in Rules : /\ trend[r] \in -ReqNormal .. ReqBreaches
                         /\ trend'[r] \in -ReqNormal .. ReqBreaches /\ trend'[r] <= trend[r]
    <3> TAKE r \in Rules
    <3>1. trend[r] \in -ReqNormal .. ReqBreaches
      BY DEF Sound, CountersTyped
    <3>2. Calmer(trend[r]) \in -ReqNormal .. ReqBreaches /\ Calmer(trend[r]) <= trend[r]
      BY <3>1, CalmerFacts
    <3>. QED
      BY <2>1, <3>1, <3>2, AlertAssumption
  <2>3. CountersTyped'
    BY <1>3, <2>1, <2>2 DEF Sound, CountersTyped
  <2>4. Sustained'
    <3> SUFFICES ASSUME NEW r \in Rules, normal[r] > 0 PROVE trend'[r] <= -normal[r]
      BY <1>3 DEF Sustained
    <3>1. trend[r] <= -normal[r] /\ normal[r] \in Nat
      BY AlertAssumption DEF Sound, Sustained, CountersTyped
    <3>. QED
      BY <2>2, <3>1, AlertAssumption
  <2>. QED
    BY <1>2, <1>3, <1>4, <1>5, <1>11, <2>1, <2>3, <2>4, InHand, LeavesSound
<1>. QED
  BY <1>6, <1>10, <1>11

(* The operators, the cleanup, a restart of the backend. *)
LEMMA WorldSound ==
  ASSUME Sound,
         \/ \E i \in Row : Close(i)
         \/ CleanupQuery \/ CleanupUpdate \/ BackendRestarts \/ UNCHANGED vars
  PROVE  Sound'
<1> USE DEF handlers, faults
<1>0. dbFails \in Nat
  BY AlertAssumption DEF Sound, FaultsTyped
<1>1. CASE BackendRestarts
  <2>1. CountersTyped' /\ Sustained'
    BY <1>1, AlertAssumption DEF BackendRestarts, Sound, CountersTyped, Sustained
  <2>2. TableTyped' /\ FaultsTyped'
    BY <1>1, AlertAssumption DEF BackendRestarts, Sound, TableTyped, FaultsTyped
  <2>3. HandlersTyped' /\ Linked'
    BY <1>1 DEF BackendRestarts, HandlersTyped, Linked, Fits, PCs
  <2>4. \A g \in Handlers : ~Asks(g)'
    BY <1>1 DEF BackendRestarts, Asks, Asking
  <2>5. active' = active /\ dbFails' = dbFails
    BY <1>1 DEF BackendRestarts
  <2>6. Counted'
    BY <1>0, <2>4, <2>5, CountedShrinks DEF Sound
  <2>. QED
    BY <2>1, <2>2, <2>3, <2>6 DEF Sound
<1>2. CASE (\E i \in Row : Close(i)) \/ CleanupQuery \/ CleanupUpdate \/ UNCHANGED vars
  <2>1. /\ UNCHANGED <<breach, normal, trend>> /\ UNCHANGED handlers
        /\ active' \subseteq active /\ dbFails' = dbFails /\ restarts' = restarts
    BY <1>2 DEF Close, CleanupQuery, CleanupUpdate, vars
  <2>2. closes' \in 0 .. MaxCloses
    BY <1>2, AlertAssumption DEF Close, CleanupQuery, CleanupUpdate, vars, Sound, FaultsTyped
  <2>3. dups' \in SUBSET Row
    BY <1>2 DEF Close, CleanupQuery, CleanupUpdate, vars, Sound, TableTyped
  <2>4. TableTyped' /\ FaultsTyped'
    BY <2>1, <2>2, <2>3 DEF Sound, TableTyped, FaultsTyped
  <2>5. HandlersTyped' /\ Linked'
    BY <2>1 DEF Sound, HandlersTyped, Linked
  <2>6. \A g \in Handlers : Asks(g)' => Asks(g) /\ key'[g] = key[g]
    BY <2>1 DEF Asks
  <2>7. Counted'
    BY <1>0, <2>1, <2>6, CountedShrinks DEF Sound
  <2>. QED
    BY <2>1, <2>4, <2>5, <2>7, CountersStay DEF Sound
<1>. QED
  BY <1>1, <1>2

(* It holds of an empty table and idle handlers. *)
LEMMA SoundInit == Init => Sound
<1> SUFFICES ASSUME Init PROVE Sound
  OBVIOUS
<1>1. TableTyped /\ CountersTyped /\ FaultsTyped /\ Sustained
  BY AlertAssumption DEF Init, TableTyped, CountersTyped, FaultsTyped, Sustained
<1>2. HandlersTyped /\ Linked
  BY DEF Init, HandlersTyped, Linked, Fits, PCs
<1>3. Counted
  <2>1. ASSUME NEW k \in Conditions
        PROVE  Cardinality(Matching(k)) + Cardinality(Pending(k)) <= Cardinality(Handlers) + dbFails
    <3>1. Matching(k) = {} /\ Pending(k) = {}
      BY DEF Init, Matching, Pending, Asks, Asking
    <3>. QED
      BY <3>1, FS_EmptySet, FS_CardinalityType, AlertAssumption DEF Init
  <2>2. IsFiniteSet(active)
    BY FS_EmptySet DEF Init
  <2>. QED
    BY <2>1, <2>2 DEF Counted
<1>. QED
  BY <1>1, <1>2, <1>3 DEF Sound

(* It is inductive. *)
LEMMA SoundStep == Sound /\ [Next]_vars => Sound'
<1> SUFFICES ASSUME Sound, [Next]_vars PROVE Sound'
  OBVIOUS
<1>1. ASSUME NEW h \in Handlers,
             Receive(h) \/ ReceiveEvent(h) \/ ReceiveRecovery(h) \/ Evaluate(h)
      PROVE  Sound'
  BY <1>1, ReceiveSound, FindSound, CountBreachSound, CountNormalSound, CheckSound,
     CreateSound, ResolveSound, ResetSound, SweepSound DEF Evaluate
<1>. QED
  BY <1>1, WorldSound DEF Next

-----------------------------------------------------------------------------
(* A step of one handler does not move another. *)
LEMMA OthersStay ==
  ASSUME Sound, NEW g \in Handlers, NEW h \in Handlers, g # h,
         Receive(g) \/ ReceiveEvent(g) \/ ReceiveRecovery(g) \/ Evaluate(g)
  PROVE  pc'[h] = pc[h]
<1>1. pc \in [Handlers -> PCs]
  BY DEF Sound, HandlersTyped
<1>2. CASE Receive(g) \/ ReceiveEvent(g) \/ ReceiveRecovery(g) \/ Find(g)
  BY <1>1, <1>2 DEF Receive, ReceiveEvent, ReceiveRecovery, Find, Goto
<1>3. CASE CountBreach(g) \/ CountNormal(g) \/ CountCheck(g) \/ Confirm(g)
  BY <1>1, <1>3 DEF CountBreach, CountNormal, CountCheck, Confirm, Goto
<1>4. CASE Create(g) \/ CreateFails(g) \/ Resolve(g) \/ ResolveFails(g) \/ Reset(g)
  BY <1>1, <1>4 DEF Create, CreateFails, Resolve, ResolveFails, Reset, Goto
<1>5. CASE SweepQuery(g) \/ SweepRow(g)
  BY <1>1, <1>5 DEF SweepQuery, SweepRow, Goto
<1>. QED
  BY <1>2, <1>3, <1>4, <1>5 DEF Evaluate

(* Only a count of a normal sample leads from "count" to "resolve". *)
LEMMA ResolveByCount ==
  ASSUME Sound, [Next]_vars, NEW h \in Handlers, pc[h] = "count", pc'[h] = "resolve"
  PROVE  CountNormal(h)
<1>0. pc \in [Handlers -> PCs]
  BY DEF Sound, HandlersTyped
<1>1. PICK g \in Handlers : Receive(g) \/ ReceiveEvent(g) \/ ReceiveRecovery(g) \/ Evaluate(g)
  BY DEF Next, Close, CleanupQuery, CleanupUpdate, BackendRestarts, vars, handlers
<1>2. g = h
  BY <1>1, OthersStay
<1>3. ~CountBreach(h)
  BY <1>0 DEF CountBreach, Goto
<1>4. ~CountCheck(h)
  BY <1>0 DEF CountCheck, Goto
<1>5. CountNormal(h)
  BY <1>1, <1>2, <1>3, <1>4
     DEF Evaluate, Receive, ReceiveEvent, ReceiveRecovery, Find, Confirm, Create, CreateFails,
         Resolve, ResolveFails, Reset, SweepQuery, SweepRow
<1>. QED
  BY <1>5

(* The count that resolves is at its threshold, and the trend below it.    *)
LEMMA ResolutionAfterRun ==
  ASSUME Sound, NEW h \in Handlers, pc'[h] = "resolve", CountNormal(h)
  PROVE  trend'[key[h]] <= -ReqNormal
<1> DEFINE r == key[h]
           n == UpTo(normal[r] + 1, ReqNormal)
<1>1. pc \in [Handlers -> PCs] /\ r \in Rules
  BY DEF Sound, HandlersTyped, CountNormal
<1>2. /\ normal[r] \in 0 .. ReqNormal /\ trend[r] \in -ReqNormal .. ReqBreaches
      /\ trend \in [Rules -> -ReqNormal .. ReqBreaches]
      /\ ReqBreaches \in Nat /\ ReqNormal \in Nat
      /\ normal[r] > 0 => trend[r] <= -normal[r]
  BY <1>1, AlertAssumption DEF Sound, CountersTyped, Sustained
<1>3. n >= ReqNormal
  BY <1>1 DEF CountNormal, Goto
<1>4. trend'[r] = Calmer(trend[r])
  BY <1>1, <1>2 DEF CountNormal
<1>5. Calmer(trend[r]) <= -n /\ Calmer(trend[r]) \in Int
  BY <1>2, CalmerFacts
<1>6. n \in Nat
  <2>1. normal[r] + 1 \in Nat
    BY <1>2
  <2>. QED
    BY <2>1, <1>2, UpToFacts
<1> HIDE DEF n
<1>. QED
  BY <1>2, <1>3, <1>4, <1>5, <1>6

(* The invariant of the alerts of a machine holds in every state. *)
THEOREM AlertInvariance == Spec => []Sound
  BY SoundInit, SoundStep, PTL DEF Spec

(* The types, and that a handler about to resolve has a row in hand: the   *)
(* evaluator dereferences existingAlert without another test.              *)
THEOREM AlertTypeCorrect == Spec => []TypeOK
<1>1. Sound => TypeOK
  BY DEF Sound, TableTyped, HandlersTyped, CountersTyped, FaultsTyped, Linked, Fits, TypeOK
<1>. QED
  BY <1>1, AlertInvariance, PTL

(* Overlapping requests may insert a row each, but rows of one category    *)
(* and component do not pile up: never more than requests evaluated at a   *)
(* time and queries that failed.                                           *)
THEOREM RowsDoNotPileUp == Spec => []DuplicatesBounded
<1>1. Sound => DuplicatesBounded
  <2> SUFFICES ASSUME Sound, NEW k \in Conditions
               PROVE  Cardinality(Matching(k)) <= Cardinality(Handlers) + dbFails
    BY DEF DuplicatesBounded
  <2>1. Cardinality(Matching(k)) + Cardinality(Pending(k)) <= Cardinality(Handlers) + dbFails
    BY DEF Sound, Counted
  <2>2. dbFails \in Nat
    BY AlertAssumption DEF Sound, FaultsTyped
  <2>. QED
    BY <2>1, <2>2, Sizes DEF Sound
<1>. QED
  BY <1>1, AlertInvariance, PTL

(* "waiting for sustained normal before auto-resolving": the row of a rule *)
(* is resolved only after ReqNormal counts of a normal sample in a row,    *)
(* however many requests are evaluated at a time.                          *)
THEOREM ResolvedWhenSustained == Spec => ResolveNeedsSustainedNormal
<1>1. Sound /\ [Next]_vars
        => [\A h \in Handlers :
              pc[h] = "count" /\ pc'[h] = "resolve" => trend'[key[h]] <= -ReqNormal]_vars
  BY ResolveByCount, ResolutionAfterRun
<1>. QED
  BY <1>1, AlertInvariance, PTL DEF Spec, ResolveNeedsSustainedNormal

=============================================================================
