----------------------------- MODULE ReadingsProofs -----------------------------
(***************************************************************************)
(* What holds of Readings for any requests, zones, readings, capacities    *)
(* and limits.  Histories: evicting with every append, and trimming now    *)
(* and then, keeps the end of what was recorded.  Answers: no pinned       *)
(* threshold ever differs from the configured one.  Alerts: what a request *)
(* adds stays in one piece.  Summary: what it counts only grows, from when *)
(* it begins, and each zone's part lies between the two.                   *)
(***************************************************************************)
EXTENDS Readings, FiniteSetTheorems, SequenceTheorems, WellFoundedInduction, TLAPS

(* What Newest returns. *)
LEMMA NewestProperties ==
  ASSUME NEW S, NEW s \in Seq(S), NEW n \in Nat
  PROVE  /\ Newest(s, n) \in Seq(S)
         /\ Len(Newest(s, n)) = IF Len(s) > n THEN n ELSE Len(s)
         /\ Len(Newest(s, n)) <= n
         /\ \A k \in 1 .. Len(Newest(s, n)) :
              Newest(s, n)[k] = s[k + Len(s) - Len(Newest(s, n))]
<1>1. Len(s) \in Nat
  BY LenProperties
<1>2. CASE Len(s) > n
  <2>1. Newest(s, n) = SubSeq(s, Len(s) - n + 1, Len(s))
    BY <1>2 DEF Newest
  <2>2. /\ Len(s) - n + 1 \in 1 .. Len(s) + 1 /\ Len(s) \in Int
        /\ Len(s) \in Len(s) - n + 1 - 1 .. Len(s)
    BY <1>1, <1>2
  <2>3. Newest(s, n) \in Seq(S) /\ Len(Newest(s, n)) = n
    BY <1>1, <1>2, <2>1, <2>2, SubSeqProperties
  <2>4. \A k \in 1 .. n : Newest(s, n)[k] = s[k + Len(s) - n]
    BY <1>1, <1>2, <2>1, <2>2, SubSeqProperties
  <2> QED
    BY <1>2, <2>3, <2>4
<1>3. CASE ~(Len(s) > n)
  BY <1>1, <1>3, LenProperties DEF Newest
<1> QED
  BY <1>2, <1>3

(* Cutting twice is cutting once. *)
LEMMA NewestTwice ==
  ASSUME NEW S, NEW s \in Seq(S), NEW n \in Nat
  PROVE  Newest(Newest(s, n), n) = Newest(s, n)
  BY NewestProperties, LenProperties DEF Newest

(* Cutting before adding to the end and after it is cutting after it. *)
LEMMA NewestConcat ==
  ASSUME NEW S, NEW s \in Seq(S), NEW x \in Seq(S), NEW n \in Nat
  PROVE  Newest(Newest(s, n) \o x, n) = Newest(s \o x, n)
<1> DEFINE t == Newest(s, n)
           a == t \o x
           b == s \o x
<1>1. /\ t \in Seq(S) /\ Len(t) = IF Len(s) > n THEN n ELSE Len(s)
      /\ \A k \in 1 .. Len(t) : t[k] = s[k + Len(s) - Len(t)]
  BY NewestProperties
<1>2. Len(s) \in Nat /\ Len(t) \in Nat /\ Len(x) \in Nat
  BY <1>1, LenProperties
<1> HIDE DEF t
<1>3. /\ a \in Seq(S) /\ Len(a) = Len(t) + Len(x)
      /\ \A k \in 1 .. Len(t) + Len(x) : a[k] = IF k <= Len(t) THEN t[k] ELSE x[k - Len(t)]
  BY <1>1, ConcatProperties
<1>4. /\ b \in Seq(S) /\ Len(b) = Len(s) + Len(x)
      /\ \A k \in 1 .. Len(s) + Len(x) : b[k] = IF k <= Len(s) THEN s[k] ELSE x[k - Len(s)]
  BY ConcatProperties
<1> HIDE DEF a, b
<1>5. /\ Newest(a, n) \in Seq(S) /\ Len(Newest(a, n)) = IF Len(a) > n THEN n ELSE Len(a)
      /\ \A k \in 1 .. Len(Newest(a, n)) :
           Newest(a, n)[k] = a[k + Len(a) - Len(Newest(a, n))]
  BY <1>3, NewestProperties
<1>6. /\ Newest(b, n) \in Seq(S) /\ Len(Newest(b, n)) = IF Len(b) > n THEN n ELSE Len(b)
      /\ \A k \in 1 .. Len(Newest(b, n)) :
           Newest(b, n)[k] = b[k + Len(b) - Len(Newest(b, n))]
  BY <1>4, NewestProperties
<1>7. Len(Newest(a, n)) = Len(Newest(b, n)) /\ Len(Newest(a, n)) \in Nat
  BY <1>1, <1>2, <1>3, <1>4, <1>5, <1>6
<1>8. ASSUME NEW k \in 1 .. Len(Newest(a, n)) PROVE Newest(a, n)[k] = Newest(b, n)[k]
  <2>1. PICK lt \in Nat, ls \in Nat, lx \in Nat, l \in Nat, m \in Nat :
          lt = Len(t) /\ ls = Len(s) /\ lx = Len(x) /\ l = Len(Newest(a, n)) /\ m = k
    BY <1>2, <1>7
  <2>2. /\ lt = (IF ls > n THEN n ELSE ls) /\ l = (IF lt + lx > n THEN n ELSE lt + lx)
        /\ 1 <= m /\ m <= l
    BY <1>1, <1>3, <1>5, <2>1
  <2> DEFINE i == m + (lt + lx) - l
             j == m + (ls + lx) - l
  <2>3. /\ i \in 1 .. lt + lx /\ j \in 1 .. ls + lx /\ j = i + ls - lt
        /\ i <= lt => i \in 1 .. lt /\ j <= ls
        /\ ~(i <= lt) => ~(j <= ls) /\ j - ls = i - lt
    BY ONLY <2>2, lt \in Nat, ls \in Nat, lx \in Nat, l \in Nat, m \in Nat, n \in Nat
  <2>4. Newest(a, n)[k] = a[i] /\ Newest(b, n)[k] = b[j]
    BY <1>3, <1>4, <1>5, <1>6, <1>7, <2>1
  <2> HIDE DEF i, j
  <2>5. CASE i <= lt
    <3>1. a[i] = t[i] /\ b[j] = s[j]
      BY <1>3, <1>4, <2>1, <2>3, <2>5
    <3>2. t[i] = s[i + ls - lt]
      BY <1>1, <2>1, <2>3, <2>5
    <3> QED
      BY <2>3, <2>4, <3>1, <3>2
  <2>6. CASE ~(i <= lt)
    <3>1. a[i] = x[i - lt] /\ b[j] = x[j - ls]
      BY <1>3, <1>4, <2>1, <2>3, <2>6
    <3> QED
      BY <2>3, <2>4, <2>6, <3>1
  <2> QED
    BY <2>5, <2>6
<1> QED
  BY <1>5, <1>6, <1>7, <1>8, SeqEqual DEF t, a, b

LEMMA NewestAppend ==
  ASSUME NEW S, NEW s \in Seq(S), NEW x \in S, NEW n \in Nat
  PROVE  Newest(Append(Newest(s, n), x), n) = Newest(Append(s, x), n)
<1>1. Newest(s, n) \in Seq(S) /\ <<x>> \in Seq(S)
  BY NewestProperties
<1>2. Append(Newest(s, n), x) = Newest(s, n) \o <<x>> /\ Append(s, x) = s \o <<x>>
  BY <1>1, AppendIsConcat
<1> QED
  BY <1>1, <1>2, NewestConcat

-----------------------------------------------------------------------------
(* NewStore, NewService and the thresholds establish the invariant.        *)
LEMMA InitInductive == Init => Inductive
<1> SUFFICES ASSUME Init PROVE Inductive
    OBVIOUS
<1> USE ReadingsAssumption
<1>1. \A S : <<>> \in Seq(S) /\ Len(<<>>) = 0
  BY EmptySeq
<1>2. TypeOK
  BY <1>1 DEF Init, TypeOK, SummaryType
<1>3. PinsInv /\ AnswersAreRight
  BY DEF Init, PinsInv, AnswersAreRight
<1>4. HistoryIsNewest
  BY <1>1 DEF Init, HistoryIsNewest, Newest, RecordedOnce, Stored
<1>5. Zones = {}
  BY DEF Init, Zones
<1> QED
  BY <1>2, <1>3, <1>4, <1>5, FS_EmptySet DEF Inductive

(* Only storing a reading records one or changes what is stored. *)
LEMMA OthersRecordNothing ==
  ASSUME TypeOK, PinsInv, [Next]_vars, \A r \in Request : ~StoreAppend(r)
  PROVE  /\ recorded' = recorded
         /\ \A r \in Request : /\ Stored(r)' <=> Stored(r)
                               /\ Stored(r) => sample'[r] = sample[r]
<1> USE DEF TypeOK, Stored, Goto
<1>1. ASSUME NEW r \in Request, RecordStep(r)
      PROVE  /\ recorded' = recorded
             /\ \A q \in Request : /\ Stored(q)' <=> Stored(q)
                                   /\ Stored(q) => sample'[q] = sample[q]
  <2>1. CASE Arrive(r)
    <3>1. /\ pc[r] = "idle" /\ pc' = [pc EXCEPT ![r] = "append"] /\ recorded' = recorded
          /\ \E x \in Sample : sample' = [sample EXCEPT ![r] = x]
      BY <2>1 DEF Arrive, storeVars
    <3> QED
      BY <3>1
  <2>2. CASE BadRequest(r) \/ Compare(r) \/ ReadLimit(r) \/ RecordThreshold(r) \/ Congestion(r)
             \/ Add(r)
    <3>1. /\ \/ pc[r] = "idle" /\ pc' = [pc EXCEPT ![r] = "refused"]
             \/ pc[r] \in {"compare", "read", "pin", "congestion", "log"}
                /\ \E label \in {"read", "pin", "congestion", "log", "done"} :
                     pc' = [pc EXCEPT ![r] = label]
          /\ recorded' = recorded /\ sample' = sample
      BY <2>2 DEF BadRequest, Compare, ReadLimit, RecordThreshold, Congestion, Add, storeVars
    <3> QED
      BY <3>1
  <2> QED
    BY <1>1, <2>1, <2>2 DEF RecordStep
<1>2. CASE \A r \in Request : ~RecordStep(r)
  BY <1>2 DEF Next, SweepBegins, Trim, SummaryBegins, SummarizeZone, SummaryReturns, vars,
              storeVars, handlerVars
<1> QED
  BY <1>1, <1>2

(* What StoreAppend does to the reading's zone. *)
LEMMA StoreAppendEffect ==
  ASSUME TypeOK, PinsInv, HistoryIsNewest, NEW r \in Request, StoreAppend(r)
  PROVE  LET z == sample[r].zone IN
         /\ z \in Zone /\ sample[r] \in Sample /\ ~Stored(r) /\ sample' = sample
         /\ \A q \in Request : Stored(q)' <=> Stored(q) \/ q = r
         /\ byZone' = [byZone EXCEPT ![z] = Newest(Append(byZone[z], r), Capacity)]
         /\ recorded' = [recorded EXCEPT ![z] = Append(recorded[z], r)]
         /\ Len(recorded[z]) \in Nat /\ DOMAIN recorded[z] = 1 .. Len(recorded[z])
         /\ DOMAIN recorded'[z] = 1 .. Len(recorded[z]) + 1
         /\ recorded'[z][Len(recorded[z]) + 1] = r
         /\ \A n \in 1 .. Len(recorded[z]) : recorded'[z][n] = recorded[z][n]
         /\ \A y \in Zone : y # z => recorded'[y] = recorded[y] /\ byZone'[y] = byZone[y]
<1>1. /\ pc[r] = "append" /\ pc' = [pc EXCEPT ![r] = "compare"] /\ sample' = sample
      /\ byZone' = [byZone EXCEPT ![sample[r].zone] = Newest(Append(byZone[sample[r].zone], r), Capacity)]
      /\ recorded' = [recorded EXCEPT ![sample[r].zone] = Append(recorded[sample[r].zone], r)]
  BY DEF StoreAppend, Evict, Goto
<1>2. sample[r] \in Sample /\ sample[r].zone \in Zone
  BY <1>1, ReadingsAssumption DEF Reading, PinsInv, ReadingsAssumption
<1>3. /\ byZone \in [Zone -> Seq(Request)] /\ recorded \in [Zone -> Seq(Request)]
      /\ pc \in [Request -> {"idle", "append", "compare", "read", "pin", "congestion",
                             "log", "done", "refused"}]
  BY DEF TypeOK
<1>4. ~Stored(r) /\ \A q \in Request : Stored(q)' <=> Stored(q) \/ q = r
  BY <1>1, <1>3 DEF Stored
<1> DEFINE z == sample[r].zone
<1>5. recorded[z] \in Seq(Request) /\ recorded'[z] = Append(recorded[z], r)
  BY <1>1, <1>2, <1>3
<1>6. /\ Len(recorded[z]) \in Nat /\ DOMAIN recorded[z] = 1 .. Len(recorded[z])
      /\ DOMAIN recorded'[z] = 1 .. Len(recorded[z]) + 1
      /\ recorded'[z][Len(recorded[z]) + 1] = r
      /\ \A n \in 1 .. Len(recorded[z]) : recorded'[z][n] = recorded[z][n]
  BY <1>5, AppendProperties, LenProperties
<1>7. \A y \in Zone : y # z => recorded'[y] = recorded[y] /\ byZone'[y] = byZone[y]
  BY <1>1, <1>3
<1> QED
  BY <1>1, <1>2, <1>4, <1>6, <1>7

LEMMA StepRecorded ==
  ASSUME TypeOK, PinsInv, HistoryIsNewest, [Next]_vars
  PROVE  RecordedOnce'
<1>0. recorded \in [Zone -> Seq(Request)] /\ RecordedOnce
  BY DEF TypeOK, HistoryIsNewest
<1>1. ASSUME NEW r \in Request, StoreAppend(r) PROVE RecordedOnce'
  <2>0. PICK at \in Zone : at = sample[r].zone
    BY <1>1, StoreAppendEffect
  <2>1. PICK len \in Nat :
          /\ ~Stored(r) /\ sample' = sample
          /\ \A q \in Request : Stored(q)' <=> Stored(q) \/ q = r
          /\ DOMAIN recorded[at] = 1 .. len /\ DOMAIN recorded'[at] = 1 .. len + 1
          /\ recorded'[at][len + 1] = r
          /\ \A n \in 1 .. len : recorded'[at][n] = recorded[at][n]
          /\ \A y \in Zone : y # at => recorded'[y] = recorded[y]
    BY <1>1, <2>0, StoreAppendEffect
  <2>2. \A z \in Zone : \A n \in DOMAIN recorded[z] : recorded[z][n] \in Request
    BY <1>0, ElementOfSeq, LenProperties
  <2>3. \A n \in 1 .. len : recorded[at][n] # r
    BY <1>0, <2>1 DEF RecordedOnce
  <2>4. \A n \in 1 .. len + 1 : n \in 1 .. len \/ n = len + 1
    OBVIOUS
  <2>5. len + 1 \in 1 .. len + 1 /\ \A n \in 1 .. len : n \in 1 .. len + 1
    OBVIOUS
  <2> SUFFICES ASSUME NEW z \in Zone
               PROVE  (/\ \A n \in DOMAIN recorded[z] :
                            Stored(recorded[z][n]) /\ sample[recorded[z][n]].zone = z
                       /\ \A m, n \in DOMAIN recorded[z] : recorded[z][m] = recorded[z][n] => m = n
                       /\ \A q \in Request : Stored(q) /\ sample[q].zone = z =>
                            \E n \in DOMAIN recorded[z] : recorded[z][n] = q)'
    BY DEF RecordedOnce
  <2>6. CASE z # at
    <3>1. recorded'[z] = recorded[z] /\ sample' = sample
      BY <2>1, <2>6
    <3>2. /\ \A n \in DOMAIN recorded[z] : /\ recorded[z][n] \in Request
                                           /\ Stored(recorded[z][n])
                                           /\ sample[recorded[z][n]].zone = z
          /\ \A m, n \in DOMAIN recorded[z] : recorded[z][m] = recorded[z][n] => m = n
          /\ \A q \in Request : Stored(q) /\ sample[q].zone = z =>
               \E n \in DOMAIN recorded[z] : recorded[z][n] = q
      BY <1>0, <2>2 DEF RecordedOnce
    <3>3. \A q \in Request : sample[q].zone = z => (Stored(q)' <=> Stored(q))
      BY <2>0, <2>1, <2>6
    <3>4. \A n \in DOMAIN recorded[z] : Stored(recorded[z][n])'
      BY <3>1, <3>2, <3>3 DEF Stored
    <3> QED
      BY <3>1, <3>2, <3>3, <3>4
  <2>7. CASE z = at
    <3>1. \A n \in 1 .. len + 1 : /\ recorded'[z][n] \in Request
                                  /\ Stored(recorded[z][n])'
                                  /\ sample'[recorded'[z][n]].zone = z
      <4>1. \A n \in 1 .. len : /\ recorded'[z][n] \in Request /\ Stored(recorded[z][n])
                                /\ recorded'[z][n] = recorded[z][n]
                                /\ sample[recorded[z][n]].zone = z
        BY <1>0, <2>1, <2>2, <2>7 DEF RecordedOnce
      <4> QED
        BY <2>0, <2>1, <2>4, <2>7, <4>1 DEF Stored
    <3>2. \A m, n \in 1 .. len + 1 : recorded'[z][m] = recorded'[z][n] => m = n
      <4>1. \A m, n \in 1 .. len : recorded[at][m] = recorded[at][n] => m = n
        BY <1>0, <2>1 DEF RecordedOnce
      <4> QED
        BY <2>1, <2>3, <2>4, <2>7, <4>1
    <3>3. \A q \in Request : Stored(q)' /\ sample'[q].zone = z =>
            \E n \in 1 .. len + 1 : recorded'[z][n] = q
      <4>1. \A q \in Request : Stored(q) /\ sample[q].zone = z =>
              \E n \in 1 .. len : recorded[z][n] = q
        BY <1>0, <2>1, <2>7 DEF RecordedOnce
      <4> QED
        BY <2>1, <2>5, <2>7, <4>1
    <3> QED
      BY <2>1, <2>7, <3>1, <3>2, <3>3
  <2> QED
    BY <2>6, <2>7
<1>2. ASSUME \A r \in Request : ~StoreAppend(r) PROVE RecordedOnce'
  <2>1. /\ recorded' = recorded
        /\ \A r \in Request : (Stored(r)' <=> Stored(r)) /\ (Stored(r) => sample'[r] = sample[r])
    BY <1>2, OthersRecordNothing
  <2>2. \A z \in Zone : \A n \in DOMAIN recorded[z] : recorded[z][n] \in Request
    BY <1>0, ElementOfSeq, LenProperties
  <2> QED
    BY <1>0, <2>1, <2>2 DEF RecordedOnce, Stored
<1> QED
  BY <1>1, <1>2

(* What each zone's history becomes in a step. *)
LEMMA StepHistory == TypeOK /\ PinsInv /\ HistoryIsNewest /\ [Next]_vars => HistoryIsNewest'
<1> SUFFICES ASSUME TypeOK, PinsInv, HistoryIsNewest, [Next]_vars
             PROVE  \A z \in Zone : byZone'[z] = Newest(recorded'[z], Capacity)
  BY StepRecorded DEF HistoryIsNewest
<1>0. \A z \in Zone : /\ recorded[z] \in Seq(Request) /\ byZone[z] \in Seq(Request)
                      /\ byZone[z] = Newest(recorded[z], Capacity)
  BY DEF TypeOK, HistoryIsNewest
<1>1. ASSUME NEW r \in Request, StoreAppend(r)
      PROVE  \A z \in Zone : byZone'[z] = Newest(recorded'[z], Capacity)
  <2> DEFINE z == sample[r].zone
  <2>1. /\ z \in Zone
        /\ byZone' = [byZone EXCEPT ![z] = Newest(Append(byZone[z], r), Capacity)]
        /\ recorded' = [recorded EXCEPT ![z] = Append(recorded[z], r)]
    BY <1>1, StoreAppendEffect
  <2>2. Newest(Append(byZone[z], r), Capacity) = Newest(Append(recorded[z], r), Capacity)
    <3>1. recorded[z] \in Seq(Request) /\ byZone[z] = Newest(recorded[z], Capacity)
          /\ Capacity \in Nat
      BY <1>0, <2>1, ReadingsAssumption DEF ReadingsAssumption
    <3> HIDE DEF z
    <3> QED
      BY ONLY <3>1, r \in Request, NewestAppend
  <2> QED
    BY <1>0, <2>1, <2>2 DEF TypeOK
<1>2. ASSUME NEW z \in Zone, Trim(z)
      PROVE  \A y \in Zone : byZone'[y] = Newest(recorded'[y], Capacity)
  <2>1. byZone' = [byZone EXCEPT ![z] = Newest(byZone[z], Capacity)] /\ recorded' = recorded
    BY <1>2 DEF Trim, Cut
  <2>2. Newest(byZone[z], Capacity) = byZone[z]
    BY <1>0, NewestTwice, ReadingsAssumption DEF ReadingsAssumption
  <2> QED
    BY <1>0, <2>1, <2>2 DEF TypeOK
<1>3. ASSUME \A r \in Request : ~StoreAppend(r), \A z \in Zone : ~Trim(z)
      PROVE  UNCHANGED storeVars
  BY <1>3 DEF Next, RecordStep, Arrive, BadRequest, Compare, ReadLimit, RecordThreshold,
              Congestion, Add, SweepBegins, SummaryBegins, SummarizeZone, SummaryReturns, vars
<1> QED
  BY <1>0, <1>1, <1>2, <1>3 DEF storeVars

(* The map has finitely many zones: a step adds at most one.               *)
LEMMA StepZones ==
  ASSUME TypeOK, PinsInv, HistoryIsNewest, IsFiniteSet(Zones), [Next]_vars
  PROVE  IsFiniteSet(Zones')
<1>1. ASSUME NEW r \in Request, StoreAppend(r) PROVE IsFiniteSet(Zones')
  <2>1. Zones' \subseteq Zones \cup {sample[r].zone}
    BY <1>1, StoreAppendEffect DEF Zones
  <2>2. IsFiniteSet(Zones \cup {sample[r].zone})
    BY FS_AddElement
  <2> QED
    BY <2>1, <2>2, FS_Subset
<1>2. ASSUME NEW z \in Zone, Trim(z) PROVE IsFiniteSet(Zones')
  <2>1. byZone' = [byZone EXCEPT ![z] = Newest(byZone[z], Capacity)]
    BY <1>2 DEF Trim, Cut
  <2>2. Newest(byZone[z], Capacity) = byZone[z]
    BY NewestTwice, ReadingsAssumption DEF TypeOK, HistoryIsNewest, ReadingsAssumption
  <2>3. Zones' = Zones
    BY <2>1, <2>2 DEF TypeOK, Zones
  <2> QED
    BY <2>3
<1>3. CASE UNCHANGED byZone
  BY <1>3 DEF Zones
<1>4. ASSUME \A r \in Request : ~StoreAppend(r), \A z \in Zone : ~Trim(z)
      PROVE  UNCHANGED byZone
  BY <1>4 DEF Next, RecordStep, Arrive, BadRequest, Compare, ReadLimit, RecordThreshold,
              Congestion, Add, SweepBegins, SummaryBegins, SummarizeZone, SummaryReturns, vars,
              storeVars
<1> QED
  BY <1>1, <1>2, <1>3, <1>4

(* What Detect has found, and what it compares with. *)
LEMMA StepPins ==
  TypeOK /\ PinsInv /\ AnswersAreRight /\ [Next]_vars => PinsInv' /\ AnswersAreRight'
<1> SUFFICES ASSUME TypeOK, PinsInv, AnswersAreRight, [Next]_vars
             PROVE  PinsInv' /\ AnswersAreRight'
    OBVIOUS
<1> USE ReadingsAssumption DEF TypeOK, PinsInv, AnswersAreRight, Goto
<1>1. \A z \in Zone : ThresholdFor(z) = ColdchainMaxTempC
  BY DEF ThresholdFor
<1>2. ASSUME NEW r \in Request, Arrive(r) \/ BadRequest(r) \/ StoreAppend(r)
      PROVE  PinsInv' /\ AnswersAreRight'
  <2>1. CASE Arrive(r)
    <3>1. PICK x \in Sample : sample' = [sample EXCEPT ![r] = x]
      BY <2>1 DEF Arrive
    <3>2. /\ pc[r] = "idle" /\ pc' = [pc EXCEPT ![r] = "append"]
          /\ UNCHANGED <<overrides, limit, detected>>
      BY <2>1 DEF Arrive
    <3>3. \A q \in Request : q # r => pc'[q] = pc[q] /\ sample'[q] = sample[q]
      BY <3>1, <3>2
    <3>4. pc'[r] = "append" /\ sample'[r] \in Sample /\ detected'[r] = <<>>
      BY <3>1, <3>2, <2>1
    <3> QED
      BY <3>2, <3>3, <3>4
  <2>2. CASE BadRequest(r)
    BY <2>2 DEF BadRequest
  <2>3. CASE StoreAppend(r)
    BY <2>3 DEF StoreAppend
  <2> QED
    BY <1>2, <2>1, <2>2, <2>3
<1>3. ASSUME NEW r \in Request, Compare(r) PROVE PinsInv' /\ AnswersAreRight'
  <2>1. TooWarm(r) <=> sample[r].refrigerated /\ sample[r].temp > ColdchainMaxTempC
    <3>1. pc[r] = "compare"
      BY ONLY <1>3 DEF Compare
    <3>2. sample[r].zone \in Zone
      <4>1. sample[r] \in Sample
        BY <3>1
      <4> QED
        BY ONLY <4>1, ReadingsAssumption DEF Reading
    <3> QED
      BY ONLY <1>1, <3>2 DEF TooWarm
  <2>2. /\ pc[r] = "compare"
        /\ pc' = [pc EXCEPT ![r] = IF TooWarm(r) THEN "read" ELSE "congestion"]
        /\ UNCHANGED <<overrides, sample, limit, detected>>
    BY ONLY <1>3 DEF Compare, Goto
  <2>3. detected[r] = <<>> /\ sample[r] \in Sample
    BY <2>2
  <2>4. pc'[r] = (IF TooWarm(r) THEN "read" ELSE "congestion")
    BY <2>2
  <2>5. \A q \in Request : q # r => pc'[q] = pc[q]
    BY <2>2
  <2> HIDE DEF TypeOK
  <2> QED
    BY <2>1, <2>2, <2>3, <2>4, <2>5
<1>4. ASSUME NEW r \in Request, ReadLimit(r) PROVE PinsInv' /\ AnswersAreRight'
  <2>1. pc[r] = "read" /\ sample[r].zone \in Zone
    BY <1>4 DEF Reading, ReadLimit, Reading
  <2>2. /\ limit' = [limit EXCEPT ![r] = ColdchainMaxTempC]
        /\ pc' = [pc EXCEPT ![r] = "pin"]
        /\ UNCHANGED <<overrides, sample, detected>>
    BY ONLY <1>1, <1>4, <2>1 DEF ReadLimit, Goto
  <2> QED
    BY <2>1, <2>2
<1>5. ASSUME NEW r \in Request, RecordThreshold(r) PROVE PinsInv' /\ AnswersAreRight'
  <2>1. sample[r] \in Sample /\ sample[r].zone \in Zone /\ detected[r] = <<>>
    BY <1>5 DEF Reading, RecordThreshold
  <2>2. \A z \in Zone : overrides'[z] \in {NoLimit, ColdchainMaxTempC}
    BY <1>5, <2>1 DEF RecordThreshold
  <2>3. /\ detected'[r] = <<"coldchain">> /\ pc'[r] = "congestion"
        /\ sample[r].refrigerated /\ sample[r].temp > ColdchainMaxTempC
    BY <1>5, <2>1 DEF RecordThreshold
  <2>4. /\ sample' = sample /\ limit' = limit
        /\ \A q \in Request : q # r => pc'[q] = pc[q] /\ detected'[q] = detected[q]
    BY <1>5 DEF RecordThreshold
  <2> QED
    BY <2>1, <2>2, <2>3, <2>4
<1>6. ASSUME NEW r \in Request, Congestion(r) PROVE PinsInv' /\ AnswersAreRight'
  <2>1. /\ detected[r] = IF sample[r].refrigerated /\ sample[r].temp > ColdchainMaxTempC
                         THEN <<"coldchain">> ELSE <<>>
        /\ pc'[r] \in {"log", "done"} /\ sample[r] \in Sample
        /\ detected'[r] = IF sample[r].occupancy > CongestionPct
                          THEN Append(detected[r], "congestion") ELSE detected[r]
    BY <1>6 DEF Congestion
  <2>2. detected'[r] = Implied(sample[r])
    <3>1. /\ Append(<<>>, "congestion") = <<>> \o <<"congestion">>
          /\ Append(<<"coldchain">>, "congestion") = <<"coldchain">> \o <<"congestion">>
          /\ <<>> \o <<>> = <<>> /\ <<"coldchain">> \o <<>> = <<"coldchain">>
      OBVIOUS
    <3> QED
      BY <2>1, <3>1 DEF Implied
  <2>3. /\ UNCHANGED <<sample, limit, overrides>>
        /\ \A q \in Request : q # r => pc'[q] = pc[q] /\ detected'[q] = detected[q]
    BY <1>6 DEF Congestion
  <2> QED
    BY <2>1, <2>2, <2>3
<1>7. ASSUME NEW r \in Request, Add(r) PROVE PinsInv' /\ AnswersAreRight'
  BY <1>7 DEF Add
<1>8. CASE UNCHANGED <<overrides, handlerVars>>
  BY <1>8 DEF handlerVars
<1>9. ASSUME [Next]_vars, \A r \in Request : ~RecordStep(r)
      PROVE  UNCHANGED <<overrides, handlerVars>>
  BY <1>9 DEF Next, SweepBegins, Trim, SummaryBegins, SummarizeZone, SummaryReturns, vars
<1> QED
  BY <1>2, <1>3, <1>4, <1>5, <1>6, <1>7, <1>8, <1>9 DEF RecordStep

(* The alerts of one reading are a sequence of alerts. *)
LEMMA AlertsOfType ==
  ASSUME NEW r \in Request, detected[r] \in Seq(Kind)
  PROVE  AlertsOf(r) \in Seq(Alert)
<1>1. PICK n \in Nat : detected[r] \in [1 .. n -> Kind]
  BY SeqDef
<1>2. AlertsOf(r) \in [1 .. n -> Alert]
  BY <1>1 DEF AlertsOf, Alert
<1> QED
  BY <1>2, SeqDef

(* Types; the capacities are what Newest leaves. *)
LEMMA StepTypeOK == TypeOK /\ PinsInv /\ [Next]_vars => TypeOK'
<1> SUFFICES ASSUME TypeOK, PinsInv, [Next]_vars PROVE TypeOK'
    OBVIOUS
<1> USE ReadingsAssumption DEF TypeOK, Goto
<1>1. ASSUME NEW r \in Request, Arrive(r) \/ BadRequest(r) \/ Compare(r) PROVE TypeOK'
  <2>1. CASE Arrive(r)
    BY <2>1 DEF Arrive, storeVars, alertVars, summaryVars
  <2>2. CASE BadRequest(r) \/ Compare(r)
    <3>1. CASE BadRequest(r)
      BY <3>1 DEF BadRequest, storeVars, alertVars, summaryVars
    <3>2. CASE Compare(r)
      BY <3>2 DEF Compare, storeVars, alertVars, summaryVars
    <3> QED
      BY <2>2, <3>1, <3>2
  <2> QED
    BY <1>1, <2>1, <2>2
<1>2. ASSUME NEW r \in Request, StoreAppend(r) PROVE TypeOK'
  <2> DEFINE z == sample[r].zone
             longer == Append(byZone[z], r)
  <2>1. z \in Zone
    BY <1>2 DEF Reading, StoreAppend, PinsInv
  <2>2. longer \in Seq(Request) /\ Append(recorded[z], r) \in Seq(Request)
    <3>1. byZone[z] \in Seq(Request) /\ recorded[z] \in Seq(Request)
      BY <2>1
    <3> HIDE DEF z
    <3> QED
      BY <3>1, AppendProperties
  <2>3. Newest(longer, Capacity) \in Seq(Request) /\ Len(Newest(longer, Capacity)) <= Capacity
    BY ONLY <2>2, Capacity \in Nat, NewestProperties
  <2>4. /\ byZone' = [byZone EXCEPT ![z] = Newest(longer, Capacity)]
        /\ recorded' = [recorded EXCEPT ![z] = Append(recorded[z], r)]
        /\ pc' = [pc EXCEPT ![r] = "compare"]
        /\ UNCHANGED <<alertVars, overrides, sample, limit, detected, sweep, summaryVars>>
    BY <1>2 DEF StoreAppend, Evict
  <2> HIDE DEF z, longer
  <2> QED
    BY <2>1, <2>2, <2>3, <2>4 DEF alertVars, summaryVars
<1>3. ASSUME NEW r \in Request, ReadLimit(r) PROVE TypeOK'
  <2>1. sample[r].zone \in Zone
    BY <1>3 DEF Reading, ReadLimit, PinsInv
  <2>2. ThresholdFor(sample[r].zone) \in Int \cup {NoLimit}
    BY <2>1 DEF ThresholdFor
  <2> QED
    BY <1>3, <2>2 DEF ReadLimit, storeVars, alertVars, summaryVars
<1>4. ASSUME NEW r \in Request, RecordThreshold(r) PROVE TypeOK'
  <2>1. Append(detected[r], "coldchain") \in Seq(Kind)
    BY AppendProperties DEF Kind
  <2> QED
    BY <1>4, <2>1 DEF RecordThreshold, storeVars, alertVars, summaryVars
<1>5. ASSUME NEW r \in Request, Congestion(r) PROVE TypeOK'
  <2>1. Append(detected[r], "congestion") \in Seq(Kind)
    BY AppendProperties DEF Kind
  <2> QED
    BY <1>5, <2>1 DEF Congestion, storeVars, alertVars, summaryVars
<1>6. ASSUME NEW r \in Request, Add(r) PROVE TypeOK'
  <2>1. alerts \o AlertsOf(r) \in Seq(Alert) /\ raised \o AlertsOf(r) \in Seq(Alert)
    BY AlertsOfType, ConcatProperties
  <2>2. /\ Newest(alerts \o AlertsOf(r), AlertLimit) \in Seq(Alert)
        /\ Len(Newest(alerts \o AlertsOf(r), AlertLimit)) <= AlertLimit
    BY ONLY <2>1, AlertLimit \in Nat, NewestProperties
  <2> QED
    BY <1>6, <2>1, <2>2 DEF Add, storeVars, summaryVars
<1>7. ASSUME NEW z \in Zone, Trim(z) PROVE TypeOK'
  <2>1. Newest(byZone[z], Capacity) \in Seq(Request) /\ Len(Newest(byZone[z], Capacity)) <= Capacity
    <3>1. byZone[z] \in Seq(Request)
      OBVIOUS
    <3> QED
      BY ONLY <3>1, Capacity \in Nat, NewestProperties
  <2> QED
    BY <1>7, <2>1 DEF Trim, Cut, alertVars, handlerVars, summaryVars
<1>8. CASE SweepBegins
  BY <1>8 DEF SweepBegins, Zones, storeVars, alertVars, handlerVars, summaryVars
<1>9. CASE SummaryBegins \/ SummaryReturns
  <2>1. Zones \subseteq Zone /\ Len(alerts) \in Nat
    BY LenProperties DEF Zones
  <2>2. summary' \in SummaryType
    <3>1. summary \in SummaryType
      OBVIOUS
    <3>2. \/ summary' = [summary EXCEPT !.pc = "zones", !.todo = Zones]
          \/ summary' = [summary EXCEPT !.pc = "done", !.alerts = Len(alerts)]
      BY <1>9 DEF SummaryBegins, SummaryReturns, RecentAlerts
    <3> HIDE DEF TypeOK
    <3> QED
      BY <2>1, <3>1, <3>2 DEF SummaryType
  <2>3. begun' \in [byZone : [Zone -> Seq(Request)], alerts : Seq(Alert)]
    BY <1>9 DEF SummaryBegins, SummaryReturns, RecentAlerts
  <2>4. UNCHANGED <<storeVars, alertVars, overrides, handlerVars, sweep, maxTempC>>
    BY <1>9 DEF SummaryBegins, SummaryReturns, RecentAlerts
  <2> QED
    BY <2>2, <2>3, <2>4 DEF storeVars, alertVars, handlerVars
<1>10. ASSUME NEW z \in Zone, SummarizeZone(z) PROVE TypeOK'
  <2>1. Len(byZone[z]) \in Nat
    BY LenProperties
  <2>2. summary' \in SummaryType
    <3>1. summary \in SummaryType
      OBVIOUS
    <3>2. summary' = [summary EXCEPT !.todo = summary.todo \ {z}, !.zones = summary.zones + 1,
                                     !.readings = summary.readings + Len(byZone[z])]
      BY <1>10 DEF SummarizeZone, RecentReadings
    <3>3. /\ summary.todo \ {z} \in SUBSET Zone /\ summary.zones + 1 \in Nat
          /\ summary.readings + Len(byZone[z]) \in Nat
      BY ONLY <2>1, <3>1 DEF SummaryType
    <3> QED
      BY ONLY <3>1, <3>2, <3>3 DEF SummaryType
  <2>3. UNCHANGED <<storeVars, alertVars, overrides, handlerVars, sweep, begun>>
    BY <1>10 DEF SummarizeZone, RecentReadings
  <2>4. DOMAIN maxTempC' = Zone
    BY <1>10 DEF SummarizeZone, RecentReadings
  <2> QED
    BY <2>2, <2>3, <2>4 DEF storeVars, alertVars, handlerVars
<1>11. CASE UNCHANGED vars
  BY <1>11 DEF vars, storeVars, alertVars, handlerVars, summaryVars
<1> QED
  BY <1>1, <1>2, <1>3, <1>4, <1>5, <1>6, <1>7, <1>8, <1>9, <1>10, <1>11 DEF Next, RecordStep

-----------------------------------------------------------------------------
(* The log of alerts.  What Add does to the alerts ever raised. *)
LEMMA AddEffect ==
  ASSUME TypeOK, NEW r \in Request, Add(r)
  PROVE  \E len \in Nat, k \in Nat :
           /\ DOMAIN raised = 1 .. len /\ DOMAIN raised' = 1 .. len + k /\ k = Len(detected[r])
           /\ \A n \in 1 .. len : raised'[n] = raised[n]
           /\ \A n \in len + 1 .. len + k :
                raised'[n].reading = r /\ raised'[n].kind = detected[r][n - (len + 1) + 1]
           /\ k = 0 <=> detected[r] = <<>>
<1>1. /\ raised \in Seq(Alert) /\ detected[r] \in Seq(Kind) /\ AlertsOf(r) \in Seq(Alert)
      /\ raised' = raised \o AlertsOf(r)
  BY AlertsOfType DEF TypeOK, Add
<1>2. /\ Len(detected[r]) \in Nat /\ DOMAIN detected[r] = 1 .. Len(detected[r])
      /\ DOMAIN AlertsOf(r) = DOMAIN detected[r]
  BY <1>1, LenProperties DEF AlertsOf
<1>3. Len(AlertsOf(r)) \in Nat /\ DOMAIN AlertsOf(r) = 1 .. Len(AlertsOf(r))
  BY <1>1, LenProperties
<1>4. Len(AlertsOf(r)) = Len(detected[r])
  BY <1>2, <1>3
<1>5. PICK l \in Nat, k \in Nat : l = Len(raised) /\ k = Len(detected[r])
  BY <1>1, <1>2, LenProperties
<1>6. DOMAIN raised = 1 .. l /\ (k = 0 <=> detected[r] = <<>>)
  BY <1>1, <1>2, <1>5, LenProperties, EmptySeq
<1>7. /\ DOMAIN raised' = 1 .. l + k
      /\ \A n \in 1 .. l + k : raised'[n] = IF n <= l THEN raised[n] ELSE AlertsOf(r)[n - l]
  <2> DEFINE longer == raised \o AlertsOf(r)
  <2>1. /\ longer \in Seq(Alert) /\ Len(longer) = Len(raised) + Len(AlertsOf(r))
        /\ \A n \in 1 .. Len(raised) + Len(AlertsOf(r)) :
             longer[n] = IF n <= Len(raised) THEN raised[n] ELSE AlertsOf(r)[n - Len(raised)]
    BY <1>1, ConcatProperties
  <2> HIDE DEF longer
  <2>2. DOMAIN longer = 1 .. l + k
    BY <1>4, <1>5, <2>1, LenProperties
  <2>3. \A n \in 1 .. l + k : longer[n] = IF n <= l THEN raised[n] ELSE AlertsOf(r)[n - l]
    BY <1>4, <1>5, <2>1
  <2> QED
    BY <1>1, <2>2, <2>3 DEF longer
<1>8. \A n \in 1 .. k : AlertsOf(r)[n].reading = r /\ AlertsOf(r)[n].kind = detected[r][n]
  BY <1>2, <1>5 DEF AlertsOf
<1>9. \A n \in l + 1 .. l + k : /\ n \in 1 .. l + k /\ ~(n <= l) /\ n - l \in 1 .. k
                                /\ n - (l + 1) + 1 = n - l
  OBVIOUS
<1>10. \A n \in 1 .. l : n \in 1 .. l + k /\ n <= l
  OBVIOUS
<1>11. /\ \A n \in 1 .. l : raised'[n] = raised[n]
       /\ \A n \in l + 1 .. l + k :
            raised'[n].reading = r /\ raised'[n].kind = detected[r][n - (l + 1) + 1]
  BY <1>7, <1>8, <1>9, <1>10
<1> QED
  BY <1>5, <1>6, <1>7, <1>11

(* The handler of one request does not touch the answer of another, nor    *)
(* its own when it has been given, and gives one without alerts when there *)
(* are none.                                                               *)
LEMMA AnsweredStays ==
  ASSUME TypeOK, [Next]_vars, NEW r \in Request, ~Add(r)
  PROVE  IF pc[r] = "done" /\ detected[r] # <<>>
         THEN pc'[r] = "done" /\ detected'[r] = detected[r] /\ sample'[r] = sample[r]
         ELSE ~(pc'[r] = "done" /\ detected'[r] # <<>>)
<1> USE DEF TypeOK, Goto
<1>1. ASSUME NEW q \in Request, RecordStep(q), q # r
      PROVE  pc'[r] = pc[r] /\ detected'[r] = detected[r] /\ sample'[r] = sample[r]
  BY <1>1 DEF RecordStep, Arrive, BadRequest, StoreAppend, Compare, ReadLimit, RecordThreshold,
              Congestion, Add
<1>2. CASE RecordStep(r)
  <2>1. pc[r] # "done"
    BY <1>2 DEF RecordStep, Arrive, BadRequest, StoreAppend, Compare, ReadLimit,
                RecordThreshold, Congestion, Add
  <2>2. CASE Congestion(r)
    BY <2>1, <2>2 DEF Congestion
  <2>3. CASE ~Congestion(r)
    <3>1. \E label \in {"append", "refused", "compare", "read", "congestion", "pin"} :
            pc' = [pc EXCEPT ![r] = label]
      BY <1>2, <2>3 DEF RecordStep, Arrive, BadRequest, StoreAppend, Compare, ReadLimit,
                        RecordThreshold
    <3> QED
      BY <2>1, <3>1
  <2> QED
    BY <2>2, <2>3
<1>3. CASE \A q \in Request : ~RecordStep(q)
  BY <1>3 DEF Next, SweepBegins, Trim, SummaryBegins, SummarizeZone, SummaryReturns, vars,
              handlerVars
<1> QED
  BY <1>1, <1>2, <1>3

(* The log is cut with each addition, which is cutting all of them once.   *)
LEMMA StepAlertsCut ==
  ASSUME TypeOK, alerts = Newest(raised, AlertLimit), [Next]_vars
  PROVE  alerts' = Newest(raised', AlertLimit)
<1>1. ASSUME NEW r \in Request, Add(r) PROVE alerts' = Newest(raised', AlertLimit)
  <2>1. /\ raised \in Seq(Alert) /\ AlertsOf(r) \in Seq(Alert) /\ AlertLimit \in Nat
    BY AlertsOfType, ReadingsAssumption DEF TypeOK, ReadingsAssumption
  <2>2. Newest(Newest(raised, AlertLimit) \o AlertsOf(r), AlertLimit)
          = Newest(raised \o AlertsOf(r), AlertLimit)
    BY <2>1, NewestConcat
  <2> QED
    BY <1>1, <2>2 DEF Add
<1>2. ASSUME \A r \in Request : ~Add(r) PROVE UNCHANGED alertVars
  BY <1>2 DEF Next, RecordStep, Arrive, BadRequest, StoreAppend, Compare, ReadLimit,
              RecordThreshold, Congestion, SweepBegins, Trim, SummaryBegins, SummarizeZone,
              SummaryReturns, vars
<1> QED
  BY <1>1, <1>2 DEF alertVars

LEMMA StepAlerts ==
  ASSUME Inductive, NoAlertLost, [Next]_vars
  PROVE  NoAlertLost'
<1>0. TypeOK /\ PinsInv /\ TypeOK' /\ RecordedOnce'
  BY StepTypeOK, StepRecorded DEF Inductive
<1>1. alerts' = Newest(raised', AlertLimit)
  BY <1>0, StepAlertsCut DEF NoAlertLost
<1> DEFINE Recorded(q) == \E n \in DOMAIN recorded[sample[q].zone] : recorded[sample[q].zone][n] = q
<1>2. \A q \in Request : pc'[q] = "done" /\ detected'[q] # <<>> => Recorded(q)'
  <2>1. ASSUME NEW q \in Request, pc'[q] = "done" PROVE Recorded(q)'
    <3>1. Stored(q)' /\ sample'[q].zone \in Zone
      BY <1>0, <2>1, StepPins, ReadingsAssumption
         DEF Inductive, Stored, PinsInv, ReadingsAssumption, Reading
    <3> QED
      BY <1>0, <3>1 DEF RecordedOnce
  <2> QED
    BY <2>1
<1> HIDE DEF Recorded
<1> DEFINE Right(q) ==
      IF pc[q] = "done" /\ detected[q] # <<>>
      THEN \E first \in RaisedBy(q) :
             /\ RaisedBy(q) = first .. first + Len(detected[q]) - 1
             /\ \A n \in RaisedBy(q) : raised[n].kind = detected[q][n - first + 1]
      ELSE RaisedBy(q) = {}
<1>3. \A q \in Request : Right(q)
  BY DEF NoAlertLost
<1>4. ASSUME NEW r \in Request, Add(r), NEW q \in Request PROVE Right(q)'
  <2>1. PICK len \in Nat, k \in Nat :
          /\ DOMAIN raised = 1 .. len /\ DOMAIN raised' = 1 .. len + k /\ k = Len(detected[r])
          /\ \A n \in 1 .. len : raised'[n] = raised[n]
          /\ \A n \in len + 1 .. len + k :
               raised'[n].reading = r /\ raised'[n].kind = detected[r][n - (len + 1) + 1]
          /\ k = 0 <=> detected[r] = <<>>
    BY <1>0, <1>4, AddEffect
  <2>2. /\ pc[r] = "log" /\ pc' = [pc EXCEPT ![r] = "done"] /\ UNCHANGED <<sample, detected>>
    BY <1>4 DEF Add, Goto
  <2>3. \A n : n \in 1 .. len + k <=> n \in 1 .. len \/ n \in len + 1 .. len + k
    OBVIOUS
  <2>4. CASE q # r
    <3>1. RaisedBy(q)' = RaisedBy(q)
      BY <2>1, <2>3, <2>4 DEF RaisedBy
    <3>2. \A n \in RaisedBy(q) : raised'[n] = raised[n]
      BY <2>1 DEF RaisedBy
    <3>3. pc'[q] = pc[q]
      BY <2>2, <2>4
    <3> QED
      BY <1>3, <2>2, <3>1, <3>2, <3>3
  <2>5. CASE q = r
    <3>1. RaisedBy(r) = {}
      BY <1>3, <2>2
    <3>2. RaisedBy(r)' = len + 1 .. len + k
      BY <2>1, <2>3, <3>1 DEF RaisedBy
    <3>3. len + 1 + k - 1 = len + k
      OBVIOUS
    <3>4. CASE k = 0
      BY <2>1, <2>2, <2>5, <3>2, <3>4
    <3>5. CASE k # 0
      <4>1. len + 1 \in len + 1 .. len + k
        BY <3>5
      <4>2. /\ RaisedBy(r)' = len + 1 .. len + 1 + Len(detected[r]) - 1
            /\ len + 1 \in RaisedBy(r)'
            /\ \A n \in RaisedBy(r)' : raised'[n].kind = detected'[r][n - (len + 1) + 1]
        BY <2>1, <2>2, <3>2, <3>3, <4>1
      <4>3. pc'[r] = "done" /\ detected'[r] # <<>> /\ detected'[r] = detected[r]
        BY <1>0, <2>1, <2>2, <3>5 DEF TypeOK
      <4> QED
        BY <2>5, <4>2, <4>3
    <3> QED
      BY <3>4, <3>5
  <2> QED
    BY <2>4, <2>5
<1>5. ASSUME \A r \in Request : ~Add(r), NEW q \in Request PROVE Right(q)'
  <2>1. raised' = raised
    BY <1>5 DEF Next, RecordStep, Arrive, BadRequest, StoreAppend, Compare, ReadLimit,
                RecordThreshold, Congestion, SweepBegins, Trim, SummaryBegins, SummarizeZone,
                SummaryReturns, vars, alertVars
  <2>2. RaisedBy(q)' = RaisedBy(q)
    BY <2>1 DEF RaisedBy
  <2> QED
    BY <1>0, <1>3, <1>5, <2>1, <2>2, AnsweredStays
<1>6. \A q \in Request : Right(q)'
  BY <1>4, <1>5
<1> QED
  BY <1>1, <1>2, <1>6 DEF NoAlertLost, Recorded

-----------------------------------------------------------------------------
(* Summary.  Every set of naturals has a least one, and a finite set of    *)
(* numbers a greatest one: that with the fewest others above it.           *)
LEMMA LeastOf ==
  ASSUME NEW S \in SUBSET Nat, S # {}
  PROVE  \E x \in S : \A y \in S : x <= y
<1>1. PICK x \in S : \A y \in S : ~ (<<y, x>> \in OpToRel(<, Nat))
  BY NatLessThanWellFounded, WFMin
<1>2. \A y \in S : ~ (y < x)
  BY <1>1 DEF OpToRel
<1> QED
  BY <1>2

LEMMA MinOf ==
  ASSUME NEW S \in SUBSET Nat, S # {}
  PROVE  Min(S) \in S
<1>1. \E x \in S : \A y \in S : x <= y
  BY LeastOf
<1> QED
  BY <1>1 DEF Min

LEMMA MaxOf ==
  ASSUME NEW S \in SUBSET Int, S # {}, IsFiniteSet(S)
  PROVE  Max(S) \in S /\ \A y \in S : y <= Max(S)
<1> DEFINE above(x) == {y \in S : y > x}
           counts == {Cardinality(above(x)) : x \in S}
<1>1. \A x \in S : IsFiniteSet(above(x)) /\ Cardinality(above(x)) \in Nat
  <2>1. ASSUME NEW x \in S PROVE IsFiniteSet(above(x)) /\ Cardinality(above(x)) \in Nat
    <3>1. above(x) \in SUBSET S
      OBVIOUS
    <3> HIDE DEF above
    <3> QED
      BY <3>1, FS_Subset, FS_CardinalityType
  <2> QED
    BY <2>1
<1> HIDE DEF above
<1>2. counts \in SUBSET Nat /\ counts # {}
  BY <1>1
<1>3. PICK least \in counts : \A n \in counts : least <= n
  BY <1>2, LeastOf
<1>4. PICK x \in S : least = Cardinality(above(x))
  OBVIOUS
<1>5. \A y \in S : Cardinality(above(x)) <= Cardinality(above(y))
  BY <1>3, <1>4
<1>6. ASSUME NEW y \in S PROVE y <= x
  <2>1. SUFFICES ASSUME y > x PROVE FALSE
    BY S \in SUBSET Int
  <2>2. above(y) \in SUBSET above(x) /\ y \in above(x) /\ y \notin above(y)
    <3>1. y \in Int /\ x \in Int /\ y > x /\ ~(y > y)
      BY <2>1
    <3>2. \A z \in S : z > y => z > x
      BY <3>1
    <3>3. above(x) = {z \in S : z > x} /\ above(y) = {z \in S : z > y}
      BY DEF above
    <3> QED
      BY <3>1, <3>2, <3>3
  <2>3. Cardinality(above(y)) <= Cardinality(above(x)) /\ above(x) # above(y)
    BY <1>1, <2>2, FS_Subset
  <2>4. Cardinality(above(x)) # Cardinality(above(y))
    BY <1>1, <2>2, <2>3, FS_Subset
  <2> QED
    BY <1>1, <1>5, <2>3, <2>4
<1>7. \A y \in S : x >= y
  BY <1>6
<1>8. Max(S) \in S /\ \A y \in S : Max(S) >= y
  BY <1>7 DEF Max
<1> QED
  BY <1>8

(* The temperatures of a history are finitely many. *)
LEMMA TempsFinite ==
  ASSUME NEW history \in Seq(Request), history # <<>>
  PROVE  IsFiniteSet(Temps(history)) /\ Temps(history) # {}
<1>1. Len(history) \in Nat /\ DOMAIN history = 1 .. Len(history) /\ Len(history) # 0
  BY LenProperties, EmptySeq
<1> DEFINE temp == [n \in 1 .. Len(history) |-> sample[history[n]].temp]
<1>2. temp \in Surjection(1 .. Len(history), Temps(history))
  BY <1>1 DEF Surjection, Temps
<1>3. IsFiniteSet(1 .. Len(history))
  BY <1>1, FS_Interval
<1>4. IsFiniteSet(Temps(history))
  BY <1>2, <1>3, FS_Surjection
<1>5. 1 \in DOMAIN history
  BY <1>1
<1> QED
  BY <1>4, <1>5 DEF Temps

(* The readings of finitely many zones are finitely many, ... *)
LEMMA EntriesFinite ==
  ASSUME NEW history, NEW zones, IsFiniteSet(zones)
  PROVE  /\ IsFiniteSet(Entries(history, zones))
         /\ Cardinality(Entries(history, zones)) \in Nat
<1>1. Capacity \in Nat
  BY ReadingsAssumption DEF ReadingsAssumption
<1>2. IsFiniteSet(zones \X (1 .. Capacity))
  <2>1. IsFiniteSet(1 .. Capacity)
    BY <1>1, FS_Interval
  <2> QED
    BY <2>1, FS_Product
<1>3. Entries(history, zones) \in SUBSET (zones \X (1 .. Capacity))
  BY DEF Entries
<1> QED
  BY <1>2, <1>3, FS_Subset, FS_CardinalityType

(* ... another zone adds its own, ... *)
LEMMA EntriesAdd ==
  ASSUME NEW history \in [Zone -> Seq(Request)], NEW zones \in SUBSET Zone, IsFiniteSet(zones),
         NEW z \in Zone, z \notin zones, Len(history[z]) <= Capacity
  PROVE  Cardinality(Entries(history, zones \cup {z}))
           = Cardinality(Entries(history, zones)) + Len(history[z])
<1>1. PICK len \in Nat : len = Len(history[z]) /\ DOMAIN history[z] = 1 .. len
  BY LenProperties
<1>2. \A n \in 1 .. len : n \in 1 .. Capacity
  BY <1>1, ReadingsAssumption DEF ReadingsAssumption
<1> DEFINE own == {z} \X (1 .. len)
<1>3. IsFiniteSet(own) /\ Cardinality(own) = len
  <2>1. IsFiniteSet({z}) /\ Cardinality({z}) = 1
    BY FS_Singleton
  <2>2. IsFiniteSet(1 .. len) /\ Cardinality(1 .. len) = len
    <3>1. len \in Int /\ 1 \in Int /\ (IF 1 > len THEN 0 ELSE len - 1 + 1) = len
      OBVIOUS
    <3> QED
      BY <3>1, FS_Interval
  <2>3. IsFiniteSet({z} \X (1 .. len)) /\ Cardinality({z} \X (1 .. len)) = 1 * len
    BY <2>1, <2>2, FS_Product
  <2> QED
    BY <2>3
<1>4. Entries(history, zones \cup {z}) = Entries(history, zones) \cup own
  BY <1>1, <1>2 DEF Entries
<1>5. Entries(history, zones) \cap own = {}
  BY DEF Entries
<1> HIDE DEF own
<1>6. /\ IsFiniteSet(Entries(history, zones)) /\ Cardinality(Entries(history, zones)) \in Nat
      /\ Cardinality({}) = 0
  BY EntriesFinite, FS_EmptySet
<1>7. Cardinality(Entries(history, zones) \cup own)
        = Cardinality(Entries(history, zones)) + len - Cardinality({})
  BY <1>3, <1>5, <1>6, FS_Union
<1>8. PICK old \in Nat : old = Cardinality(Entries(history, zones))
  BY <1>6
<1>9. Cardinality(Entries(history, zones \cup {z})) = old + len - 0
  BY ONLY <1>4, <1>6, <1>7, <1>8
<1>10. old + len - 0 = old + len
  OBVIOUS
<1> QED
  BY ONLY <1>1, <1>8, <1>9, <1>10

(* ... and longer histories have no fewer.                                 *)
LEMMA EntriesGrow ==
  ASSUME NEW before \in [Zone -> Seq(Request)], NEW after \in [Zone -> Seq(Request)],
         NEW zones \in SUBSET Zone, IsFiniteSet(zones),
         \A z \in zones : Len(before[z]) <= Len(after[z])
  PROVE  Cardinality(Entries(before, zones)) <= Cardinality(Entries(after, zones))
<1>1. \A z \in zones : \A n \in DOMAIN before[z] : n \in DOMAIN after[z]
  <2> SUFFICES ASSUME NEW z \in zones PROVE \A n \in DOMAIN before[z] : n \in DOMAIN after[z]
    OBVIOUS
  <2>1. before[z] \in Seq(Request) /\ after[z] \in Seq(Request)
    OBVIOUS
  <2>2. /\ Len(before[z]) \in Nat /\ DOMAIN before[z] = 1 .. Len(before[z])
        /\ Len(after[z]) \in Nat /\ DOMAIN after[z] = 1 .. Len(after[z])
    BY <2>1, LenProperties
  <2>3. Len(before[z]) <= Len(after[z])
    OBVIOUS
  <2> QED
    BY <2>2, <2>3
<1>2. Entries(before, zones) \in SUBSET Entries(after, zones)
  BY <1>1 DEF Entries
<1> QED
  BY <1>2, EntriesFinite, FS_Subset

(* What has been recorded is stored readings, ... *)
LEMMA RecordedIsStored ==
  ASSUME Inductive, NEW z \in Zone, NEW n \in DOMAIN recorded[z]
  PROVE  /\ recorded[z][n] \in Request /\ Stored(recorded[z][n])
         /\ sample[recorded[z][n]] \in Sample /\ sample[recorded[z][n]].temp \in Int
<1>1. recorded[z] \in Seq(Request) /\ PinsInv
  BY DEF Inductive, TypeOK
<1>2. recorded[z][n] \in Request
  BY <1>1, ElementOfSeq, LenProperties
<1>3. Stored(recorded[z][n])
  BY DEF Inductive, HistoryIsNewest, RecordedOnce
<1>4. sample[recorded[z][n]] \in Sample
  BY <1>1, <1>2, <1>3 DEF PinsInv, Stored
<1> QED
  BY <1>2, <1>3, <1>4, ReadingsAssumption DEF Reading, ReadingsAssumption

(* ... and so is what a zone's history retains of it.                      *)
LEMMA HistoryIsRecorded ==
  ASSUME Inductive, NEW z \in Zone, NEW n \in DOMAIN byZone[z]
  PROVE  \E m \in DOMAIN recorded[z] : recorded[z][m] = byZone[z][n]
<1>1. /\ recorded[z] \in Seq(Request) /\ Capacity \in Nat /\ byZone[z] = Newest(recorded[z], Capacity)
  BY ReadingsAssumption DEF Inductive, TypeOK, HistoryIsNewest, ReadingsAssumption
<1>2. /\ byZone[z] \in Seq(Request)
      /\ Len(byZone[z]) = IF Len(recorded[z]) > Capacity THEN Capacity ELSE Len(recorded[z])
      /\ \A k \in 1 .. Len(byZone[z]) :
           byZone[z][k] = recorded[z][k + Len(recorded[z]) - Len(byZone[z])]
  <2> DEFINE kept == Newest(recorded[z], Capacity)
  <2>1. /\ kept \in Seq(Request)
        /\ Len(kept) = IF Len(recorded[z]) > Capacity THEN Capacity ELSE Len(recorded[z])
        /\ \A k \in 1 .. Len(kept) : kept[k] = recorded[z][k + Len(recorded[z]) - Len(kept)]
    BY <1>1, NewestProperties
  <2>2. byZone[z] = kept
    BY <1>1
  <2> HIDE DEF kept
  <2> QED
    BY ONLY <2>1, <2>2
<1>3. PICK l \in Nat, k \in Nat : /\ l = Len(recorded[z]) /\ DOMAIN recorded[z] = 1 .. l
                                  /\ k = Len(byZone[z]) /\ DOMAIN byZone[z] = 1 .. k
  BY <1>1, <1>2, LenProperties
<1>4. k <= l
  BY <1>1, <1>2, <1>3
<1>5. PICK i \in 1 .. k : i = n
  BY <1>3
<1>6. i + l - k \in 1 .. l
  BY ONLY <1>4, i \in 1 .. k, k \in Nat, l \in Nat
<1> QED
  BY <1>2, <1>3, <1>5, <1>6

(* What has been decoded stays with a request. *)
LEMMA SamplesStay ==
  ASSUME Inductive, [Next]_vars, NEW r \in Request, Stored(r)
  PROVE  Stored(r)' /\ sample'[r] = sample[r]
<1>1. ASSUME NEW q \in Request, StoreAppend(q) PROVE Stored(r)' /\ sample'[r] = sample[r]
  BY <1>1, StoreAppendEffect DEF Inductive
<1>2. ASSUME \A q \in Request : ~StoreAppend(q) PROVE Stored(r)' /\ sample'[r] = sample[r]
  BY <1>2, OthersRecordNothing DEF Inductive
<1> QED
  BY <1>1, <1>2

(* A history never shrinks, and gets nothing but a reading that has just   *)
(* been stored.                                                            *)
LEMMA HistoryStep ==
  ASSUME Inductive, [Next]_vars, NEW z \in Zone
  PROVE  /\ Len(byZone[z]) \in Nat /\ Len(byZone'[z]) \in Nat /\ Len(byZone[z]) <= Len(byZone'[z])
         /\ \A n \in DOMAIN recorded[z] :
              n \in DOMAIN recorded'[z] /\ recorded'[z][n] = recorded[z][n]
         /\ \A n \in DOMAIN byZone'[z] : Stored(byZone'[z][n]) =>
              \E m \in DOMAIN byZone[z] : byZone[z][m] = byZone'[z][n]
<1>0. /\ TypeOK /\ PinsInv /\ HistoryIsNewest /\ HistoryIsNewest' /\ Capacity \in Nat
      /\ byZone[z] \in Seq(Request) /\ recorded[z] \in Seq(Request) /\ Len(byZone[z]) <= Capacity
      /\ Len(byZone[z]) \in Nat
  BY StepHistory, LenProperties, ReadingsAssumption DEF Inductive, TypeOK, ReadingsAssumption
<1>1. ASSUME NEW r \in Request, StoreAppend(r), z = sample[r].zone
      PROVE  /\ Len(byZone[z]) <= Len(byZone'[z]) /\ Len(byZone'[z]) \in Nat
             /\ \A n \in DOMAIN recorded[z] :
                  n \in DOMAIN recorded'[z] /\ recorded'[z][n] = recorded[z][n]
             /\ \A n \in DOMAIN byZone'[z] : Stored(byZone'[z][n]) =>
                  \E m \in DOMAIN byZone[z] : byZone[z][m] = byZone'[z][n]
  <2> DEFINE longer == Append(byZone[z], r)
  <2>1. /\ ~Stored(r) /\ byZone'[z] = Newest(longer, Capacity)
        /\ Len(recorded[z]) \in Nat /\ DOMAIN recorded[z] = 1 .. Len(recorded[z])
        /\ DOMAIN recorded'[z] = 1 .. Len(recorded[z]) + 1
        /\ \A n \in 1 .. Len(recorded[z]) : recorded'[z][n] = recorded[z][n]
    BY <1>0, <1>1, StoreAppendEffect DEF TypeOK
  <2>2. PICK l \in Nat : l = Len(byZone[z]) /\ DOMAIN byZone[z] = 1 .. l
    BY <1>0, LenProperties
  <2>3. /\ longer \in Seq(Request) /\ Len(longer) = l + 1 /\ longer[l + 1] = r
        /\ \A n \in 1 .. l : longer[n] = byZone[z][n]
    BY <1>0, <2>2, AppendProperties
  <2> HIDE DEF longer
  <2>4. /\ byZone'[z] \in Seq(Request)
        /\ Len(byZone'[z]) = IF l + 1 > Capacity THEN Capacity ELSE l + 1
        /\ \A k \in 1 .. Len(byZone'[z]) : byZone'[z][k] = longer[k + (l + 1) - Len(byZone'[z])]
    <3> DEFINE cut == Newest(longer, Capacity)
    <3>1. /\ cut \in Seq(Request)
          /\ Len(cut) = IF Len(longer) > Capacity THEN Capacity ELSE Len(longer)
          /\ \A k \in 1 .. Len(cut) : cut[k] = longer[k + Len(longer) - Len(cut)]
      BY <1>0, <2>3, NewestProperties
    <3>2. byZone'[z] = cut /\ Len(longer) = l + 1
      BY <2>1, <2>3
    <3> HIDE DEF cut
    <3>. QED BY ONLY <3>1, <3>2
  <2>5. PICK k \in Nat : k = Len(byZone'[z]) /\ DOMAIN byZone'[z] = 1 .. k
    BY <2>4, LenProperties
  <2>6. l <= k /\ k <= l + 1
    BY <1>0, <2>2, <2>4, <2>5
  <2>7. ASSUME NEW n \in DOMAIN byZone'[z], Stored(byZone'[z][n])
        PROVE  \E m \in DOMAIN byZone[z] : byZone[z][m] = byZone'[z][n]
    <3>0. PICK i \in 1 .. k : i = n
      BY <2>5, <2>7
    <3>1. i + (l + 1) - k \in 1 .. l + 1
      BY ONLY <2>6, i \in 1 .. k, k \in Nat, l \in Nat
    <3>2. byZone'[z][n] = longer[i + (l + 1) - k]
      BY <2>4, <2>5, <3>0
    <3>3. i + (l + 1) - k # l + 1
      BY <2>1, <2>3, <2>7, <3>2
    <3>4. i + (l + 1) - k \in 1 .. l
      BY ONLY <3>1, <3>3, i \in 1 .. k, k \in Nat, l \in Nat
    <3> QED
      BY <2>2, <2>3, <3>2, <3>4
  <2>8. \A n \in DOMAIN recorded[z] : n \in DOMAIN recorded'[z] /\ recorded'[z][n] = recorded[z][n]
    BY <2>1
  <2> QED
    BY <2>2, <2>5, <2>6, <2>7, <2>8
<1>2. ASSUME NEW r \in Request, StoreAppend(r), z # sample[r].zone
      PROVE  byZone'[z] = byZone[z] /\ recorded'[z] = recorded[z]
  BY <1>0, <1>2, StoreAppendEffect
<1>3. ASSUME \A r \in Request : ~StoreAppend(r)
      PROVE  byZone'[z] = byZone[z] /\ recorded'[z] = recorded[z]
  <2>1. recorded' = recorded
    BY <1>0, <1>3, OthersRecordNothing
  <2>2. byZone[z] = Newest(recorded[z], Capacity) /\ byZone'[z] = Newest(recorded'[z], Capacity)
    BY <1>0 DEF HistoryIsNewest
  <2> QED
    BY <2>1, <2>2
<1>4. CASE byZone'[z] = byZone[z] /\ recorded'[z] = recorded[z]
  BY <1>0, <1>4
<1> QED
  BY <1>0, <1>1, <1>2, <1>3, <1>4

(* Nor does the log of alerts. *)
LEMMA AlertsGrow ==
  ASSUME Inductive, [Next]_vars
  PROVE  Len(alerts) \in Nat /\ Len(alerts') \in Nat /\ Len(alerts) <= Len(alerts')
<1>0. /\ TypeOK /\ alerts \in Seq(Alert) /\ Len(alerts) \in Nat /\ Len(alerts) <= AlertLimit
      /\ AlertLimit \in Nat
  BY LenProperties, ReadingsAssumption DEF Inductive, TypeOK, ReadingsAssumption
<1>1. ASSUME NEW r \in Request, Add(r) PROVE Len(alerts') \in Nat /\ Len(alerts) <= Len(alerts')
  <2> DEFINE longer == alerts \o AlertsOf(r)
  <2>1. AlertsOf(r) \in Seq(Alert) /\ alerts' = Newest(longer, AlertLimit)
    BY <1>0, <1>1, AlertsOfType DEF TypeOK, Add
  <2>2. PICK k \in Nat : k = Len(AlertsOf(r))
    BY <2>1, LenProperties
  <2>3. longer \in Seq(Alert) /\ Len(longer) = Len(alerts) + k
    BY <1>0, <2>1, <2>2, ConcatProperties
  <2> HIDE DEF longer
  <2>4. Len(alerts') = IF Len(longer) > AlertLimit THEN AlertLimit ELSE Len(longer)
    BY <1>0, <2>1, <2>3, NewestProperties
  <2> QED
    BY <1>0, <2>3, <2>4
<1>2. ASSUME \A r \in Request : ~Add(r) PROVE alerts' = alerts
  BY <1>2 DEF Next, RecordStep, Arrive, BadRequest, StoreAppend, Compare, ReadLimit,
              RecordThreshold, Congestion, SweepBegins, Trim, SummaryBegins, SummarizeZone,
              SummaryReturns, vars, alertVars
<1> QED
  BY <1>0, <1>1, <1>2

LEMMA StepGrown ==
  ASSUME Inductive, GrownSinceBegun, [Next]_vars
  PROVE  GrownSinceBegun'
<1>1. CASE SummaryBegins
  <2>1. /\ begun' = [byZone |-> byZone, alerts |-> alerts]
        /\ UNCHANGED <<byZone, recorded, alerts>>
    BY <1>1 DEF SummaryBegins, storeVars, alertVars
  <2>2. \A z \in Zone : Len(byZone[z]) \in Nat /\ Len(alerts) \in Nat
    BY HistoryStep, AlertsGrow
  <2>3. \A z \in Zone : \A n \in DOMAIN byZone[z] :
          \E m \in DOMAIN recorded[z] : recorded[z][m] = byZone[z][n]
    BY HistoryIsRecorded
  <2>4. Len(alerts) <= Len(alerts) /\ \A z \in Zone : Len(byZone[z]) <= Len(byZone[z])
    <3>1. Len(alerts) \in Nat
      BY AlertsGrow
    <3>2. \A n \in Nat : n <= n
      OBVIOUS
    <3> QED
      BY <2>2, <3>1, <3>2
  <2> QED
    BY <2>1, <2>3, <2>4 DEF GrownSinceBegun
<1>2. CASE ~SummaryBegins
  <2>1. begun' = begun
    BY <1>2 DEF Next, RecordStep, Arrive, BadRequest, StoreAppend, Compare, ReadLimit,
                RecordThreshold, Congestion, Add, SweepBegins, Trim, SummarizeZone,
                SummaryReturns, vars, summaryVars
  <2>2. Len(begun.alerts) \in Nat /\ \A z \in Zone : Len(begun.byZone[z]) \in Nat
    BY LenProperties DEF Inductive, TypeOK
  <2>3. Len(begun.alerts) <= Len(alerts')
    BY <2>2, AlertsGrow DEF GrownSinceBegun
  <2>4. ASSUME NEW z \in Zone
        PROVE  /\ Len(begun.byZone[z]) <= Len(byZone'[z])
               /\ \A n \in DOMAIN begun.byZone[z] :
                    \E m \in DOMAIN recorded'[z] : recorded'[z][m] = begun.byZone[z][n]
    BY <2>2, HistoryStep DEF GrownSinceBegun
  <2> QED
    BY <2>1, <2>3, <2>4 DEF GrownSinceBegun
<1> QED
  BY <1>1, <1>2

(* A maximum once found stays right: the temperatures do not change, and   *)
(* nothing that was there when Summary began comes back.                   *)
LEMMA MaximumKept ==
  ASSUME Inductive, GrownSinceBegun, [Next]_vars, NEW z \in Zone, MaximumOf(z),
         maxTempC'[z] = maxTempC[z], begun' = begun
  PROVE  MaximumOf(z)'
<1>1. maxTempC'[z] \in Temps(recorded[z])'
  <2>1. PICK n \in DOMAIN recorded[z] : maxTempC[z] = sample[recorded[z][n]].temp
    BY DEF MaximumOf, Temps
  <2>2. n \in DOMAIN recorded'[z] /\ recorded'[z][n] = recorded[z][n]
    BY HistoryStep
  <2>3. sample'[recorded[z][n]] = sample[recorded[z][n]]
    BY RecordedIsStored, SamplesStay
  <2> QED
    BY <2>1, <2>2, <2>3 DEF Temps
<1>2. ASSUME NEW m \in DOMAIN begun.byZone[z], NEW n \in DOMAIN byZone'[z],
             begun.byZone[z][m] = byZone'[z][n]
      PROVE  sample'[byZone'[z][n]].temp <= maxTempC[z]
  <2>1. PICK r \in Request : r = byZone'[z][n] /\ Stored(r)
    BY <1>2, RecordedIsStored DEF GrownSinceBegun
  <2>2. PICK k \in DOMAIN byZone[z] : byZone[z][k] = byZone'[z][n]
    BY <2>1, HistoryStep
  <2>3. sample[byZone[z][k]].temp <= maxTempC[z]
    BY <1>2, <2>2 DEF MaximumOf
  <2> QED
    BY <2>1, <2>2, <2>3, SamplesStay
<1> QED
  BY <1>1, <1>2 DEF MaximumOf

(* MaxTemp finds one.                                                      *)
LEMMA MaximumFound ==
  ASSUME Inductive, NEW z \in Zone, byZone[z] # <<>>
  PROVE  /\ MaxTemp(byZone[z]) \in Int
         /\ MaxTemp(byZone[z]) \in Temps(recorded[z])
         /\ \A n \in DOMAIN byZone[z] : sample[byZone[z][n]].temp <= MaxTemp(byZone[z])
<1>1. Temps(byZone[z]) \in SUBSET Int /\ Temps(byZone[z]) \subseteq Temps(recorded[z])
  <2>1. ASSUME NEW n \in DOMAIN byZone[z]
        PROVE  /\ sample[byZone[z][n]].temp \in Int
               /\ sample[byZone[z][n]].temp \in Temps(recorded[z])
    <3>1. PICK m \in DOMAIN recorded[z] : recorded[z][m] = byZone[z][n]
      BY HistoryIsRecorded
    <3> QED
      BY <3>1, RecordedIsStored DEF Temps
  <2> QED
    BY <2>1 DEF Temps
<1>2. IsFiniteSet(Temps(byZone[z])) /\ Temps(byZone[z]) # {}
  BY TempsFinite DEF Inductive, TypeOK
<1>3. MaxTemp(byZone[z]) = Max(Temps(byZone[z]))
  BY DEF MaxTemp
<1>4. /\ Max(Temps(byZone[z])) \in Temps(byZone[z])
      /\ \A t \in Temps(byZone[z]) : t <= Max(Temps(byZone[z]))
  BY <1>1, <1>2, MaxOf
<1>5. \A n \in DOMAIN byZone[z] : sample[byZone[z][n]].temp \in Temps(byZone[z])
  BY DEF Temps
<1> QED
  BY <1>1, <1>3, <1>4, <1>5

(* The zones that Summary has counted are some of those of the store. *)
LEMMA SummarizedFinite ==
  ASSUME Inductive, SummarySoFar
  PROVE  /\ Summarized \in SUBSET Zone /\ IsFiniteSet(Summarized)
         /\ \A z \in Zone : begun.byZone[z] # <<>> => byZone[z] # <<>>
<1>1. ASSUME NEW z \in Zone, begun.byZone[z] # <<>> PROVE byZone[z] # <<>>
  <2>1. begun.byZone[z] \in Seq(Request) /\ byZone[z] \in Seq(Request)
    BY DEF Inductive, TypeOK
  <2>2. /\ Len(begun.byZone[z]) \in Nat /\ Len(begun.byZone[z]) # 0
        /\ Len(begun.byZone[z]) <= Len(byZone[z])
    BY <1>1, <2>1, LenProperties, EmptySeq DEF SummarySoFar, GrownSinceBegun
  <2> QED
    BY <2>2, EmptySeq
<1>2. Summarized \in SUBSET Zones
  BY <1>1 DEF SummarySoFar, Summarized, Zones
<1>3. IsFiniteSet(Zones)
  BY DEF Inductive
<1>4. Summarized \in SUBSET Zone
  BY DEF Summarized
<1> QED
  BY <1>1, <1>2, <1>3, <1>4, FS_Subset

(* The steps of Summary, and those of the others. *)
LEMMA SummaryBeginsStep ==
  ASSUME Inductive, SummarySoFar, SummaryBegins
  PROVE  SummarySoFar'
<1>0. [Next]_vars
  BY DEF Next
<1>1. /\ summary.pc = "idle" /\ summary \in SummaryType /\ Zones \in SUBSET Zone
      /\ summary' = [summary EXCEPT !.pc = "zones", !.todo = Zones]
      /\ begun' = [byZone |-> byZone, alerts |-> alerts]
      /\ UNCHANGED <<byZone, recorded, alerts, maxTempC>>
  BY DEF SummaryBegins, Inductive, TypeOK, Zones, storeVars, alertVars
<1>2. /\ summary'.pc = "zones" /\ summary'.todo = Zones /\ summary'.zones = summary.zones
      /\ summary'.readings = summary.readings
  BY <1>1 DEF SummaryType
<1>3. Summarized = {} /\ Summarized' = {}
  BY <1>1 DEF SummarySoFar, Summarized
<1>4. \A history : Cardinality(Entries(history, {})) = 0
  BY FS_EmptySet DEF Entries
<1>5. GrownSinceBegun'
  BY <1>0, StepGrown DEF SummarySoFar
<1>6. summary.readings = 0 /\ summary.zones = Cardinality({})
  <2>1. summary.readings \in Nat
    BY <1>1 DEF SummaryType
  <2> QED
    BY <1>3, <1>4, <2>1 DEF SummarySoFar
<1>7. /\ Cardinality(Entries(begun'.byZone, Summarized')) <= summary'.readings
      /\ summary'.readings <= Cardinality(Entries(byZone', Summarized'))
  BY <1>2, <1>3, <1>4, <1>6
<1>8. /\ Summarized' = {z \in Zone : begun'.byZone[z] # <<>>} \ summary'.todo
      /\ \A z \in summary'.todo : begun'.byZone[z] # <<>>
  BY <1>1, <1>2, <1>3 DEF Zones
<1> QED
  BY <1>2, <1>3, <1>5, <1>6, <1>7, <1>8 DEF SummarySoFar

LEMMA SummarizeZoneStep ==
  ASSUME Inductive, SummarySoFar, NEW z \in Zone, SummarizeZone(z)
  PROVE  SummarySoFar'
<1>0. [Next]_vars
  BY DEF Next
<1>1. /\ summary.pc = "zones" /\ summary.todo # {} /\ z = Min(summary.todo)
      /\ summary' = [summary EXCEPT !.todo = summary.todo \ {z}, !.zones = summary.zones + 1,
                                    !.readings = summary.readings + Len(byZone[z])]
      /\ maxTempC' = [maxTempC EXCEPT ![z] = MaxTemp(byZone[z])]
      /\ UNCHANGED <<byZone, recorded, alerts, begun>>
  BY DEF SummarizeZone, RecentReadings, storeVars, alertVars
<1>2. /\ summary \in SummaryType /\ DOMAIN maxTempC = Zone /\ byZone \in [Zone -> Seq(Request)]
      /\ begun.byZone \in [Zone -> Seq(Request)]
      /\ \A y \in Zone : Len(byZone[y]) <= Capacity
      /\ summary.todo \in SUBSET Nat /\ Capacity \in Nat
  BY ReadingsAssumption DEF Inductive, TypeOK, SummaryType, ReadingsAssumption
<1>3. /\ summary'.pc = "zones" /\ summary'.todo = summary.todo \ {z}
      /\ summary'.zones = summary.zones + 1
      /\ summary'.readings = summary.readings + Len(byZone[z])
  BY <1>1, <1>2 DEF SummaryType
<1>4. z \in summary.todo
  BY <1>1, <1>2, MinOf
<1>5. /\ begun.byZone[z] # <<>> /\ z \notin Summarized
      /\ Summarized = {y \in Zone : begun.byZone[y] # <<>>} \ summary.todo
  BY <1>1, <1>4 DEF SummarySoFar
<1>6. /\ Summarized \in SUBSET Zone /\ IsFiniteSet(Summarized) /\ byZone[z] # <<>>
  BY <1>5, SummarizedFinite
<1>7. /\ MaxTemp(byZone[z]) \in Int
      /\ MaxTemp(byZone[z]) \in Temps(recorded[z])
      /\ \A n \in DOMAIN byZone[z] : sample[byZone[z][n]].temp <= MaxTemp(byZone[z])
  BY <1>6, MaximumFound
<1>8. maxTempC'[z] = MaxTemp(byZone[z]) /\ \A y \in Zone : y # z => maxTempC'[y] = maxTempC[y]
  BY <1>1, <1>2
<1>9. Summarized' = Summarized \cup {z}
  <2>1. MaxTemp(byZone[z]) # NoLimit
    BY <1>7, ReadingsAssumption DEF ReadingsAssumption
  <2> QED
    BY <1>8, <2>1 DEF Summarized
<1>10. GrownSinceBegun /\ GrownSinceBegun'
  BY <1>0, StepGrown DEF SummarySoFar
<1>11. summary'.zones = Cardinality(Summarized')
  <2>1. Cardinality(Summarized') = Cardinality(Summarized) + 1
    BY <1>5, <1>6, <1>9, FS_AddElement
  <2> QED
    BY <1>3, <2>1 DEF SummarySoFar
<1>12. /\ Cardinality(Entries(begun.byZone, Summarized \cup {z})) <= summary'.readings
       /\ summary'.readings <= Cardinality(Entries(byZone, Summarized \cup {z}))
  <2>1. Len(begun.byZone[z]) \in Nat /\ Len(byZone[z]) \in Nat
    BY <1>2, LenProperties
  <2>2. Len(begun.byZone[z]) <= Len(byZone[z])
    BY <1>10 DEF GrownSinceBegun
  <2>3. Len(begun.byZone[z]) <= Capacity /\ Len(byZone[z]) <= Capacity
    BY <1>2, <2>1, <2>2
  <2>4. /\ Cardinality(Entries(begun.byZone, Summarized \cup {z}))
             = Cardinality(Entries(begun.byZone, Summarized)) + Len(begun.byZone[z])
        /\ Cardinality(Entries(byZone, Summarized \cup {z}))
             = Cardinality(Entries(byZone, Summarized)) + Len(byZone[z])
    BY <1>2, <1>5, <1>6, <2>3, EntriesAdd
  <2>5. PICK low \in Nat, high \in Nat, read \in Nat :
          /\ low = Cardinality(Entries(begun.byZone, Summarized))
          /\ high = Cardinality(Entries(byZone, Summarized)) /\ read = summary.readings
    BY <1>2, <1>6, EntriesFinite DEF SummaryType
  <2>6. low <= read /\ read <= high
    BY <2>5 DEF SummarySoFar
  <2>7. PICK lb \in Nat, l \in Nat : lb = Len(begun.byZone[z]) /\ l = Len(byZone[z])
    BY <2>1
  <2>8. low + lb <= read + l /\ read + l <= high + l
    BY <2>2, <2>6, <2>7
  <2> QED
    BY <1>3, <2>4, <2>5, <2>7, <2>8
<1>13. \A y \in Summarized' : MaximumOf(y)'
  <2>1. MaximumOf(z)'
    <3>1. sample' = sample
      BY DEF SummarizeZone, RecentReadings, handlerVars
    <3> QED
      BY <1>1, <1>7, <1>8, <3>1 DEF MaximumOf, Temps
  <2>2. ASSUME NEW y \in Summarized PROVE MaximumOf(y)'
    <3>1. y \in Zone /\ MaximumOf(y) /\ y # z
      BY <1>5, <1>6 DEF SummarySoFar
    <3> QED
      BY <1>0, <1>1, <1>8, <1>10, <3>1, MaximumKept
  <2>3. \A y \in Summarized' : y \in Summarized \/ y = z
    BY <1>9
  <2> QED
    BY <2>1, <2>2, <2>3
<1>14. /\ Summarized' = {y \in Zone : begun'.byZone[y] # <<>>} \ summary'.todo
       /\ \A y \in summary'.todo : begun'.byZone[y] # <<>>
  BY <1>1, <1>3, <1>4, <1>5, <1>9 DEF SummarySoFar
<1>15. /\ Cardinality(Entries(begun'.byZone, Summarized')) <= summary'.readings
       /\ summary'.readings <= Cardinality(Entries(byZone', Summarized'))
  BY <1>1, <1>9, <1>12
<1> QED
  BY <1>3, <1>10, <1>11, <1>13, <1>14, <1>15 DEF SummarySoFar

LEMMA SummaryReturnsStep ==
  ASSUME Inductive, SummarySoFar, SummaryReturns
  PROVE  SummarySoFar'
<1>0. [Next]_vars
  BY DEF Next
<1>1. /\ summary.pc = "zones" /\ summary.todo = {} /\ summary \in SummaryType
      /\ summary' = [summary EXCEPT !.pc = "done", !.alerts = Len(alerts)]
      /\ UNCHANGED <<byZone, recorded, alerts, begun, maxTempC, sample>>
  BY DEF SummaryReturns, RecentAlerts, Inductive, TypeOK, storeVars, alertVars, handlerVars
<1>2. /\ summary'.pc = "done" /\ summary'.todo = {} /\ summary'.zones = summary.zones
      /\ summary'.readings = summary.readings /\ summary'.alerts = Len(alerts)
  BY <1>1 DEF SummaryType
<1>3. GrownSinceBegun'
  BY <1>0, StepGrown DEF SummarySoFar
<1>4. Summarized' = Summarized /\ begun' = begun /\ byZone' = byZone
  BY <1>1 DEF Summarized
<1>5. \A z \in Summarized : MaximumOf(z)'
  BY <1>1 DEF SummarySoFar, MaximumOf, Temps
<1>6. Len(begun'.alerts) <= summary'.alerts /\ summary'.alerts <= Len(alerts')
  BY <1>0, <1>1, <1>2, AlertsGrow DEF SummarySoFar, GrownSinceBegun
<1> QED
  BY <1>1, <1>2, <1>3, <1>4, <1>5, <1>6 DEF SummarySoFar

LEMMA OthersStep ==
  ASSUME Inductive, SummarySoFar, [Next]_vars, UNCHANGED summaryVars
  PROVE  SummarySoFar'
<1>0. /\ summary' = summary /\ maxTempC' = maxTempC /\ begun' = begun
  BY DEF summaryVars
<1>1. Summarized' = Summarized /\ GrownSinceBegun /\ GrownSinceBegun'
  BY <1>0, StepGrown DEF SummarySoFar, Summarized
<1>2. Summarized \in SUBSET Zone /\ IsFiniteSet(Summarized)
  BY SummarizedFinite
<1>3. summary.readings <= Cardinality(Entries(byZone', Summarized))
  <2>1. byZone \in [Zone -> Seq(Request)] /\ byZone' \in [Zone -> Seq(Request)]
    <3>1. TypeOK /\ TypeOK'
      BY StepTypeOK DEF Inductive
    <3> QED
      BY <3>1 DEF TypeOK
  <2>2. \A z \in Summarized : Len(byZone[z]) <= Len(byZone'[z])
    BY <1>2, HistoryStep
  <2>3. Cardinality(Entries(byZone, Summarized)) <= Cardinality(Entries(byZone', Summarized))
    BY <1>2, <2>1, <2>2, EntriesGrow
  <2>4. PICK read \in Nat, old \in Nat, new \in Nat :
          /\ read = summary.readings /\ old = Cardinality(Entries(byZone, Summarized))
          /\ new = Cardinality(Entries(byZone', Summarized))
    BY <1>2, EntriesFinite DEF Inductive, TypeOK, SummaryType
  <2>5. read <= old /\ old <= new
    BY <2>3, <2>4 DEF SummarySoFar
  <2> QED
    BY <2>4, <2>5
<1>4. \A z \in Summarized : MaximumOf(z)'
  BY <1>0, <1>1, <1>2, MaximumKept DEF SummarySoFar
<1>5. summary.pc = "done" => summary.alerts <= Len(alerts')
  <2>1. summary.alerts \in Nat /\ Len(alerts) \in Nat /\ Len(alerts') \in Nat
        /\ Len(alerts) <= Len(alerts')
    BY AlertsGrow DEF Inductive, TypeOK, SummaryType
  <2> QED
    BY <2>1 DEF SummarySoFar
<1>6. Cardinality(Entries(begun'.byZone, Summarized')) <= summary'.readings
      /\ summary'.readings <= Cardinality(Entries(byZone', Summarized'))
  BY <1>0, <1>1, <1>3 DEF SummarySoFar
<1> QED
  BY <1>0, <1>1, <1>4, <1>5, <1>6 DEF SummarySoFar

LEMMA StepSummary ==
  ASSUME Inductive, SummarySoFar, [Next]_vars
  PROVE  SummarySoFar'
<1>1. ASSUME ~SummaryBegins, \A z \in Zone : ~SummarizeZone(z), ~SummaryReturns
      PROVE  UNCHANGED summaryVars
  BY <1>1 DEF Next, RecordStep, Arrive, BadRequest, StoreAppend, Compare, ReadLimit,
              RecordThreshold, Congestion, Add, SweepBegins, Trim, vars
<1> QED
  BY <1>1, SummaryBeginsStep, SummarizeZoneStep, SummaryReturnsStep, OthersStep

LEMMA InitSummary == Init => SummarySoFar
<1> SUFFICES ASSUME Init PROVE SummarySoFar
    OBVIOUS
<1>1. Summarized = {}
  BY DEF Init, Summarized
<1>2. /\ summary.pc = "idle" /\ summary.todo = {} /\ summary.zones = 0 /\ summary.readings = 0
      /\ begun.byZone = byZone /\ begun.alerts = alerts
      /\ alerts = <<>> /\ \A z \in Zone : byZone[z] = <<>>
  BY DEF Init
<1>3. Entries(begun.byZone, {}) = {} /\ Entries(byZone, {}) = {} /\ Cardinality({}) = 0
  BY FS_EmptySet DEF Entries
<1>4. GrownSinceBegun
  BY <1>2, EmptySeq DEF GrownSinceBegun
<1> QED
  BY <1>1, <1>2, <1>3, <1>4 DEF SummarySoFar

(* When it has counted all the zones there were, what it has so far is     *)
(* what it has to return.                                                  *)
LEMMA SummaryComplete == Inductive /\ SummarySoFar => SummaryIsBracketed
<1> SUFFICES ASSUME Inductive, SummarySoFar, summary.pc = "done" PROVE SummaryIsBracketed
    BY DEF SummaryIsBracketed
<1>1. Summarized = {z \in Zone : begun.byZone[z] # <<>>}
  BY DEF SummarySoFar
<1>2. Entries(begun.byZone, Zone) = Entries(begun.byZone, Summarized)
  BY <1>1 DEF Entries
<1>3. /\ IsFiniteSet(Entries(byZone, Zone)) /\ Cardinality(Entries(byZone, Zone)) \in Nat
  <2>1. Entries(byZone, Zone) = Entries(byZone, Zones)
    BY DEF Entries, Zones
  <2> QED
    BY <2>1, EntriesFinite DEF Inductive
<1>4. Cardinality(Entries(byZone, Summarized)) <= Cardinality(Entries(byZone, Zone))
  <2>1. Entries(byZone, Summarized) \in SUBSET Entries(byZone, Zone)
    BY <1>1 DEF Entries
  <2> QED
    BY <1>3, <2>1, FS_Subset
<1>5. Total(begun.byZone) <= summary.readings
  BY <1>2 DEF Total, SummarySoFar
<1>6. summary.readings <= Total(byZone)
  <2>1. PICK read \in Nat, own \in Nat, all \in Nat :
          /\ read = summary.readings /\ own = Cardinality(Entries(byZone, Summarized))
          /\ all = Cardinality(Entries(byZone, Zone))
    BY <1>3, SummarizedFinite, EntriesFinite DEF Inductive, TypeOK, SummaryType
  <2>2. read <= own /\ own <= all
    BY <1>4, <2>1 DEF SummarySoFar
  <2> QED
    BY <2>1, <2>2 DEF Total
<1> QED
  BY <1>1, <1>5, <1>6 DEF SummaryIsBracketed, SummarySoFar

-----------------------------------------------------------------------------
(* The invariant holds in every reachable state (readings). *)
THEOREM InductiveInvariant == Spec => []Inductive
<1>1. Init => Inductive
  BY InitInductive
<1>2. Inductive /\ [Next]_vars => Inductive'
  BY StepTypeOK, StepPins, StepHistory, StepZones DEF Inductive
<1> QED
  BY <1>1, <1>2, PTL DEF Spec

(* Histories and the log of alerts stay within their capacities.           *)
THEOREM TypeCorrect == Spec => []TypeOK
<1>1. Inductive => TypeOK
  BY DEF Inductive
<1> QED
  BY <1>1, InductiveInvariant, PTL

(* Every request is answered with the alerts that its reading implies,     *)
(* whatever other requests have pinned.                                    *)
THEOREM AnswersAreTrue == Spec => []AnswersAreRight
<1>1. Inductive => AnswersAreRight
  BY DEF Inductive
<1> QED
  BY <1>1, InductiveInvariant, PTL

(* A zone's history is the end of what was recorded for it.                *)
THEOREM HistoriesAreKept == Spec => []HistoryIsNewest
<1>1. Inductive => HistoryIsNewest
  BY DEF Inductive
<1> QED
  BY <1>1, InductiveInvariant, PTL

(* No alert is lost, repeated or torn apart by the alerts of another       *)
(* request, and the log is their end, whatever its limit (Record, Add).    *)
THEOREM AlertsAreKept == Spec => []NoAlertLost
<1>1. Init => NoAlertLost
  <2> SUFFICES ASSUME Init PROVE NoAlertLost
    OBVIOUS
  <2>1. alerts = <<>> /\ raised = <<>> /\ Len(<<>>) = 0 /\ DOMAIN raised = {}
    BY EmptySeq DEF Init
  <2>2. AlertLimit \in Nat /\ Newest(raised, AlertLimit) = <<>>
    BY <2>1, ReadingsAssumption DEF Newest, ReadingsAssumption
  <2> QED
    BY <2>1, <2>2 DEF Init, NoAlertLost, RaisedBy
<1>2. Inductive /\ NoAlertLost /\ [Next]_vars => NoAlertLost'
  BY StepAlerts
<1> QED
  BY <1>1, <1>2, InductiveInvariant, PTL DEF Spec

(* However readings, alerts and the sweep come in between, what Summary    *)
(* counts lies between what there was when it began and what there is now, *)
(* and no maximum misses a reading retained all the time (Summary).        *)
THEOREM SummaryIsBetween == Spec => []SummaryIsBracketed
<1>1. Inductive /\ SummarySoFar /\ [Next]_vars => SummarySoFar'
  BY StepSummary
<1>2. Spec => []SummarySoFar
  BY <1>1, InitSummary, InductiveInvariant, PTL DEF Spec
<1> QED
  BY <1>2, SummaryComplete, InductiveInvariant, PTL

=============================================================================
