-------------------------- MODULE RateLimiterProofs --------------------------
(***************************************************************************)
(* For every limit, window and set of API keys: the rate limiter's types,  *)
(* that no window in the past holds more requests than the limit, and that *)
(* a request is refused only when its window holds that many.              *)
(***************************************************************************)
EXTENDS RateLimiter, FiniteSetTheorems, TLAPS

\* What a check pops: the deque loses its head, and only stale times.
LEMMA RestOfDeque ==
    ASSUME TypeOK, NEW b \in Buckets, NEW n \in 0 .. Len(windows[b])
    PROVE  /\ Rest(b, n) \in Seq(Times)
           /\ Len(Rest(b, n)) = Len(windows[b]) - n
           /\ \A i \in 1 .. Len(windows[b]) - n : Rest(b, n)[i] = windows[b][n + i]
  <1>1. windows[b] \in Seq(Times)
    BY DEF TypeOK
  <1> QED
    BY <1>1 DEF Rest

LEMMA TypesStay == TypeOK /\ [Next]_vars => TypeOK'
  <1> SUFFICES ASSUME TypeOK, [Next]_vars PROVE TypeOK'
    OBVIOUS
  <1> USE SettingsAreIntegers
  <1>1. Times \subseteq Times' /\ clock' \in Nat /\ clock \in Times'
    BY DEF TypeOK, Next, Admit, Refuse, Tick, vars, Times
  <1>2. ASSUME NEW b \in Buckets, Admit(b)
        PROVE  TypeOK'
    <2>1. PICK n \in 0 .. Len(windows[b]) :
            /\ windows' = [windows EXCEPT ![b] = Append(Rest(b, n), clock)]
            /\ admitted' = [admitted EXCEPT ![b] = Append(@, clock)]
            /\ UNCHANGED <<refusedAt, clock>>
      BY <1>2 DEF Admit
    <2>2. /\ Append(Rest(b, n), clock) \in Seq(Times)
          /\ Append(admitted[b], clock) \in Seq(Times)
      BY RestOfDeque DEF TypeOK, Times
    <2> QED
      BY <2>1, <2>2 DEF TypeOK, Times
  <1>3. ASSUME NEW b \in Buckets, Refuse(b)
        PROVE  TypeOK'
    <2>1. PICK n \in 0 .. Len(windows[b]) :
            /\ windows' = [windows EXCEPT ![b] = Rest(b, n)]
            /\ refusedAt' = [refusedAt EXCEPT ![b] = clock]
            /\ UNCHANGED <<admitted, clock>>
      BY <1>3 DEF Refuse
    <2>2. Rest(b, n) \in Seq(Times) /\ clock \in Times
      BY RestOfDeque DEF TypeOK, Times
    <2> QED
      BY <2>1, <2>2 DEF TypeOK, Times
  <1>4. CASE Tick
    <2>1. \A s \in Seq(Times) : s \in Seq(Times')
      BY <1>1
    <2> QED
      BY <1>1, <1>4, <2>1 DEF Tick, TypeOK
  <1>5. CASE UNCHANGED vars
    BY <1>5 DEF vars, TypeOK, Times
  <1> QED
    BY <1>2, <1>3, <1>4, <1>5 DEF Next

\* The limiter's variables keep their types.
THEOREM LimiterTypes == Spec => []TypeOK
  <1>1. Init => TypeOK
    BY DEF Init, TypeOK, Times
  <1> QED
    BY <1>1, TypesStay, PTL DEF Spec

\* What appending a time does to a sequence.
LEMMA Appended ==
    ASSUME NEW S, NEW s \in Seq(S), NEW x \in S, NEW n \in Nat, Len(s) = n,
           NEW t, t = Append(s, x)
    PROVE  /\ Len(t) = n + 1
           /\ t[n + 1] = x
           /\ \A i \in 1 .. n : t[i] = s[i]
  OBVIOUS

\* The history of a bucket, once n times are popped: f stale times, and then the
\* len times that are left in the deque.
Split(b, n, f, len) ==
    /\ len = Len(windows[b]) - n
    /\ Len(admitted[b]) = f + len
    /\ Len(Rest(b, n)) = len
    /\ \A i \in 1 .. len : Rest(b, n)[i] = admitted[b][f + i]
    /\ \A i \in 1 .. f : Stale(admitted[b][i])

\* A check always splits the history like that.
LEMMA Popping ==
    ASSUME TypeOK, DequesAreRecent,
           NEW b \in Buckets, NEW n \in 0 .. Len(windows[b]), Pops(b, n)
    PROVE  \E f \in Nat, len \in Nat : Split(b, n, f, len)
  <1>1. windows[b] \in Seq(Times) /\ admitted[b] \in Seq(Times)
    BY DEF TypeOK
  <1>2. PICK g \in Nat : g = Forgotten(b)
    <2>1. Forgotten(b) >= 0
      BY DEF DequesAreRecent
    <2>2. Forgotten(b) \in Int
      BY <1>1 DEF Forgotten
    <2> QED
      BY <2>1, <2>2
  <1>3. PICK len \in Nat : len = Len(windows[b]) - n
    <2>1. Len(windows[b]) - n \in Nat
      BY <1>1
    <2> QED
      BY <2>1
  <1>4. ASSUME NEW i \in 1 .. len
        PROVE  Rest(b, n)[i] = admitted[b][(g + n) + i]
    <2>1. n + i \in 1 .. Len(windows[b]) /\ g + (n + i) = (g + n) + i
      BY <1>1, <1>2, <1>3
    <2>2. windows[b][n + i] = admitted[b][g + (n + i)]
      BY <1>2, <2>1 DEF DequesAreRecent
    <2> QED
      BY <1>3, <2>1, <2>2, RestOfDeque
  <1>5. ASSUME NEW i \in 1 .. g + n
        PROVE  Stale(admitted[b][i])
    <2>1. CASE i \in 1 .. g
      BY <1>2, <2>1 DEF DequesAreRecent
    <2>2. CASE i \notin 1 .. g
      <3>1. PICK j \in 1 .. n : i = g + j
        <4>1. i - g \in 1 .. n /\ i = g + (i - g)
          BY <1>2, <2>2
        <4> QED
          BY <4>1
      <3>2. Stale(windows[b][j]) /\ j \in 1 .. Len(windows[b])
        BY <1>1 DEF Pops
      <3>3. windows[b][j] = admitted[b][g + j]
        BY <1>2, <3>2 DEF DequesAreRecent
      <3> QED
        BY <3>1, <3>2, <3>3
    <2> QED
      BY <2>1, <2>2
  <1>6. g + n \in Nat /\ Len(admitted[b]) = (g + n) + len /\ Len(Rest(b, n)) = len
    BY <1>1, <1>2, <1>3, RestOfDeque DEF Forgotten
  <1>7. Split(b, n, g + n, len)
    BY <1>3, <1>4, <1>5, <1>6 DEF Split
  <1> QED
    BY <1>3, <1>6, <1>7

\* At time now, deque d is what is left of history h.
LeftOf(d, h, now) ==
    /\ Len(h) - Len(d) >= 0
    /\ \A i \in 1 .. Len(d) : d[i] = h[(Len(h) - Len(d)) + i]
    /\ \A i \in 1 .. Len(h) - Len(d) : now - h[i] > Window

LEMMA LeftBySplit ==
    ASSUME NEW d, NEW h, NEW now, NEW f \in Nat, NEW len \in Nat,
           Len(d) = len, Len(h) = f + len,
           \A i \in 1 .. len : d[i] = h[f + i],
           \A i \in 1 .. f : now - h[i] > Window
    PROVE  LeftOf(d, h, now)
  <1>1. Len(h) - Len(d) = f
    OBVIOUS
  <1> QED
    BY <1>1 DEF LeftOf

LEMMA RecentMeansLeft ==
    DequesAreRecent <=> \A b \in Buckets : LeftOf(windows[b], admitted[b], clock)
  BY DEF DequesAreRecent, Forgotten, Stale, LeftOf

LEMMA DequesStayRecent ==
    TypeOK /\ DequesAreRecent /\ [Next]_vars => DequesAreRecent'
  <1> SUFFICES ASSUME TypeOK, DequesAreRecent, [Next]_vars PROVE DequesAreRecent'
    OBVIOUS
  <1> USE SettingsAreIntegers
  <1>0. \A b \in Buckets : windows[b] \in Seq(Times) /\ admitted[b] \in Seq(Times)
    BY DEF TypeOK
  <1>2. ASSUME NEW b \in Buckets, Admit(b)
        PROVE  DequesAreRecent'
    <2>1. PICK n \in 0 .. Len(windows[b]) :
            /\ Pops(b, n)
            /\ windows' = [windows EXCEPT ![b] = Append(Rest(b, n), clock)]
            /\ admitted' = [admitted EXCEPT ![b] = Append(@, clock)]
            /\ clock' = clock
      BY <1>2 DEF Admit
    <2>2. PICK f \in Nat, len \in Nat : Split(b, n, f, len)
      BY <2>1, Popping
    <2>3. Rest(b, n) \in Seq(Times) /\ admitted[b] \in Seq(Times) /\ clock \in Times
      BY <1>0, RestOfDeque DEF TypeOK, Times
    <2>4. /\ windows'[b] = Append(Rest(b, n), clock)
          /\ admitted'[b] = Append(admitted[b], clock)
          /\ \A c \in Buckets : c # b => windows'[c] = windows[c] /\ admitted'[c] = admitted[c]
      BY <2>1 DEF TypeOK
    <2>5. /\ Len(Rest(b, n)) = len /\ Len(admitted[b]) = f + len
          /\ \A i \in 1 .. len : Rest(b, n)[i] = admitted[b][f + i]
          /\ \A i \in 1 .. f : Stale(admitted[b][i])
      BY <2>2 DEF Split
    <2>6. /\ Len(windows'[b]) = len + 1 /\ windows'[b][len + 1] = clock
          /\ \A i \in 1 .. len : windows'[b][i] = Rest(b, n)[i]
      <3>1. /\ Rest(b, n) \in Seq(Times) /\ clock \in Times /\ Len(Rest(b, n)) = len
            /\ windows'[b] = Append(Rest(b, n), clock)
        BY <2>3, <2>4, <2>5
      <3> QED
        BY <3>1, Appended
    <2>7. /\ Len(admitted'[b]) = f + len + 1 /\ admitted'[b][f + len + 1] = clock
          /\ \A i \in 1 .. f + len : admitted'[b][i] = admitted[b][i]
      <3>1. /\ admitted[b] \in Seq(Times) /\ clock \in Times /\ Len(admitted[b]) = f + len
            /\ admitted'[b] = Append(admitted[b], clock) /\ f + len \in Nat
        BY <2>3, <2>4, <2>5
      <3> QED
        BY <3>1, Appended
    <2>8. ASSUME NEW i \in 1 .. len + 1
          PROVE  windows'[b][i] = admitted'[b][f + i]
      <3>1. CASE i = len + 1
        BY <2>6, <2>7, <3>1
      <3>2. CASE i # len + 1
        <4>1. i \in 1 .. len /\ f + i \in 1 .. f + len
          BY <3>2
        <4> QED
          BY <2>5, <2>6, <2>7, <4>1
      <3> QED
        BY <3>1, <3>2
    <2>9. ASSUME NEW i \in 1 .. f
          PROVE  clock' - admitted'[b][i] > Window
      <3>1. admitted'[b][i] = admitted[b][i]
        BY <2>7
      <3> QED
        BY <2>1, <2>5, <3>1 DEF Stale
    <2>10. LeftOf(windows'[b], admitted'[b], clock')
      <3>1. len + 1 \in Nat /\ Len(admitted'[b]) = f + (len + 1) /\ Len(windows'[b]) = len + 1
        BY <2>6, <2>7
      <3>2. \A i \in 1 .. len + 1 : windows'[b][i] = admitted'[b][f + i]
        BY <2>8
      <3>3. \A i \in 1 .. f : clock' - admitted'[b][i] > Window
        BY <2>9
      <3> QED
        BY <3>1, <3>2, <3>3, LeftBySplit
    <2>11. \A c \in Buckets : c # b => LeftOf(windows'[c], admitted'[c], clock')
      BY <2>1, <2>4, RecentMeansLeft
    <2>12. \A c \in Buckets : LeftOf(windows'[c], admitted'[c], clock')
      BY <2>10, <2>11
    <2> QED
      BY <2>12 DEF DequesAreRecent, Forgotten, Stale, LeftOf
  <1>3. ASSUME NEW b \in Buckets, Refuse(b)
        PROVE  DequesAreRecent'
    <2>1. PICK n \in 0 .. Len(windows[b]) :
            /\ Pops(b, n)
            /\ windows' = [windows EXCEPT ![b] = Rest(b, n)]
            /\ UNCHANGED <<admitted, clock>>
      BY <1>3 DEF Refuse
    <2>2. PICK f \in Nat, len \in Nat : Split(b, n, f, len)
      BY <2>1, Popping
    <2>3. /\ windows'[b] = Rest(b, n)
          /\ \A c \in Buckets : c # b => windows'[c] = windows[c]
      BY <2>1 DEF TypeOK
    <2>4. LeftOf(windows'[b], admitted[b], clock)
      <3>1. /\ Len(admitted[b]) = f + len /\ Len(windows'[b]) = len
            /\ \A i \in 1 .. len : windows'[b][i] = admitted[b][f + i]
            /\ \A i \in 1 .. f : clock - admitted[b][i] > Window
        BY <2>2, <2>3 DEF Split, Stale
      <3> QED
        BY <3>1, LeftBySplit
    <2>5. \A c \in Buckets : c # b => LeftOf(windows'[c], admitted[c], clock)
      BY <2>3, RecentMeansLeft
    <2>6. \A c \in Buckets : LeftOf(windows'[c], admitted'[c], clock')
      BY <2>1, <2>4, <2>5
    <2> QED
      BY <2>6 DEF DequesAreRecent, Forgotten, Stale, LeftOf
  <1>4. CASE Tick
    <2>1. clock' = clock + 1 /\ clock \in Int /\ UNCHANGED <<windows, admitted>>
      BY <1>4 DEF Tick, TypeOK
    <2>2. ASSUME NEW b \in Buckets, NEW i \in 1 .. Forgotten(b)
          PROVE  clock' - admitted[b][i] > Window
      <3>1. i \in 1 .. Len(admitted[b])
        <4>1. Len(admitted[b]) \in Nat /\ Len(windows[b]) \in Nat
          BY <1>0
        <4> QED
          BY <4>1 DEF Forgotten
      <3>2. admitted[b][i] \in Int
        BY <1>0, <3>1 DEF Times, TypeOK
      <3>3. clock - admitted[b][i] > Window
        BY DEF DequesAreRecent, Stale
      <3> QED
        BY <2>1, <3>2, <3>3
    <2>3. \A b \in Buckets : \A i \in 1 .. Forgotten(b) : clock' - admitted[b][i] > Window
      BY <2>2
    <2> QED
      BY <2>1, <2>3 DEF DequesAreRecent, Forgotten, Stale
  <1>5. CASE UNCHANGED vars
    BY <1>5 DEF vars, DequesAreRecent, Forgotten, Stale
  <1> QED
    BY <1>2, <1>3, <1>4, <1>5 DEF Next

\* A deque is the end of its bucket's history, and the rest is stale.
THEOREM DequesAreEnough == Spec => []DequesAreRecent
  <1>1. Init => DequesAreRecent
    BY DEF Init, DequesAreRecent, Forgotten
  <1> QED
    BY <1>1, DequesStayRecent, LimiterTypes, PTL DEF Spec

LEMMA AdmittedStaysSpread ==
    TypeOK /\ DequesAreRecent /\ WindowRespected /\ [Next]_vars => WindowRespected'
  <1> SUFFICES ASSUME TypeOK, DequesAreRecent, WindowRespected, [Next]_vars
               PROVE  WindowRespected'
    OBVIOUS
  <1> USE SettingsAreIntegers
  <1>1. ASSUME NEW b \in Buckets, Admit(b)
        PROVE  WindowRespected'
    <2>1. PICK n \in 0 .. Len(windows[b]) :
            /\ Pops(b, n)
            /\ Len(windows[b]) - n < Limit
            /\ admitted' = [admitted EXCEPT ![b] = Append(@, clock)]
      BY <1>1 DEF Admit
    <2>2. PICK f \in Nat, len \in Nat : Split(b, n, f, len)
      BY <2>1, Popping
    <2>3. admitted[b] \in Seq(Times) /\ clock \in Times
      BY DEF TypeOK, Times
    <2>4. /\ admitted'[b] = Append(admitted[b], clock)
          /\ \A c \in Buckets : c # b => admitted'[c] = admitted[c]
      BY <2>1 DEF TypeOK
    <2>5. /\ Len(admitted'[b]) = f + len + 1 /\ admitted'[b][f + len + 1] = clock
          /\ \A i \in 1 .. f + len : admitted'[b][i] = admitted[b][i]
      <3>1. /\ admitted[b] \in Seq(Times) /\ clock \in Times /\ Len(admitted[b]) = f + len
            /\ admitted'[b] = Append(admitted[b], clock) /\ f + len \in Nat
        BY <2>2, <2>3, <2>4 DEF Split
      <3> QED
        BY <3>1, Appended
    <2>6. ASSUME NEW i \in 1 .. f + len + 1, NEW j \in 1 .. f + len + 1, j - i >= Limit
          PROVE  admitted'[b][j] - admitted'[b][i] > Window
      <3>1. CASE j = f + len + 1
        <4>1. i \in 1 .. f
          BY <2>1, <2>2, <2>6, <3>1 DEF Split
        <4>2. clock - admitted[b][i] > Window
          BY <2>2, <4>1 DEF Split, Stale
        <4>3. admitted'[b][i] = admitted[b][i]
          BY <2>5, <4>1
        <4> QED
          BY <2>5, <3>1, <4>2, <4>3
      <3>2. CASE j # f + len + 1
        <4>1. Limit > 0
          BY <2>1, <2>2 DEF Split
        <4>2. i \in 1 .. f + len /\ j \in 1 .. f + len
          BY <2>6, <3>2, <4>1
        <4> QED
          BY <2>2, <2>5, <2>6, <4>2 DEF WindowRespected, Split
      <3> QED
        BY <3>1, <3>2
    <2> QED
      BY <2>4, <2>5, <2>6 DEF WindowRespected
  <1>2. CASE UNCHANGED admitted
    BY <1>2 DEF WindowRespected
  <1> QED
    BY <1>1, <1>2 DEF Next, Refuse, Tick, vars

\* Whatever requests come when, no window of the past holds more than the limit.
THEOREM LimitIsKept == Spec => []WindowRespected
  <1>1. Init => WindowRespected
    BY DEF Init, WindowRespected
  <1> QED
    BY <1>1, AdmittedStaysSpread, LimiterTypes, DequesAreEnough, PTL DEF Spec

\* The history of a bucket is in order, so a deque is stale up to some place.
InOrder ==
    \A b \in Buckets : \A i, j \in 1 .. Len(admitted[b]) :
        i <= j => admitted[b][i] <= admitted[b][j]

LEMMA OrderStays == TypeOK /\ InOrder /\ [Next]_vars => InOrder'
  <1> SUFFICES ASSUME TypeOK, InOrder, [Next]_vars PROVE InOrder'
    OBVIOUS
  <1>1. ASSUME NEW b \in Buckets, Admit(b)
        PROVE  InOrder'
    <2>1. admitted' = [admitted EXCEPT ![b] = Append(@, clock)]
      BY <1>1 DEF Admit
    <2>2. admitted[b] \in Seq(Times) /\ clock \in Times /\ clock \in Nat
      BY DEF TypeOK, Times
    <2>3. PICK n \in Nat : n = Len(admitted[b])
      BY <2>2
    <2>4. /\ admitted'[b] = Append(admitted[b], clock)
          /\ \A c \in Buckets : c # b => admitted'[c] = admitted[c]
      BY <2>1 DEF TypeOK
    <2>5. /\ Len(admitted'[b]) = n + 1 /\ admitted'[b][n + 1] = clock
          /\ \A i \in 1 .. n : admitted'[b][i] = admitted[b][i]
      BY <2>2, <2>3, <2>4, Appended
    <2>6. \A i \in 1 .. n : admitted[b][i] \in Times
      BY <2>2, <2>3
    <2>7. ASSUME NEW i \in 1 .. n + 1, NEW j \in 1 .. n + 1, i <= j
          PROVE  admitted'[b][i] <= admitted'[b][j]
      <3>1. CASE j = n + 1
        <4>1. CASE i = n + 1
          BY <2>2, <2>5, <3>1, <4>1
        <4>2. CASE i # n + 1
          <5>1. i \in 1 .. n
            BY <2>3, <4>2
          <5>2. admitted[b][i] \in 0 .. clock
            BY <2>6, <5>1 DEF Times
          <5> QED
            BY <2>2, <2>5, <3>1, <5>1, <5>2
        <4> QED
          BY <4>1, <4>2
      <3>2. CASE j # n + 1
        <4>1. i \in 1 .. n /\ j \in 1 .. n
          BY <2>3, <2>7, <3>2
        <4>2. admitted[b][i] <= admitted[b][j]
          BY <2>3, <2>7, <4>1 DEF InOrder
        <4> QED
          BY <2>5, <4>1, <4>2
      <3> QED
        BY <3>1, <3>2
    <2> QED
      BY <2>4, <2>5, <2>7 DEF InOrder
  <1>2. CASE UNCHANGED admitted
    BY <1>2 DEF InOrder
  <1> QED
    BY <1>1, <1>2 DEF Next, Refuse, Tick, vars

\* The places of history h in the window that ends at time t.
Covered(h, t) == {i \in 1 .. Len(h) : h[i] <= t /\ t - h[i] <= Window}

LEMMA JustifiedMeansCovered ==
    RefusalsJustified <=>
        \A b \in Buckets : refusedAt[b] # Never =>
            Cardinality(Covered(admitted[b], refusedAt[b])) >= Limit
  BY DEF RefusalsJustified, Covered

\* A set of indices is finite, and so no smaller than an interval in it.
LEMMA IntervalInside ==
    ASSUME NEW h, NEW t, Len(h) \in Nat, NEW f \in Nat, NEW len \in Nat,
           f + 1 .. f + len \subseteq Covered(h, t)
    PROVE  /\ IsFiniteSet(Covered(h, t))
           /\ Cardinality(Covered(h, t)) >= len
  <1>1. IsFiniteSet(1 .. Len(h))
    BY FS_Interval
  <1>2. Covered(h, t) \subseteq 1 .. Len(h)
    BY DEF Covered
  <1>3. IsFiniteSet(Covered(h, t)) /\ Cardinality(Covered(h, t)) \in Nat
    BY <1>1, <1>2, FS_Subset, FS_CardinalityType
  <1>4. Cardinality(f + 1 .. f + len) <= Cardinality(Covered(h, t))
    BY <1>3, FS_Subset
  <1>5. Cardinality(f + 1 .. f + len) = len
    <2>1. f + 1 \in Int /\ f + len \in Int
      OBVIOUS
    <2>2. Cardinality(f + 1 .. f + len) =
            IF f + 1 > f + len THEN 0 ELSE (f + len) - (f + 1) + 1
      BY <2>1, FS_Interval
    <2> QED
      BY <2>2
  <1> QED
    BY <1>3, <1>4, <1>5

LEMMA RefusalsStayJustified ==
    TypeOK /\ DequesAreRecent /\ InOrder /\ RefusalsJustified /\ [Next]_vars
        => RefusalsJustified'
  <1> SUFFICES ASSUME TypeOK, DequesAreRecent, InOrder, RefusalsJustified, [Next]_vars
               PROVE  RefusalsJustified'
    OBVIOUS
  <1> USE SettingsAreIntegers
  <1>0. \A b \in Buckets : admitted[b] \in Seq(Times)
    BY DEF TypeOK
  <1>1. ASSUME NEW b \in Buckets, Admit(b)
        PROVE  RefusalsJustified'
    <2>1. admitted' = [admitted EXCEPT ![b] = Append(@, clock)] /\ refusedAt' = refusedAt
      BY <1>1 DEF Admit
    <2>2. admitted[b] \in Seq(Times) /\ clock \in Times
      BY <1>0 DEF TypeOK, Times
    <2>3. PICK n \in Nat : n = Len(admitted[b])
      BY <2>2
    <2>4. /\ admitted'[b] = Append(admitted[b], clock)
          /\ \A c \in Buckets : c # b => admitted'[c] = admitted[c]
      BY <2>1 DEF TypeOK
    <2>5. /\ Len(admitted'[b]) = n + 1
          /\ \A i \in 1 .. n : admitted'[b][i] = admitted[b][i]
      BY <2>2, <2>3, <2>4, Appended
    <2>6. ASSUME refusedAt[b] # Never
          PROVE  Cardinality(Covered(admitted'[b], refusedAt[b])) >= Limit
      <3>1. Covered(admitted[b], refusedAt[b]) \subseteq Covered(admitted'[b], refusedAt[b])
        BY <2>3, <2>5 DEF Covered
      <3>2. IsFiniteSet(Covered(admitted'[b], refusedAt[b]))
        <4>1. IsFiniteSet(1 .. n + 1)
          BY FS_Interval
        <4>2. Covered(admitted'[b], refusedAt[b]) \subseteq 1 .. n + 1
          BY <2>5 DEF Covered
        <4> QED
          BY <4>1, <4>2, FS_Subset
      <3>3. /\ Cardinality(Covered(admitted[b], refusedAt[b])) <=
                 Cardinality(Covered(admitted'[b], refusedAt[b]))
            /\ Cardinality(Covered(admitted[b], refusedAt[b])) \in Nat
            /\ Cardinality(Covered(admitted'[b], refusedAt[b])) \in Nat
        BY <3>1, <3>2, FS_Subset, FS_CardinalityType
      <3>4. Cardinality(Covered(admitted[b], refusedAt[b])) >= Limit
        BY <2>6, JustifiedMeansCovered
      <3> QED
        BY <3>3, <3>4
    <2>7. \A c \in Buckets : refusedAt'[c] # Never =>
            Cardinality(Covered(admitted'[c], refusedAt'[c])) >= Limit
      BY <2>1, <2>4, <2>6, JustifiedMeansCovered
    <2> QED
      BY <2>7 DEF RefusalsJustified, Covered
  <1>2. ASSUME NEW b \in Buckets, Refuse(b)
        PROVE  RefusalsJustified'
    <2>1. PICK n \in 0 .. Len(windows[b]) :
            /\ Pops(b, n)
            /\ Len(windows[b]) - n >= Limit
            /\ refusedAt' = [refusedAt EXCEPT ![b] = clock]
            /\ admitted' = admitted
      BY <1>2 DEF Refuse
    <2>2. PICK f \in Nat, len \in Nat : Split(b, n, f, len)
      BY <2>1, Popping
    <2>3. refusedAt'[b] = clock /\ \A c \in Buckets : c # b => refusedAt'[c] = refusedAt[c]
      BY <2>1 DEF TypeOK
    <2>4. f + 1 .. f + len \subseteq Covered(admitted[b], clock)
      <3>1. SUFFICES ASSUME NEW i \in f + 1 .. f + len
                     PROVE  i \in Covered(admitted[b], clock)
        OBVIOUS
      <3>2. /\ i \in 1 .. Len(admitted[b]) /\ f + 1 \in 1 .. Len(admitted[b])
            /\ f + 1 <= i /\ 1 \in 1 .. len
        BY <2>2, <3>1 DEF Split
      <3>3. ~ Stale(admitted[b][f + 1])
        <4>1. n < Len(windows[b]) /\ windows[b] \in Seq(Times) /\ n \in Nat
          BY <2>2, <3>2 DEF Split, TypeOK
        <4>2. ~ Stale(windows[b][n + 1])
          BY <2>1, <4>1 DEF Pops
        <4>3. Rest(b, n)[1] = windows[b][n + 1]
          <5>1. 1 \in 1 .. Len(windows[b]) - n
            BY <4>1
          <5> QED
            BY <5>1, RestOfDeque
        <4>4. Rest(b, n)[1] = admitted[b][f + 1]
          BY <2>2, <3>2 DEF Split
        <4> QED
          BY <4>2, <4>3, <4>4
      <3>4. admitted[b][f + 1] <= admitted[b][i]
        BY <3>2 DEF InOrder
      <3>5. admitted[b][f + 1] \in 0 .. clock /\ admitted[b][i] \in 0 .. clock /\ clock \in Nat
        BY <1>0, <3>2 DEF Times, TypeOK
      <3> QED
        BY <3>2, <3>3, <3>4, <3>5 DEF Stale, Covered
    <2>5. Cardinality(Covered(admitted[b], clock)) >= Limit
      <3>1. Len(admitted[b]) \in Nat
        BY <1>0
      <3>2. /\ IsFiniteSet(Covered(admitted[b], clock))
            /\ Cardinality(Covered(admitted[b], clock)) >= len
        BY <2>4, <3>1, IntervalInside
      <3>3. Cardinality(Covered(admitted[b], clock)) \in Nat
        BY <3>2, FS_CardinalityType
      <3>4. len >= Limit
        BY <2>1, <2>2 DEF Split
      <3> QED
        BY <3>2, <3>3, <3>4
    <2>6. \A c \in Buckets : refusedAt'[c] # Never =>
            Cardinality(Covered(admitted[c], refusedAt'[c])) >= Limit
      BY <2>3, <2>5, JustifiedMeansCovered
    <2> QED
      BY <2>1, <2>6 DEF RefusalsJustified, Covered
  <1>3. CASE UNCHANGED <<admitted, refusedAt>>
    BY <1>3 DEF RefusalsJustified
  <1> QED
    BY <1>1, <1>2, <1>3 DEF Next, Tick, vars

\* Whoever is refused finds as many requests as the limit in the window that
\* ends then: the limiter forgets and refuses no earlier than it must.
THEOREM RefusalsAreJustified == Spec => []RefusalsJustified
  <1>1. Init => InOrder /\ RefusalsJustified
    BY DEF Init, InOrder, RefusalsJustified
  <1> QED
    BY <1>1, OrderStays, RefusalsStayJustified, LimiterTypes, DequesAreEnough, PTL DEF Spec
=============================================================================
