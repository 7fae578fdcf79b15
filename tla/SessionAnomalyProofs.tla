-------------------------- MODULE SessionAnomalyProofs --------------------------
(***************************************************************************)
(* Proofs about SessionAnomaly for any threshold, window and number of     *)
(* tokens: a signal stands for a burst of failures of its own, and a long  *)
(* enough burst is signalled wherever the windows happen to begin.         *)
(***************************************************************************)
EXTENDS SessionAnomaly, FiniteSetTheorems, SequenceTheorems, TLAPS

--------------------------------------------------------------------------------
(* The inductive invariant.                                                 *)

\* Which of the first n ticks in s are between i and j, and how many.
Hits(s, n, i, j) == {k \in 1..n : s[k] \in i..j}
Among(s, n, i, j) == Cardinality(Hits(s, n, i, j))

Since(i) == IF i < Window THEN 0 ELSE i - Window

\* How many failures have been signalled or forgotten: all but the window's.
Spent(t) == Len(failures[t]) - window[t].count

\* Nothing recorded is of the future.
PastInv ==
    /\ \A t \in Tokens : \A k \in 1..Len(failures[t]) : failures[t][k] <= now
    /\ \A t \in Tokens : \A k \in 1..Len(signals[t]) : signals[t][k] <= now
    /\ \A i \in lost : i <= now

\* The window counts the last failures, none of them before its start.
WindowInv ==
    \A t \in Tokens :
        /\ window[t].count <= Len(failures[t])
        /\ window[t].count > 0 => window[t].start <= now
        /\ \A k \in 1..Len(failures[t]) : k > Spent(t) => failures[t][k] >= window[t].start

\* The failures that are no longer in the window pay for the signals.
SignalInv ==
    \A t \in Tokens : \A i, j \in Time :
        Among(failures[t], Spent(t), Since(i), j) >= Threshold * SignalsIn(t, i, j)

\* Failures since i that no signal and no restart has come between are in the
\* current window, but for what one window before it may hold.
BurstInv ==
    \A t \in Tokens : \A i \in 0..now :
        now <= i + Window /\ lost \cap (i..now) = {} /\ SignalsIn(t, i, now) = 0 =>
            FailuresIn(t, i, now) <= window[t].count +
                (IF window[t].count > 0 /\ window[t].start >= i THEN Threshold - 1 ELSE 0)

\* BurstSignalled for one token and one range.
Signalled(t, i, j) ==
    FailuresIn(t, i, j) >= 2 * Threshold - 1 /\ lost \cap (i..j) = {} => SignalsIn(t, i, j) > 0

\* A range a window long keeps it once it has gone by.
GoneByInv == \A t \in Tokens : \A i \in 0..now : i + Window < now => Signalled(t, i, i + Window)

IInv == TypeOK /\ PastInv /\ WindowInv /\ SignalInv /\ BurstInv /\ GoneByInv

--------------------------------------------------------------------------------
(* Counting in a sequence of ticks.                                         *)

LEMMA AmongType ==
    ASSUME NEW s, NEW n \in Nat, NEW i, NEW j
    PROVE  /\ IsFiniteSet(Hits(s, n, i, j))
           /\ Among(s, n, i, j) \in Nat
<1>1. IsFiniteSet(1..n)
  BY FS_Interval
<1>2. Hits(s, n, i, j) \subseteq 1..n
  BY DEF Hits
<1>3. IsFiniteSet(Hits(s, n, i, j))
  BY <1>1, <1>2, FS_Subset
<1> QED BY <1>3, FS_CardinalityType DEF Among

LEMMA WithinIsAmong ==
    ASSUME NEW s \in Seq(Nat), NEW i, NEW j
    PROVE  Within(s, i, j) = Among(s, Len(s), i, j) /\ Within(s, i, j) \in Nat
<1>1. DOMAIN s = 1..Len(s) /\ Len(s) \in Nat
  OBVIOUS
<1>2. Within(s, i, j) = Among(s, Len(s), i, j)
  BY <1>1 DEF Within, Among, Hits
<1> QED BY <1>1, <1>2, AmongType

\* A wider range, and a longer prefix, hold at least as much.
LEMMA AmongMore ==
    ASSUME NEW s, NEW n \in Nat, NEW i, NEW j, NEW m \in Nat, NEW a, NEW b,
           \A k \in 1..n : s[k] \in i..j => k \in 1..m /\ s[k] \in a..b
    PROVE  Among(s, n, i, j) <= Among(s, m, a, b)
<1>1. Hits(s, n, i, j) \subseteq Hits(s, m, a, b)
  BY DEF Hits
<1>2. IsFiniteSet(Hits(s, m, a, b))
  BY AmongType
<1> QED BY <1>1, <1>2, FS_Subset DEF Among

\* A stretch that lies in the range counts for its length.
LEMMA AmongStretch ==
    ASSUME NEW s, NEW n \in Nat, NEW m \in Nat, m <= n, NEW i, NEW j,
           \A k \in 1..n : k > m => s[k] \in i..j
    PROVE  Among(s, n, i, j) = Among(s, m, i, j) + (n - m)
<1>1. PICK A, B : A = Hits(s, m, i, j) /\ B = (m + 1)..n
  OBVIOUS
<1>2. IsFiniteSet(A) /\ Cardinality(A) \in Nat
  BY <1>1, AmongType DEF Among
<1>3. IsFiniteSet(B) /\ Cardinality(B) = n - m
  <2>1. m + 1 \in Int /\ n \in Int
    OBVIOUS
  <2>2. IsFiniteSet((m + 1)..n) /\ Cardinality((m + 1)..n) = IF m + 1 > n THEN 0 ELSE n - (m + 1) + 1
    BY <2>1, FS_Interval
  <2> QED BY <1>1, <2>2
<1>4. A \cap B = {}
  BY <1>1 DEF Hits
<1>5. Hits(s, n, i, j) = A \cup B
  BY <1>1 DEF Hits
<1>6. Cardinality(A \cap B) = 0
  BY <1>4, FS_EmptySet
<1>7. Cardinality(A \cup B) = Cardinality(A) + Cardinality(B) - Cardinality(A \cap B)
  BY <1>2, <1>3, FS_Union
<1>8. Cardinality(A \cup B) = Cardinality(A) + (n - m)
  BY <1>2, <1>3, <1>6, <1>7
<1> QED BY <1>1, <1>5, <1>8 DEF Among

LEMMA AmongNone ==
    ASSUME NEW s, NEW n \in Nat, NEW i, NEW j, \A k \in 1..n : s[k] \notin i..j
    PROVE  Among(s, n, i, j) = 0
<1>1. Hits(s, n, i, j) = {}
  BY DEF Hits
<1> QED BY <1>1, FS_EmptySet DEF Among

\* One tick more.
LEMMA WithinAppend ==
    ASSUME NEW s \in Seq(Nat), NEW x \in Nat, NEW i \in Nat, NEW j \in Nat
    PROVE  /\ \A n \in 0..Len(s) : Among(Append(s, x), n, i, j) = Among(s, n, i, j)
           /\ x \in i..j => Within(Append(s, x), i, j) = Within(s, i, j) + 1
           /\ x \notin i..j => Within(Append(s, x), i, j) = Within(s, i, j)
<1>1. PICK r : r = Append(s, x)
  OBVIOUS
<1>2. /\ r \in Seq(Nat) /\ Len(r) = Len(s) + 1 /\ r[Len(s) + 1] = x /\ Len(s) \in Nat
      /\ \A k \in 1..Len(s) : r[k] = s[k]
  BY <1>1
<1>3. ASSUME NEW n \in 0..Len(s) PROVE Among(r, n, i, j) = Among(s, n, i, j)
  <2>1. n \in Nat /\ \A k \in 1..n : r[k] = s[k]
    BY <1>2
  <2>2. Hits(r, n, i, j) = Hits(s, n, i, j)
    BY <2>1 DEF Hits
  <2> QED BY <2>2 DEF Among
<1>4. Within(r, i, j) = Among(r, Len(s) + 1, i, j) /\ Within(s, i, j) = Among(s, Len(s), i, j)
  BY <1>2, WithinIsAmong
<1>5. Among(r, Len(s), i, j) = Among(s, Len(s), i, j)
  BY <1>2, <1>3
<1>6. ASSUME x \in i..j PROVE Within(r, i, j) = Within(s, i, j) + 1
  <2>1. \A k \in 1..(Len(s) + 1) : k > Len(s) => r[k] \in i..j
    BY <1>2, <1>6
  <2>2. Among(r, Len(s) + 1, i, j) = Among(r, Len(s), i, j) + ((Len(s) + 1) - Len(s))
    BY <1>2, <2>1, AmongStretch
  <2>3. Among(r, Len(s), i, j) \in Nat
    BY <1>2, AmongType
  <2> QED BY <1>2, <1>4, <1>5, <2>2, <2>3
<1>7. ASSUME x \notin i..j PROVE Within(r, i, j) = Within(s, i, j)
  <2>1. Hits(r, Len(s) + 1, i, j) = Hits(r, Len(s), i, j)
    BY <1>2, <1>7 DEF Hits
  <2>2. Among(r, Len(s) + 1, i, j) = Among(r, Len(s), i, j)
    BY <2>1 DEF Among
  <2> QED BY <1>4, <1>5, <2>2
<1> QED BY <1>1, <1>3, <1>6, <1>7

--------------------------------------------------------------------------------
(* What a step does.                                                        *)

Window0 == [count : 0..(Threshold - 1), start : Time]

LEMMA Types ==
    ASSUME TypeOK
    PROVE  /\ Threshold \in Nat \ {0} /\ Window \in Nat \ {0} /\ Horizon \in Nat
           /\ now \in Nat /\ now \in Time /\ Time \subseteq Nat /\ 0 \in Time
           /\ \A t \in Tokens : /\ window[t] \in Window0 /\ window[t].count \in Nat /\ window[t].start \in Time
                                /\ window[t].count <= Threshold - 1
                                /\ failures[t] \in Seq(Nat) /\ signals[t] \in Seq(Nat)
                                /\ Len(failures[t]) \in Nat /\ Len(signals[t]) \in Nat
           /\ window \in [Tokens -> Window0] /\ failures \in [Tokens -> Seq(Time)] /\ signals \in [Tokens -> Seq(Time)]
<1>1. Time \subseteq Nat /\ 0 \in Time
  BY AnomalyAssumption DEF Time
<1>2. ASSUME NEW s \in Seq(Time) PROVE s \in Seq(Nat)
  <2>1. PICK n \in Nat : s \in [1..n -> Time]
    BY SeqDef
  <2>2. s \in [1..n -> Nat]
    BY <1>1, <2>1
  <2> QED BY <2>1, <2>2, SeqDef
<1> QED BY <1>1, <1>2, AnomalyAssumption DEF TypeOK, Window0

\* A failure is counted in a window that is still open; the last one of a burst
\* closes it and is signalled.
Recorded(t, w) ==
    /\ w \in Window0
    /\ \/ w.count = 0 /\ w.start = now /\ (window[t].count = 0 \/ now - window[t].start > Window)
       \/ w = window[t] /\ w.count > 0 /\ now - w.start <= Window
    /\ failures' = [failures EXCEPT ![t] = Append(failures[t], now)]
    /\ UNCHANGED <<now, lost, log>>
    /\ \/ /\ w.count + 1 < Threshold
          /\ window' = [window EXCEPT ![t] = [count |-> w.count + 1, start |-> w.start]]
          /\ UNCHANGED signals
       \/ /\ w.count + 1 = Threshold
          /\ window' = [window EXCEPT ![t] = NoWindow]
          /\ signals' = [signals EXCEPT ![t] = Append(signals[t], now)]

LEMMA RecordIs ==
    ASSUME TypeOK, NEW t \in Tokens, RecordValidationFailure(t)
    PROVE  \E w : Recorded(t, w)
<1>1. PICK w : w = CurrentWindow(t)
  OBVIOUS
<1>2. /\ w \in Window0
      /\ \/ w.count = 0 /\ w.start = now /\ (window[t].count = 0 \/ now - window[t].start > Window)
         \/ w = window[t] /\ w.count > 0 /\ now - w.start <= Window
  <2>1. CASE window[t].count = 0 \/ now - window[t].start > Window
    <3>1. w = [count |-> 0, start |-> now]
      BY <1>1, <2>1 DEF CurrentWindow
    <3> QED BY <2>1, <3>1, Types DEF Window0
  <2>2. CASE ~(window[t].count = 0 \/ now - window[t].start > Window)
    <3>1. w = window[t]
      BY <1>1, <2>2 DEF CurrentWindow
    <3> QED BY <2>2, <3>1, Types DEF Window0, Time
  <2> QED BY <2>1, <2>2
<1>3. /\ failures' = [failures EXCEPT ![t] = Append(failures[t], now)] /\ UNCHANGED <<now, lost>>
      /\ IF w.count + 1 >= Threshold
         THEN /\ window' = [window EXCEPT ![t] = NoWindow]
              /\ signals' = [signals EXCEPT ![t] = Append(signals[t], now)]
              /\ Emit(AnomalyActor, t)
         ELSE /\ window' = [window EXCEPT ![t] = [w EXCEPT !.count = w.count + 1]]
              /\ UNCHANGED <<signals, log>>
  BY <1>1 DEF RecordValidationFailure
<1>4. log' = log
  BY <1>3 DEF Emit, AnomalyActor
<1>5. w.count \in Nat /\ w.count <= Threshold - 1 /\ Threshold \in Nat
  BY <1>2, AnomalyAssumption DEF Window0
<1>6. [w EXCEPT !.count = w.count + 1] = [count |-> w.count + 1, start |-> w.start]
  BY <1>2 DEF Window0
<1>7. CASE w.count + 1 >= Threshold
  <2>1. w.count + 1 = Threshold
    BY <1>5, <1>7
  <2> QED BY <1>2, <1>3, <1>4, <1>7, <2>1 DEF Recorded
<1>8. CASE ~(w.count + 1 >= Threshold)
  <2>1. w.count + 1 < Threshold
    BY <1>5, <1>8
  <2>2. window' = [window EXCEPT ![t] = [count |-> w.count + 1, start |-> w.start]] /\ UNCHANGED signals
    BY <1>3, <1>6, <1>8
  <2> QED BY <1>2, <1>3, <1>4, <2>1, <2>2 DEF Recorded
<1> QED BY <1>7, <1>8

\* What that makes of t's own entries, and of everybody else's.
LEMMA RecordedOwn ==
    ASSUME TypeOK, NEW t \in Tokens, NEW w, Recorded(t, w)
    PROVE  /\ w.count \in Nat /\ w.count <= Threshold - 1 /\ w.start \in Nat
           /\ failures'[t] = Append(failures[t], now) /\ Len(failures'[t]) = Len(failures[t]) + 1
           /\ \A u \in Tokens \ {t} : /\ failures'[u] = failures[u] /\ signals'[u] = signals[u]
                                      /\ window'[u] = window[u]
           /\ \/ /\ w.count + 1 < Threshold /\ signals'[t] = signals[t]
                 /\ window'[t].count = w.count + 1 /\ window'[t].start = w.start
              \/ /\ w.count + 1 = Threshold /\ signals'[t] = Append(signals[t], now)
                 /\ window'[t].count = 0
<1>1. w.count \in Nat /\ w.count <= Threshold - 1 /\ w.start \in Nat
  BY Types DEF Recorded, Window0
<1>2. failures'[t] = Append(failures[t], now) /\ Len(failures'[t]) = Len(failures[t]) + 1
  BY Types DEF Recorded
<1>3. \A u \in Tokens \ {t} : failures'[u] = failures[u] /\ signals'[u] = signals[u] /\ window'[u] = window[u]
  BY Types DEF Recorded
<1>4. CASE w.count + 1 < Threshold /\ signals' = signals
           /\ window' = [window EXCEPT ![t] = [count |-> w.count + 1, start |-> w.start]]
  BY <1>1, <1>2, <1>3, <1>4, Types
<1>5. CASE w.count + 1 = Threshold /\ window' = [window EXCEPT ![t] = NoWindow]
           /\ signals' = [signals EXCEPT ![t] = Append(signals[t], now)]
  BY <1>1, <1>2, <1>3, <1>5, Types DEF NoWindow
<1> QED BY <1>4, <1>5 DEF Recorded

LEMMA TypeStep ==
    ASSUME TypeOK, [Next]_vars PROVE TypeOK'
<1>1. CASE UNCHANGED vars
  BY <1>1 DEF vars, TypeOK
<1>2. CASE Tick
  BY <1>2, AnomalyAssumption DEF Tick, TypeOK, Time
<1>3. CASE Restart
  <2>1. NoWindow \in Window0
    BY AnomalyAssumption DEF NoWindow, Window0, Time
  <2> QED BY <1>3, <2>1 DEF Restart, TypeOK, Window0
<1>4. ASSUME NEW t \in Tokens, RecordValidationFailure(t) PROVE TypeOK'
  <2>1. PICK w : Recorded(t, w)
    BY <1>4, RecordIs
  <2>2. NoWindow \in Window0
    BY AnomalyAssumption DEF NoWindow, Window0, Time
  <2>3. w.count + 1 < Threshold => [count |-> w.count + 1, start |-> w.start] \in Window0
    BY <2>1, AnomalyAssumption DEF Recorded, Window0
  <2>4. window' \in [Tokens -> Window0]
    BY <2>1, <2>2, <2>3, Types DEF Recorded
  <2>5. failures' \in [Tokens -> Seq(Time)] /\ signals' \in [Tokens -> Seq(Time)]
    <3>1. \A s \in Seq(Time) : Append(s, now) \in Seq(Time)
      BY Types
    <3>2. failures[t] \in Seq(Time) /\ signals[t] \in Seq(Time)
      BY Types
    <3>3. PICK a, b : a = Append(failures[t], now) /\ b = Append(signals[t], now)
      OBVIOUS
    <3>4. a \in Seq(Time) /\ b \in Seq(Time)
      BY <3>1, <3>2, <3>3
    <3>5. failures' = [failures EXCEPT ![t] = a] /\ (signals' = signals \/ signals' = [signals EXCEPT ![t] = b])
      BY <2>1, <3>3 DEF Recorded
    <3> QED BY <3>4, <3>5, Types
  <2> QED BY <2>1, <2>4, <2>5 DEF Recorded, TypeOK, Window0
<1> QED BY <1>1, <1>2, <1>3, <1>4 DEF Next

LEMMA PastStep ==
    ASSUME TypeOK, PastInv, [Next]_vars PROVE PastInv'
<1>1. CASE UNCHANGED vars
  BY <1>1 DEF vars, PastInv
<1>2. CASE Tick
  BY <1>2, AnomalyAssumption DEF Tick, PastInv, TypeOK, Time
<1>3. CASE Restart
  BY <1>3, Types DEF Restart, PastInv
<1>4. ASSUME NEW t \in Tokens, RecordValidationFailure(t) PROVE PastInv'
  <2>1. PICK w : Recorded(t, w)
    BY <1>4, RecordIs
  <2>2. UNCHANGED <<now, lost>>
    BY <2>1 DEF Recorded
  <2>3. ASSUME NEW s \in Seq(Nat), \A k \in 1..Len(s) : s[k] <= now,
               NEW k \in 1..Len(Append(s, now))
        PROVE  Append(s, now)[k] <= now
    BY <2>3, Types
  <2>4. ASSUME NEW u \in Tokens
        PROVE  /\ \A k \in 1..Len(failures'[u]) : failures'[u][k] <= now
               /\ \A k \in 1..Len(signals'[u]) : signals'[u][k] <= now
    <3>1. (failures'[u] = failures[u] \/ failures'[u] = Append(failures[u], now))
          /\ (signals'[u] = signals[u] \/ signals'[u] = Append(signals[u], now))
      BY <2>1, RecordedOwn
    <3>2. /\ failures[u] \in Seq(Nat) /\ \A k \in 1..Len(failures[u]) : failures[u][k] <= now
          /\ signals[u] \in Seq(Nat) /\ \A k \in 1..Len(signals[u]) : signals[u][k] <= now
      BY Types DEF PastInv
    <3> QED BY <2>3, <3>1, <3>2
  <2> QED BY <2>2, <2>4 DEF PastInv
<1> QED BY <1>1, <1>2, <1>3, <1>4 DEF Next

LEMMA WindowStep ==
    ASSUME TypeOK, TypeOK', PastInv, WindowInv, [Next]_vars PROVE WindowInv'
<1> DEFINE Good(t) == /\ window[t].count <= Len(failures[t])
                      /\ window[t].count > 0 => window[t].start <= now
                      /\ \A k \in 1..Len(failures[t]) :
                            k > Len(failures[t]) - window[t].count => failures[t][k] >= window[t].start
<1> SUFFICES ASSUME NEW u \in Tokens PROVE Good(u)'
  BY DEF WindowInv, Spent
<1>0. Good(u)
  BY DEF WindowInv, Spent
<1>1. CASE UNCHANGED vars
  BY <1>0, <1>1 DEF vars
<1>2. CASE Tick
  BY <1>0, <1>2, Types, AnomalyAssumption DEF Tick, Time
<1>3. CASE Restart
  <2>1. window'[u].count = 0 /\ failures' = failures
    BY <1>3 DEF Restart, NoWindow
  <2> QED BY <2>1, Types
<1>4. ASSUME NEW t \in Tokens, RecordValidationFailure(t) PROVE Good(u)'
  <2>1. PICK w : Recorded(t, w)
    BY <1>4, RecordIs
  <2>2. now' = now
    BY <2>1 DEF Recorded
  <2>3. CASE u # t
    BY <1>0, <2>1, <2>2, <2>3, RecordedOwn
  <2>4. CASE u = t
    <3>1. PICK n, s : n = Len(failures[t]) /\ s = failures'[t]
      OBVIOUS
    <3>2. /\ n \in Nat /\ Len(s) = n + 1 /\ s[n + 1] = now /\ \A k \in 1..n : s[k] = failures[t][k]
          /\ \A k \in 1..n : s[k] \in Nat
      <4>1. PICK r : r = failures[t]
        OBVIOUS
      <4>2. r \in Seq(Nat) /\ now \in Nat /\ s = Append(r, now) /\ n = Len(r)
        BY <2>1, <3>1, <4>1, RecordedOwn, Types
      <4> QED BY <4>1, <4>2
    <3>3. w.count <= n /\ w.start <= now /\ w.start \in Nat /\ w.count \in Nat
          /\ \A k \in 1..n : k > n - w.count => s[k] >= w.start
      BY <1>0, <2>1, <2>4, <3>1, <3>2, Types DEF Recorded, Window0
    <3>4. \A k \in 1..(n + 1) : k > n - w.count => s[k] >= w.start
      <4>1. now \in Nat /\ now >= w.start
        BY <3>3, Types
      <4>2. ASSUME NEW k \in 1..(n + 1), k > n - w.count PROVE s[k] >= w.start
        <5>1. CASE k = n + 1
          BY <3>2, <4>1, <5>1
        <5>2. CASE k \in 1..n
          BY <3>3, <4>2, <5>2
        <5> QED BY <3>2, <5>1, <5>2
      <4> QED BY <4>2
    <3>5. (window'[t].count = w.count + 1 /\ window'[t].start = w.start) \/ window'[t].count = 0
      BY <2>1, RecordedOwn
    <3>6. CASE window'[t].count = w.count + 1 /\ window'[t].start = w.start
      BY <2>2, <2>4, <3>1, <3>2, <3>3, <3>4, <3>6
    <3>7. CASE window'[t].count = 0
      BY <2>4, <3>1, <3>2, <3>7
    <3> QED BY <3>5, <3>6, <3>7
  <2> QED BY <2>3, <2>4
<1> QED BY <1>1, <1>2, <1>3, <1>4 DEF Next

--------------------------------------------------------------------------------
(* A signal means a burst.                                                  *)

LEMMA ThresholdMore ==
    ASSUME NEW T \in Nat, NEW n \in Nat PROVE T * (n + 1) = T * n + T
OBVIOUS

LEMMA SignalStep ==
    ASSUME TypeOK, TypeOK', PastInv, WindowInv, SignalInv, [Next]_vars PROVE SignalInv'
<1> DEFINE Good(t, i, j) ==
        Among(failures[t], Len(failures[t]) - window[t].count, Since(i), j) >= Threshold * Within(signals[t], i, j)
<1> SUFFICES ASSUME NEW u \in Tokens, NEW i \in Time, NEW j \in Time PROVE Good(u, i, j)'
  BY DEF SignalInv, Spent, SignalsIn
<1>0. Good(u, i, j)
  BY DEF SignalInv, Spent, SignalsIn
<1>i. i \in Nat /\ j \in Nat /\ Since(i) \in Nat
  BY Types DEF Since
<1>w. /\ window[u].count <= Len(failures[u]) /\ Len(failures[u]) - window[u].count \in Nat
      /\ failures[u] \in Seq(Nat) /\ signals[u] \in Seq(Nat) /\ Len(failures[u]) \in Nat
  BY Types DEF WindowInv
\* More failures are spent when a window is given up.
<1>m. ASSUME NEW n \in Nat, Len(failures[u]) - window[u].count <= n
      PROVE  Among(failures[u], n, Since(i), j) >= Threshold * Within(signals[u], i, j)
  <2>1. PICK s, m : s = failures[u] /\ m = Len(failures[u]) - window[u].count
    OBVIOUS
  <2>2. Among(s, m, Since(i), j) <= Among(s, n, Since(i), j)
    BY <1>m, <1>w, <2>1, AmongMore
  <2>3. Among(s, m, Since(i), j) \in Nat /\ Among(s, n, Since(i), j) \in Nat
    BY <1>m, <1>w, <2>1, AmongType
  <2>4. Within(signals[u], i, j) \in Nat /\ Threshold \in Nat
    BY <1>w, WithinIsAmong, AnomalyAssumption
  <2>5. Threshold * Within(signals[u], i, j) \in Nat
    BY <2>4
  <2> QED BY <1>0, <2>1, <2>2, <2>3, <2>5
<1>1. CASE UNCHANGED vars
  BY <1>0, <1>1 DEF vars, Since
<1>2. CASE Tick
  BY <1>0, <1>2 DEF Tick, Since
<1>3. CASE Restart
  <2>1. window'[u].count = 0 /\ failures' = failures /\ signals' = signals
    BY <1>3 DEF Restart, NoWindow
  <2>2. Len(failures[u]) - window[u].count <= Len(failures[u])
    BY <1>w, Types
  <2>3. Among(failures[u], Len(failures[u]), Since(i), j) >= Threshold * Within(signals[u], i, j)
    BY <1>m, <1>w, <2>2
  <2>4. Len(failures'[u]) - window'[u].count = Len(failures[u])
    BY <1>w, <2>1
  <2> QED BY <2>1, <2>3, <2>4
<1>4. ASSUME NEW t \in Tokens, RecordValidationFailure(t) PROVE Good(u, i, j)'
  <2>1. PICK w : Recorded(t, w)
    BY <1>4, RecordIs
  <2>2. CASE u # t
    BY <1>0, <2>1, <2>2, RecordedOwn
  <2>3. CASE u = t
    <3>1. PICK f, g, sg, n, m : /\ f = failures[u] /\ g = failures'[u] /\ sg = signals[u]
                                /\ n = Len(f) /\ m = n - w.count
      OBVIOUS
    <3>2. /\ f \in Seq(Nat) /\ n \in Nat /\ now \in Nat /\ w.count \in Nat /\ w.start \in Nat
          /\ sg \in Seq(Nat) /\ g = Append(f, now) /\ Len(g) = n + 1
      BY <1>w, <2>1, <2>3, <3>1, RecordedOwn, Types
    <3>s. /\ g[n + 1] = now /\ \A k \in 1..n : g[k] = f[k]
          /\ \A k \in 1..(n + 1) : g[k] \in Nat
      <4>1. f \in Seq(Nat) /\ n = Len(f) /\ n \in Nat /\ now \in Nat /\ g = Append(f, now)
        BY <3>1, <3>2
      <4>2. g[n + 1] = now /\ \A k \in 1..n : g[k] = f[k]
        BY <4>1
      <4>3. \A k \in 1..n : f[k] \in Nat
        BY <4>1
      <4>4. \A k \in 1..(n + 1) : k \in 1..n \/ k = n + 1
        BY <4>1
      <4> QED BY <4>1, <4>2, <4>3, <4>4
    <3>3. m \in Nat /\ m <= n /\ n - window[u].count <= m
      <4>1. CASE w.count = 0
        <5>1. m = n /\ n = Len(failures[u]) /\ n \in Nat
          BY <3>1, <3>2, <4>1
        <5>2. window[u].count \in Nat
          BY Types
        <5> QED BY <5>1, <5>2
      <4>2. CASE w = window[u]
        <5>1. w.count = window[u].count
          BY <4>2
        <5> QED BY <1>w, <3>1, <3>2, <5>1
      <4> QED BY <2>1, <2>3, <4>1, <4>2 DEF Recorded
    <3>4. Among(f, m, Since(i), j) >= Threshold * Within(sg, i, j)
      BY <1>m, <3>1, <3>3
    <3>5. \A k \in 0..n : Among(g, k, Since(i), j) = Among(f, k, Since(i), j)
      BY <1>i, <3>1, <3>2, WithinAppend
    <3>t. /\ Within(sg, i, j) \in Nat /\ Threshold \in Nat /\ Threshold * Within(sg, i, j) \in Nat
          /\ Among(f, m, Since(i), j) \in Nat /\ Among(g, n + 1, Since(i), j) \in Nat
      <4>1. Within(sg, i, j) \in Nat /\ Threshold \in Nat
        BY <3>2, WithinIsAmong, AnomalyAssumption
      <4>2. n + 1 \in Nat
        BY <3>2
      <4> QED BY <3>3, <4>1, <4>2, AmongType
    <3>6. CASE window'[u].count = w.count + 1 /\ signals'[u] = signals[u]
      <4>1. Len(failures'[u]) - window'[u].count = m
        <5>1. Len(failures'[u]) = n + 1 /\ window'[u].count = w.count + 1
          BY <3>1, <3>2, <3>6
        <5>2. m = n - w.count
          BY <3>1
        <5>3. PICK c : c = w.count
          OBVIOUS
        <5>4. m = n - c /\ c \in Nat /\ window'[u].count = c + 1
          BY <3>2, <5>1, <5>2, <5>3
        <5>5. (n + 1) - (c + 1) = n - c
          BY <3>2, <5>4
        <5> QED BY <5>1, <5>4, <5>5
      <4>2. Among(g, m, Since(i), j) = Among(f, m, Since(i), j)
        BY <3>2, <3>3, <3>5
      <4> QED BY <3>1, <3>4, <3>6, <4>1, <4>2
    <3>7. CASE w.count + 1 = Threshold /\ window'[u].count = 0 /\ signals'[u] = Append(signals[u], now)
      <4>1. Len(failures'[u]) - window'[u].count = n + 1
        BY <3>1, <3>2, <3>7
      <4>2. signals'[u] = Append(sg, now)
        BY <3>1, <3>7
      <4>g. SUFFICES Among(g, n + 1, Since(i), j) >= Threshold * Within(Append(sg, now), i, j)
        BY <3>1, <4>1, <4>2
      <4>5. Among(g, m, Since(i), j) = Among(f, m, Since(i), j)
        BY <3>2, <3>3, <3>5
      <4>3. CASE now \notin i..j
        <5>1. Within(Append(sg, now), i, j) = Within(sg, i, j)
          BY <1>i, <3>2, <4>3, WithinAppend
        <5>2. Among(g, m, Since(i), j) <= Among(g, n + 1, Since(i), j)
          <6>1. n + 1 \in Nat /\ \A k \in 1..m : k \in 1..(n + 1)
            BY <3>2, <3>3
          <6> QED BY <3>3, <6>1, AmongMore
        <5> QED BY <3>4, <3>t, <4>5, <5>1, <5>2
      <4>4. CASE now \in i..j
        \* The failures of the signalled window are of the last Window ticks.
        <5>1. \A k \in 1..(n + 1) : k > m => g[k] \in Since(i)..j
          <6>1. w.start >= Since(i) /\ w.start <= now /\ now <= j
            <7>1. i <= now /\ now <= j /\ Window \in Nat
              BY <1>i, <3>2, <4>4, AnomalyAssumption
            <7>2. CASE w.start = now
              BY <1>i, <3>2, <7>1, <7>2 DEF Since
            <7>3. CASE w = window[u] /\ w.count > 0 /\ now - w.start <= Window
              BY <1>i, <3>2, <7>1, <7>3 DEF Since, WindowInv
            <7> QED BY <2>1, <2>3, <7>1, <7>2, <7>3 DEF Recorded
          <6>2. ASSUME NEW k \in 1..(n + 1), k > m PROVE g[k] >= w.start /\ g[k] <= now
            <7>1. CASE k = n + 1
              BY <3>2, <3>s, <6>1, <7>1
            <7>2. CASE k \in 1..n
              <8>1. g[k] = f[k]
                BY <3>s, <7>2
              <8>2. f[k] <= now
                BY <3>1, <7>2 DEF PastInv
              <8>3. w.count # 0
                BY <3>1, <3>2, <6>2, <7>2
              <8>4. w = window[u]
                BY <2>1, <2>3, <8>3 DEF Recorded
              <8>6. k > Spent(u)
                BY <3>1, <6>2, <8>4 DEF Spent
              <8>5. f[k] >= w.start
                BY <3>1, <7>2, <8>4, <8>6 DEF WindowInv
              <8> QED BY <8>1, <8>2, <8>5
            <7> QED BY <3>2, <7>1, <7>2
          <6> QED BY <1>i, <3>2, <3>s, <6>1, <6>2
        <5>2. Among(g, n + 1, Since(i), j) = Among(g, m, Since(i), j) + ((n + 1) - m)
          <6>1. PICK q, from : q = n + 1 /\ from = Since(i)
            OBVIOUS
          <6>2. q \in Nat /\ m \in Nat /\ m <= q /\ \A k \in 1..q : k > m => g[k] \in from..j
            BY <3>2, <3>3, <5>1, <6>1
          <6>3. Among(g, q, from, j) = Among(g, m, from, j) + (q - m)
            BY <6>2, AmongStretch
          <6> QED BY <6>1, <6>3
        <5>4. (n + 1) - m = Threshold
          BY <3>1, <3>2, <3>7
        <5>5. Within(Append(sg, now), i, j) = Within(sg, i, j) + 1
          BY <1>i, <3>2, <4>4, WithinAppend
        <5>6. Threshold * (Within(sg, i, j) + 1) = Threshold * Within(sg, i, j) + Threshold
          BY <3>t, ThresholdMore
        <5> QED BY <3>4, <3>t, <4>5, <5>2, <5>4, <5>5, <5>6
      <4> QED BY <4>3, <4>4
    <3> QED BY <2>1, <2>3, <3>6, <3>7, RecordedOwn
  <2> QED BY <2>2, <2>3
<1> QED BY <1>1, <1>2, <1>3, <1>4 DEF Next

\* The property counts all the failures, those of the open window too.
LEMMA SignalsMeanBursts ==
    ASSUME TypeOK, WindowInv, SignalInv PROVE SignalMeansBurst
<1> SUFFICES ASSUME NEW t \in Tokens, NEW i \in Time, NEW j \in i..Horizon
             PROVE  Within(failures[t], Since(i), j) >= Threshold * Within(signals[t], i, j)
  BY DEF SignalMeansBurst, FailuresIn, SignalsIn, Since
<1>1. j \in Time /\ i \in Nat
  BY Types DEF Time
<1>2. Among(failures[t], Spent(t), Since(i), j) >= Threshold * Within(signals[t], i, j)
  BY <1>1 DEF SignalInv, SignalsIn
<1>3. Spent(t) \in Nat /\ Spent(t) <= Len(failures[t])
  BY Types DEF WindowInv, Spent
<1>4. Among(failures[t], Spent(t), Since(i), j) <= Among(failures[t], Len(failures[t]), Since(i), j)
  BY <1>3, Types, AmongMore
<1>5. Among(failures[t], Spent(t), Since(i), j) \in Nat /\ Among(failures[t], Len(failures[t]), Since(i), j) \in Nat
  BY <1>3, Types, AmongType
<1>6. Within(failures[t], Since(i), j) = Among(failures[t], Len(failures[t]), Since(i), j)
      /\ Within(signals[t], i, j) \in Nat
  BY Types, WithinIsAmong
<1>7. Threshold * Within(signals[t], i, j) \in Nat
  BY <1>6, AnomalyAssumption
<1> QED BY <1>2, <1>4, <1>5, <1>6, <1>7

--------------------------------------------------------------------------------
(* A long enough burst is signalled.                                        *)

\* Nothing recorded is later than n, so the range may end anywhere after it.
LEMMA WithinLater ==
    ASSUME NEW s \in Seq(Nat), NEW n \in Nat, \A k \in 1..Len(s) : s[k] <= n,
           NEW i \in Nat, NEW a \in Nat, a >= n
    PROVE  /\ Within(s, i, a) = Within(s, i, n)
           /\ i > n => Within(s, i, a) = 0
<1>1. Len(s) \in Nat /\ \A k \in 1..Len(s) : s[k] \in Nat
  OBVIOUS
<1>2. Within(s, i, a) = Among(s, Len(s), i, a) /\ Within(s, i, n) = Among(s, Len(s), i, n)
  BY WithinIsAmong
<1>3. Hits(s, Len(s), i, a) = Hits(s, Len(s), i, n)
  BY <1>1 DEF Hits
<1>4. ASSUME i > n PROVE Among(s, Len(s), i, a) = 0
  <2>1. \A k \in 1..Len(s) : s[k] \notin i..a
    BY <1>1, <1>4
  <2> QED BY <1>1, <2>1, AmongNone
<1> QED BY <1>2, <1>3, <1>4 DEF Among

LEMMA BurstStep ==
    ASSUME TypeOK, TypeOK', PastInv, WindowInv, BurstInv, [Next]_vars PROVE BurstInv'
<1> DEFINE Room(t, i) == IF window[t].count > 0 /\ window[t].start >= i THEN Threshold - 1 ELSE 0
           Good(t, i) == now <= i + Window /\ lost \cap (i..now) = {} /\ Within(signals[t], i, now) = 0 =>
                            Within(failures[t], i, now) <= window[t].count + Room(t, i)
<1> SUFFICES ASSUME NEW u \in Tokens, NEW i \in 0..now' PROVE Good(u, i)'
  BY DEF BurstInv, SignalsIn, FailuresIn
<1>0. ASSUME i \in 0..now PROVE Good(u, i)
  BY <1>0 DEF BurstInv, SignalsIn, FailuresIn
<1>i. i \in Nat /\ now \in Nat /\ Window \in Nat /\ Threshold \in Nat \ {0}
  BY Types
<1>1. CASE UNCHANGED vars
  BY <1>0, <1>1 DEF vars
<1>2. CASE Tick
  <2>1. /\ now' = now + 1 /\ window' = window /\ failures' = failures /\ signals' = signals /\ lost' = lost
    BY <1>2 DEF Tick
  <2>2. PICK f, sg : f = failures[u] /\ sg = signals[u]
    OBVIOUS
  <2>3. /\ f \in Seq(Nat) /\ \A k \in 1..Len(f) : f[k] <= now
        /\ sg \in Seq(Nat) /\ \A k \in 1..Len(sg) : sg[k] <= now
    BY <2>2, Types DEF PastInv
  <2>4. now + 1 \in Nat /\ now + 1 >= now
    BY <1>i
  <2>5. /\ Within(f, i, now + 1) = Within(f, i, now) /\ Within(sg, i, now + 1) = Within(sg, i, now)
        /\ i > now => Within(f, i, now + 1) = 0
    <3>1. PICK m, a : m = now /\ a = now + 1
      OBVIOUS
    <3>2. m \in Nat /\ a \in Nat /\ a >= m /\ (\A k \in 1..Len(f) : f[k] <= m) /\ (\A k \in 1..Len(sg) : sg[k] <= m)
      BY <1>i, <2>3, <2>4, <3>1
    <3>3. Within(f, i, a) = Within(f, i, m) /\ (i > m => Within(f, i, a) = 0)
      <4>1. i \in Nat /\ f \in Seq(Nat)
        BY <1>i, <2>3
      <4> QED BY <3>2, <4>1, WithinLater
    <3>4. Within(sg, i, a) = Within(sg, i, m)
      BY <1>i, <2>3, <3>2, WithinLater
    <3> QED BY <3>1, <3>3, <3>4
  <2>6. CASE i \in 0..now
    <3>1. Good(u, i)
      BY <1>0, <2>6
    <3>2. i..now \subseteq i..(now + 1) /\ (now + 1 <= i + Window => now <= i + Window)
      BY <1>i
    <3> QED BY <2>1, <2>2, <2>5, <3>1, <3>2
  <2>7. CASE i > now
    <3>1. Within(f, i, now + 1) = 0
      BY <2>5, <2>7
    <3>2. window[u].count \in Nat /\ Room(u, i) \in Nat
      BY <1>i, Types
    <3> HIDE DEF Room
    <3>3. 0 <= window[u].count + Room(u, i)
      BY <3>2
    <3>4. Room(u, i)' = Room(u, i)
      BY <2>1 DEF Room
    <3> QED BY <2>1, <2>2, <3>1, <3>3, <3>4
  <2> QED BY <1>i, <2>6, <2>7
<1>3. CASE Restart
  <2>1. now \in lost' /\ now' = now
    BY <1>3 DEF Restart
  <2>2. now \in i..now
    BY <1>i, <2>1
  <2> QED BY <2>1, <2>2
<1>4. ASSUME NEW t \in Tokens, RecordValidationFailure(t) PROVE Good(u, i)'
  <2>1. PICK w : Recorded(t, w)
    BY <1>4, RecordIs
  <2>2. now' = now /\ lost' = lost
    BY <2>1 DEF Recorded
  <2>3. Good(u, i)
    BY <1>0, <2>2
  <2>4. CASE u # t
    BY <2>1, <2>2, <2>3, <2>4, RecordedOwn
  <2>5. CASE u = t
    <3>1. PICK f, sg : f = failures[u] /\ sg = signals[u]
      OBVIOUS
    <3>2. /\ f \in Seq(Nat) /\ sg \in Seq(Nat) /\ failures'[u] = Append(f, now) /\ now \in i..now
      <4>1. now \in i..now
        BY <1>i, <2>2
      <4>2. f \in Seq(Nat) /\ sg \in Seq(Nat)
        BY <3>1, Types
      <4>3. failures'[u] = Append(f, now)
        BY <2>1, <2>5, <3>1, RecordedOwn
      <4> QED BY <4>1, <4>2, <4>3
    <3>3. Within(Append(f, now), i, now) = Within(f, i, now) + 1
          /\ Within(Append(sg, now), i, now) = Within(sg, i, now) + 1
      BY <1>i, <3>2, WithinAppend
    <3>4. Within(f, i, now) \in Nat /\ Within(sg, i, now) \in Nat
      BY <3>2, WithinIsAmong
    <3>5. CASE signals'[u] = Append(signals[u], now)
      <4>1. Within(signals'[u], i, now) # 0
        BY <3>1, <3>3, <3>4, <3>5
      <4> QED BY <2>2, <4>1
    <3>6. CASE /\ w.count + 1 < Threshold /\ signals'[u] = signals[u]
               /\ window'[u].count = w.count + 1 /\ window'[u].start = w.start
      <4>1. SUFFICES ASSUME now <= i + Window, lost \cap (i..now) = {}, Within(sg, i, now) = 0
                     PROVE  Within(f, i, now) + 1 <= (w.count + 1) +
                                (IF w.count + 1 > 0 /\ w.start >= i THEN Threshold - 1 ELSE 0)
        BY <2>2, <3>1, <3>2, <3>3, <3>6
      <4>2. Within(f, i, now) <= window[u].count + Room(u, i)
        BY <2>3, <3>1, <4>1
      <4>3. /\ window[u].count \in Nat /\ window[u].start \in Nat /\ window[u].count <= Threshold - 1
            /\ w.count \in Nat /\ w.start \in Nat
        BY <2>1, <2>5, RecordedOwn, Types
      <4>4. CASE w = window[u] /\ w.count > 0
        <5>1. w.count = window[u].count /\ w.start = window[u].start
          BY <4>4
        <5> QED BY <1>i, <3>4, <4>2, <4>3, <4>4, <5>1
      <4>5. CASE w.count = 0 /\ w.start = now /\ (window[u].count = 0 \/ now - window[u].start > Window)
        <5>1. ~(window[u].count > 0 /\ window[u].start >= i)
          BY <1>i, <4>1, <4>3, <4>5
        <5>2. Within(f, i, now) <= Threshold - 1
          BY <1>i, <3>4, <4>2, <4>3, <5>1
        <5>3. now >= i
          BY <1>i, <2>2
        <5> QED BY <1>i, <3>4, <4>5, <5>2, <5>3
      <4> QED BY <2>1, <2>5, <4>4, <4>5 DEF Recorded
    <3> QED BY <2>1, <2>5, <3>5, <3>6, RecordedOwn
  <2> QED BY <2>4, <2>5
<1> QED BY <1>1, <1>2, <1>3, <1>4 DEF Next

\* A range that is not over yet has it from the open window.
LEMMA OpenRange ==
    ASSUME TypeOK, BurstInv, NEW t \in Tokens, NEW i \in 0..now, now <= i + Window
    PROVE  Signalled(t, i, now)
<1>1. SUFFICES ASSUME Within(failures[t], i, now) >= 2 * Threshold - 1, lost \cap (i..now) = {},
                      ~(Within(signals[t], i, now) > 0)
               PROVE  FALSE
  BY DEF Signalled, FailuresIn, SignalsIn
<1>2. Within(signals[t], i, now) \in Nat /\ Within(failures[t], i, now) \in Nat
  BY Types, WithinIsAmong
<1>3. Within(signals[t], i, now) = 0
  BY <1>1, <1>2
<1>4. Within(failures[t], i, now) <= window[t].count +
          (IF window[t].count > 0 /\ window[t].start >= i THEN Threshold - 1 ELSE 0)
  BY <1>1, <1>3 DEF BurstInv, FailuresIn, SignalsIn
<1>5. window[t].count \in Nat /\ window[t].count <= Threshold - 1 /\ Threshold \in Nat \ {0}
  BY Types
<1> QED BY <1>1, <1>2, <1>4, <1>5

LEMMA GoneByStep ==
    ASSUME TypeOK, TypeOK', BurstInv, GoneByInv, [Next]_vars PROVE GoneByInv'
<1> SUFFICES ASSUME NEW u \in Tokens, NEW i \in 0..now', i + Window < now'
             PROVE  Signalled(u, i, i + Window)'
  BY DEF GoneByInv
<1>i. i \in Nat /\ now \in Nat /\ Window \in Nat /\ i + Window \in Nat
  BY Types
<1>1. CASE UNCHANGED vars
  BY <1>1 DEF vars, GoneByInv, Signalled, FailuresIn, SignalsIn
<1>2. CASE Tick
  <2>1. now' = now + 1 /\ UNCHANGED <<failures, signals, lost>>
    BY <1>2 DEF Tick
  <2>2. i \in 0..now /\ (i + Window < now \/ i + Window = now)
    BY <1>i, <2>1
  <2>3. Signalled(u, i, i + Window)
    BY <1>i, <2>2, OpenRange DEF GoneByInv
  <2> QED BY <2>1, <2>3 DEF Signalled, FailuresIn, SignalsIn
<1>3. CASE Restart
  <2>1. now' = now /\ lost \subseteq lost' /\ UNCHANGED <<failures, signals>>
    BY <1>3 DEF Restart
  <2>2. Signalled(u, i, i + Window)
    BY <2>1 DEF GoneByInv
  <2> QED BY <2>1, <2>2 DEF Signalled, FailuresIn, SignalsIn
<1>4. ASSUME NEW t \in Tokens, RecordValidationFailure(t) PROVE Signalled(u, i, i + Window)'
  <2>1. PICK w : Recorded(t, w)
    BY <1>4, RecordIs
  <2>2. now' = now /\ lost' = lost
    BY <2>1 DEF Recorded
  <2>3. Signalled(u, i, i + Window)
    BY <2>2 DEF GoneByInv
  <2>4. PICK f, sg : f = failures[u] /\ sg = signals[u]
    OBVIOUS
  <2>5. f \in Seq(Nat) /\ sg \in Seq(Nat) /\ now \notin i..(i + Window)
    BY <1>i, <2>2, <2>4, Types
  <2>6. Within(Append(f, now), i, i + Window) = Within(f, i, i + Window)
        /\ Within(Append(sg, now), i, i + Window) = Within(sg, i, i + Window)
    BY <1>i, <2>5, WithinAppend
  <2>7. (failures'[u] = f \/ failures'[u] = Append(f, now)) /\ (signals'[u] = sg \/ signals'[u] = Append(sg, now))
    BY <2>1, <2>4, RecordedOwn
  <2>8. Within(failures'[u], i, i + Window) = Within(f, i, i + Window)
        /\ Within(signals'[u], i, i + Window) = Within(sg, i, i + Window)
    BY <2>6, <2>7
  <2> QED BY <2>2, <2>3, <2>4, <2>8 DEF Signalled, FailuresIn, SignalsIn
<1> QED BY <1>1, <1>2, <1>3, <1>4 DEF Next

LEMMA BurstsSignalled ==
    ASSUME TypeOK, BurstInv, GoneByInv PROVE BurstSignalled
<1> SUFFICES ASSUME NEW t \in Tokens, NEW i \in 0..now
             PROVE  Signalled(t, i, IF i + Window < now THEN i + Window ELSE now)
  BY DEF BurstSignalled, Signalled
<1>1. CASE i + Window < now
  BY <1>1 DEF GoneByInv
<1>2. CASE ~(i + Window < now)
  BY <1>2, Types, OpenRange
<1> QED BY <1>1, <1>2

--------------------------------------------------------------------------------
(* The theorems.                                                            *)

LEMMA InitInv == Init => IInv
<1> SUFFICES ASSUME Init PROVE IInv
  OBVIOUS
<1>1. TypeOK
  <2>1. NoWindow \in Window0 /\ 0 \in Time
    BY AnomalyAssumption DEF NoWindow, Window0, Time
  <2> QED BY <2>1 DEF Init, TypeOK, Window0
<1>2. \A t \in Tokens : /\ failures[t] = <<>> /\ signals[t] = <<>> /\ window[t].count = 0
                        /\ Len(failures[t]) = 0 /\ Len(signals[t]) = 0
  BY DEF Init, NoWindow
<1>3. PastInv /\ WindowInv
  BY <1>2 DEF Init, PastInv, WindowInv, Spent
<1>4. \A i, j : Within(<<>>, i, j) = 0 /\ Among(<<>>, 0, i, j) = 0
  <2> SUFFICES ASSUME NEW i, NEW j PROVE Within(<<>>, i, j) = 0 /\ Among(<<>>, 0, i, j) = 0
    OBVIOUS
  <2>1. Among(<<>>, 0, i, j) = 0
    BY AmongNone
  <2>2. <<>> \in Seq(Nat) /\ Len(<<>>) = 0
    OBVIOUS
  <2>3. PICK e : e = <<>>
    OBVIOUS
  <2>4. Within(e, i, j) = Among(e, Len(e), i, j)
    BY <2>2, <2>3, WithinIsAmong
  <2> QED BY <2>1, <2>2, <2>3, <2>4
<1>5. SignalInv
  <2>1. \A t \in Tokens : Spent(t) = 0
    BY <1>2 DEF Spent
  <2>2. Threshold * 0 = 0
    BY AnomalyAssumption
  <2> QED BY <1>2, <1>4, <2>1, <2>2 DEF SignalInv, SignalsIn
<1>6. BurstInv
  BY <1>2, <1>4, AnomalyAssumption DEF BurstInv, FailuresIn, SignalsIn
<1>7. GoneByInv
  BY AnomalyAssumption DEF GoneByInv, Init
<1> QED BY <1>1, <1>3, <1>5, <1>6, <1>7 DEF IInv

LEMMA NextInv == IInv /\ [Next]_vars => IInv'
BY TypeStep, PastStep, WindowStep, SignalStep, BurstStep, GoneByStep DEF IInv

\* The strengthening the invariants below are proved from: the open window
\* counts the last failures, those before it have paid for the signals, and a
\* burst no signal has answered still fits in two windows.
THEOREM InductiveInvariant == Spec => []IInv
BY InitInv, NextInv, PTL DEF Spec

\* No reachable window of the tracker holds as many as the threshold, and every
\* failure and signal is of a tick of the run.
THEOREM TypeCorrect == Spec => []TypeOK
<1>1. IInv => TypeOK
  BY DEF IInv
<1> QED BY <1>1, InductiveInvariant, PTL

\* The tracker never cries wolf: each signal from any tick on stands for
\* Threshold failures of its own, none more than a window older than that tick,
\* however the windows rolled over and whenever the process restarted.
THEOREM SignalsAreEarned == Spec => []SignalMeansBurst
<1>1. IInv => SignalMeansBurst
  BY SignalsMeanBursts DEF IInv
<1> QED BY <1>1, InductiveInvariant, PTL

\* A burst cannot hide: 2 * Threshold - 1 failures of a token within a window's
\* length and one process lifetime are signalled, wherever the windows began.
THEOREM BurstsAreNoticed == Spec => []BurstSignalled
<1>1. IInv => BurstSignalled
  BY BurstsSignalled DEF IInv
<1> QED BY <1>1, InductiveInvariant, PTL

================================================================================
