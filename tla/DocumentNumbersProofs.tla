------------------------ MODULE DocumentNumbersProofs ------------------------
(***************************************************************************)
(* The numbering contract keeps its promises for every set of entries and  *)
(* of series.                                                              *)
(***************************************************************************)
EXTENDS DocumentNumbers, TLAPS

\* A batch has as many entries as numbers, each number once.
LEMMA BatchPlaces ==
  ASSUME NEW S, NEW count, NEW place \in Bijection(S, 1 .. count)
  PROVE  /\ place \in [S -> 1 .. count]
         /\ \A e, f \in S : place[e] = place[f] => e = f
         /\ \A i \in 1 .. count : \E e \in S : place[e] = i
BY DEF Bijection, Injection, Surjection, IsInjective

\* Counters, series and numbers are always well typed.
THEOREM NumbersTypeCorrect == Spec => []TypeOK
<1>1. Init => TypeOK
  BY DEF Init, TypeOK
<1>2. TypeOK /\ [Next]_vars => TypeOK'
  <2> SUFFICES ASSUME TypeOK, [Next]_vars PROVE TypeOK'
    OBVIOUS
  <2>1. CASE UNCHANGED vars
    BY <2>1 DEF TypeOK, vars
  <2>2. CASE Next
    <3>1. PICK s \in Series, S \in SUBSET Entry :
            \E count \in 1 .. MaxBatch :
              \E place \in Bijection(S, 1 .. count) : Issue(s, S, count, place)
      BY <2>2 DEF Next
    <3>2. PICK count \in 1 .. MaxBatch :
            \E place \in Bijection(S, 1 .. count) : Issue(s, S, count, place)
      BY <3>1
    <3>3. PICK place \in Bijection(S, 1 .. count) : Issue(s, S, count, place)
      BY <3>2
    <3>4. place \in [S -> 1 .. count]
      BY BatchPlaces
    <3>5. last' \in [Series -> Nat]
      BY <3>3 DEF TypeOK, Issue
    <3>6. number' \in [Entry -> Nat]
      BY <3>3, <3>4 DEF TypeOK, Issue
    <3>7. series' \in [Entry -> Series \cup {NoSeries}]
      BY <3>3 DEF TypeOK, Issue
    <3> QED
      BY <3>5, <3>6, <3>7 DEF TypeOK
  <2> QED
    BY <2>1, <2>2
<1> QED
  BY <1>1, <1>2, PTL DEF Spec

-----------------------------------------------------------------------------
\* One batch keeps every series free of gaps and duplicates: the new numbers
\* follow the last one, and nobody had them.
LEMMA IssueKeepsSequential ==
  ASSUME TypeOK, Sequential, NEW s \in Series, NEW S \in SUBSET Entry, NEW count \in Nat,
         NEW place \in Bijection(S, 1 .. count), Issue(s, S, count, place)
  PROVE  Sequential'
<1>1. /\ place \in [S -> 1 .. count]
      /\ \A e, f \in S : place[e] = place[f] => e = f
      /\ \A i \in 1 .. count : \E e \in S : place[e] = i
  BY BatchPlaces
<1>2. /\ last' = [last EXCEPT ![s] = @ + count]
      /\ \A e \in Entry : series'[e] = IF e \in S THEN s ELSE series[e]
      /\ \A e \in Entry : number'[e] = IF e \in S THEN last[s] + place[e] ELSE number[e]
      /\ \A e \in S : number[e] = 0
  BY DEF Issue
<1>3. /\ last \in [Series -> Nat]
      /\ number \in [Entry -> Nat]
      /\ \A t \in Series : last'[t] = IF t = s THEN last[s] + count ELSE last[t]
  BY <1>2 DEF TypeOK
<1>4. ASSUME NEW t \in Series, NEW n \in 1 .. last'[t]
      PROVE  \E e \in Entry : series'[e] = t /\ number'[e] = n
  <2>1. CASE n <= last[t]
    <3>1. PICK e \in Entry : series[e] = t /\ number[e] = n
      BY <1>3, <2>1 DEF Sequential
    <3>2. e \notin S
      BY <1>2, <3>1
    <3> QED
      BY <1>2, <3>1, <3>2
  <2>2. CASE n > last[t]
    <3>1. t = s /\ n - last[s] \in 1 .. count
      BY <1>3, <2>2
    <3>2. PICK e \in S : place[e] = n - last[s]
      BY <1>1, <3>1
    <3> QED
      BY <1>2, <1>3, <3>1, <3>2
  <2> QED
    BY <1>3, <2>1, <2>2
<1>5. ASSUME NEW e \in Entry, number'[e] > 0
      PROVE  series'[e] \in Series /\ number'[e] <= last'[series'[e]]
  <2>1. CASE e \in S
    BY <1>1, <1>2, <1>3, <2>1
  <2>2. CASE e \notin S
    BY <1>2, <1>3, <1>5, <2>2 DEF Sequential
  <2> QED
    BY <2>1, <2>2
<1>6. ASSUME NEW e \in Entry, NEW f \in Entry, number'[e] > 0,
             number'[f] = number'[e], series'[f] = series'[e]
      PROVE  e = f
  <2>1. CASE e \in S /\ f \in S
    BY <1>1, <1>2, <1>3, <1>6, <2>1
  <2>2. CASE e \notin S /\ f \notin S
    BY <1>2, <1>6, <2>2 DEF Sequential
  <2>3. ASSUME NEW g \in S, NEW h \in Entry \ S,
               number'[g] = number'[h], series'[g] = series'[h]
        PROVE  FALSE
    <3>1. series[h] = s /\ number[h] = last[s] + place[g]
      BY <1>2, <2>3
    <3>2. number[h] > last[s]
      BY <1>1, <1>3, <3>1
    <3>3. number[h] <= last[s]
      BY <1>3, <3>1, <3>2 DEF Sequential
    <3> QED
      BY <1>3, <3>2, <3>3
  <2> QED
    BY <1>6, <2>1, <2>2, <2>3
<1> QED
  BY <1>4, <1>5, <1>6 DEF Sequential

\* Every series is numbered 1 .. last without a gap or a duplicate.
THEOREM NumbersSequential == Spec => []Sequential
<1>1. Init => Sequential
  BY DEF Init, Sequential
<1>2. TypeOK /\ Sequential /\ [Next]_vars => Sequential'
  <2> SUFFICES ASSUME TypeOK, Sequential, [Next]_vars PROVE Sequential'
    OBVIOUS
  <2>1. CASE UNCHANGED vars
    BY <2>1 DEF Sequential, vars
  <2>2. CASE Next
    BY <2>2, IssueKeepsSequential DEF Next
  <2> QED
    BY <2>1, <2>2
<1> QED
  BY <1>1, <1>2, NumbersTypeCorrect, PTL DEF Spec

\* The step formula of NumberIsForever.
KeepsNumber == \A e \in Entry : number[e] > 0 => number'[e] = number[e] /\ series'[e] = series[e]

\* No step changes a number that was given out.
THEOREM NumbersAreForever == Spec => NumberIsForever
<1>1. TypeOK /\ [Next]_vars => [KeepsNumber]_vars
  BY DEF Next, Issue, KeepsNumber, TypeOK
<1> QED
  BY <1>1, NumbersTypeCorrect, PTL DEF Spec, NumberIsForever, KeepsNumber
==============================================================================
