--------------------------- MODULE DocumentNumbers ---------------------------
(***************************************************************************)
(* What document numbering promises, whoever numbers the entries: in each  *)
(* series (branch, type and year: PAY-2026-00001) the numbers are given    *)
(* out one after the other from 1, each to one entry, for ever.            *)
(***************************************************************************)
EXTENDS Naturals, Functions

CONSTANTS Entry, Series, NoSeries, MaxBatch

VARIABLES
  last,     \* last number given out in each series
  series,   \* series of the number of each entry
  number    \* number of each entry, 0 when it has none

vars == <<last, series, number>>

Init ==
  /\ last = [s \in Series |-> 0]
  /\ series = [e \in Entry |-> NoSeries]
  /\ number = [e \in Entry |-> 0]

\* One transaction numbers the entries S, which had no number; place is their
\* order in the batch.
Issue(s, S, count, place) ==
  /\ place \in Bijection(S, 1 .. count)
  /\ \A e \in S : number[e] = 0
  /\ last' = [last EXCEPT ![s] = @ + count]
  /\ series' = [e \in Entry |-> IF e \in S THEN s ELSE series[e]]
  /\ number' = [e \in Entry |-> IF e \in S THEN last[s] + place[e] ELSE number[e]]

Next ==
  \E s \in Series, S \in SUBSET Entry :
    \E count \in 1 .. MaxBatch : \E place \in Bijection(S, 1 .. count) : Issue(s, S, count, place)

Spec == Init /\ [][Next]_vars

-----------------------------------------------------------------------------
TypeOK ==
  /\ last \in [Series -> Nat]
  /\ series \in [Entry -> Series \cup {NoSeries}]
  /\ number \in [Entry -> Nat]

\* The numbers of a series are 1 .. last without a gap, and no two entries share
\* one: the unique index uq_entries_branch_document_number never fails.
Sequential ==
  /\ \A s \in Series : \A n \in 1 .. last[s] : \E e \in Entry : series[e] = s /\ number[e] = n
  /\ \A e \in Entry : number[e] > 0 => series[e] \in Series /\ number[e] <= last[series[e]]
  /\ \A e, f \in Entry :
       number[e] > 0 /\ number[f] = number[e] /\ series[f] = series[e] => e = f

\* An entry keeps its number for ever.
NumberIsForever ==
  [][\A e \in Entry : number[e] > 0 => number'[e] = number[e] /\ series'[e] = series[e]]_vars
==============================================================================
