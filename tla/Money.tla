-------------------------------- MODULE Money --------------------------------
(***************************************************************************)
(* Amounts of money, in cents: DECIMAL(15,2) columns and the decimal.js    *)
(* values computed from them are exact, so a natural number of cents is.   *)
(*                                                                         *)
(* SumAmount is what SQL's SUM(amount) and the reduce over decimal.js      *)
(* values compute.  It counts cents instead of folding over the set, so    *)
(* that the facts about it follow from those about cardinalities.          *)
(***************************************************************************)
EXTENDS Naturals, FiniteSets

\* The cents of one payment, told apart from those of every other payment.
Cents(p) == {p} \X (1 .. p.amount)

\* SUM(amount) over a set of payments.
SumAmount(S) == Cardinality(UNION {Cents(p) : p \in S})

\* Mutant of DetermineStatus: an entry paid to the last cent is still PARTIAL.
DetermineStatusOver(amount, paid) ==
  IF amount < paid THEN "PAID"
  ELSE IF paid > 0 THEN "PARTIAL" ELSE "PENDING"

\* PaymentCalculator.determineStatus: what is left to pay decides.
DetermineStatus(amount, paid) ==
  IF amount <= paid THEN "PAID"
  ELSE IF paid > 0 THEN "PARTIAL" ELSE "PENDING"

\* EntryCalculator.calculateInstallments: equal shares rounded down to the
\* cent, the last share takes the remainder.
Installment(total, count, i) ==
  LET base == total \div count
  IN  IF i < count THEN base ELSE total - base * (count - 1)
==============================================================================
