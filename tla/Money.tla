------------------------------- MODULE Money -------------------------------
(***************************************************************************)
(* Exact decimal arithmetic of an invoice, erp/services.py _calculate.     *)
(*                                                                         *)
(* An amount is a whole number of ticks, a tick being the smallest unit    *)
(* the finest precision can write.  A line keeps what the calculation      *)
(* reads of it: "exact", quantity * price * (1 - discount) before any      *)
(* rounding, counted in 1/Grain of a tick, and "rate", the tax rate in     *)
(* per cent.  The 50 digits of the decimal context make that product       *)
(* exact, so rounding is the only place where a digit is lost.             *)
(***************************************************************************)
EXTENDS Integers, SequencesExt

CONSTANTS
  MaxPrecision,  \* the finest precision a company may choose (4 in the code)
  Grain,         \* how finely an exact product is written, per tick
  MaxAmount,     \* MAX_AMOUNT, in ticks
  MaxLines       \* the longest invoice accepted (200 in the code)

ASSUME MoneyAssumption ==
  /\ MaxPrecision \in Nat
  /\ Grain \in Nat \ {0}
  /\ MaxAmount \in Nat \ {0}
  /\ MaxLines \in Nat \ {0}

Precisions == 0 .. MaxPrecision
Amounts == 0 .. MaxAmount

Line == [exact : Nat, rate : 0 .. 100]

\* The smallest amount, in ticks, that an amount of precision p may differ by.
TenTo[n \in Precisions] == IF n = 0 THEN 1 ELSE 10 * TenTo[n - 1]
Quantum(p) == TenTo[MaxPrecision - p]

\* The multiple of q closest to num / den, ties going up: quantize with ROUND_HALF_UP
\* on the amounts of this code, which are never negative.
RoundHalfUp(num, den, q) == q * ((2 * num + den * q) \div (2 * den * q))

\* The tax is a percentage of the net amount already rounded.
LineNet(line, p) == RoundHalfUp(line.exact, Grain, Quantum(p))
LineTax(line, p) == RoundHalfUp(LineNet(line, p) * line.rate, 100, Quantum(p))

Net(lines, p) == SumFunction([n \in DOMAIN lines |-> LineNet(lines[n], p)])
Tax(lines, p) == SumFunction([n \in DOMAIN lines |-> LineTax(lines[n], p)])

\* _calculate accepts the lines: at least one, not too many, and neither a line nor the
\* whole beyond MAX_AMOUNT.
CalculableByLine(lines, p) ==
  /\ Len(lines) \in 1 .. MaxLines
  /\ \A n \in DOMAIN lines : LineNet(lines[n], p) + LineTax(lines[n], p) \in Amounts
Calculable(lines, p) ==
  /\ Len(lines) \in 1 .. MaxLines
  /\ \A n \in DOMAIN lines : LineNet(lines[n], p) + LineTax(lines[n], p) \in Amounts
  /\ Net(lines, p) \in Amounts
  /\ Tax(lines, p) \in Amounts
  /\ Net(lines, p) + Tax(lines, p) \in Amounts
=============================================================================
