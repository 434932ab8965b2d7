--------------------------------- MODULE Money ---------------------------------
(* Percentages of money in cents (src/src/shared/utils/money.ts).  TLC's \div  *)
(* rounds down and wants a positive divisor; the code's division truncates.    *)
EXTENDS Integers

floorDiv(dividend, divisor) ==
    IF divisor > 0 THEN dividend \div divisor ELSE (-dividend) \div (-divisor)

floorPercent(part, whole) == IF whole = 0 THEN 0 ELSE floorDiv(part * 100, whole)

\* In tenths of a percent, halves up.
roundPercentToTenth(part, whole) ==
    IF whole = 0 THEN 0 ELSE floorDiv(part * 2000 + whole, whole * 2)
=============================================================================
