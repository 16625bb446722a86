-------------------------------- MODULE Money -------------------------------
(* Exact decimal amounts (core/money): a whole number of units of 10^-scale of an asset.   *)
(* One amount is held and the operations of the crate are applied to it, one after another. *)
EXTENDS Integers, SequencesExt

CONSTANTS MaxDigits,     \* of a coefficient: 128 in the code
          MaxScale,      \* 38
          MaxInput,      \* 192
          Assets,
          Texts,         \* what is read, as sequences of characters
          Operands       \* the texts of the amounts that are added and subtracted

(* Every amount has a text short enough to be read back. *)
ASSUME MoneyAssumption ==
  /\ MaxDigits \in Nat \ {0} /\ MaxScale \in Nat
  /\ MaxInput \in Nat /\ MaxDigits + 2 =< MaxInput /\ MaxScale + 3 =< MaxInput
  /\ Texts \subseteq Seq(STRING) /\ Operands \subseteq Texts

VARIABLES text,          \* the text that was read
          amount         \* what came of the last call

moneyVars == <<text, amount>>

Digits == {"0", "1", "2", "3", "4", "5", "6", "7", "8", "9"}
Figures == <<"1", "2", "3", "4", "5", "6", "7", "8", "9">>
Figure(d) == IF d = "0" THEN 0 ELSE CHOOSE i \in 1 .. 9 : Figures[i] = d

Ok(x) == "units" \in DOMAIN x
Err(what) == [error |-> what]
ErrAt(what, at) == [error |-> what, at |-> at]

(* As high as a sum of two rescaled coefficients, or the number of a text, goes. *)
Highest == MaxInput + MaxScale + 1

Pow10[e \in 0 .. Highest] == IF e = 0 THEN 1 ELSE 10 * Pow10[e - 1]

Magnitude(units) == IF units < 0 THEN -units ELSE units

(* The digits of a magnitude; zero has one. *)
DigitCount(units) == CHOOSE n \in 1 .. Highest :
  Magnitude(units) < Pow10[n] /\ (n = 1 \/ Pow10[n - 1] =< Magnitude(units))

DigitAt(units, i) == LET f == (Magnitude(units) \div Pow10[i]) % 10 IN IF f = 0 THEN "0" ELSE Figures[f]

(* The only validating constructor: digits before scale. *)
Checked(asset, units, scale) ==
  IF DigitCount(units) > MaxDigits THEN Err("TooManyDigits")
  ELSE IF scale > MaxScale THEN Err("ScaleTooLarge")
  ELSE [asset |-> asset, units |-> units, scale |-> scale]

------------------------------------------------------------------------------
(* Reading and writing. *)

(* The run of digits after the first n characters ends after the m-th. *)
RunEnd(s, n) == CHOOSE m \in n .. Len(s) :
  /\ \A i \in n + 1 .. m : s[i] \in Digits
  /\ m = Len(s) \/ s[m + 1] \notin Digits

(* A character that cannot be there; an exponent is told apart. *)
Misplaced(s, at) ==
  ErrAt(IF s[at + 1] \in {"e", "E"} THEN "ExponentNotation" ELSE "InvalidByte", at)

(* The number the digits among the first n characters spell. *)
DigitsValue(s, n) ==
  LET value[i \in 0 .. n] == IF i = 0 THEN 0
                             ELSE IF s[i] \in Digits THEN 10 * value[i - 1] + Figure(s[i])
                             ELSE value[i - 1]
  IN  value[n]

(* An optional sign, an integer without a leading zero, an optional point with at least   *)
(* one digit behind it; and no sign on a zero.                                             *)
Parse(asset, s) ==
  IF Len(s) > MaxInput THEN Err("InputTooLong")
  ELSE IF s = <<>> THEN Err("Empty")
  ELSE
  LET sign == IF s[1] = "-" THEN 1 ELSE 0
      int == RunEnd(s, sign)
      point == int < Len(s) /\ s[int + 1] = "."
      end == IF point THEN RunEnd(s, int + 1) ELSE int
      scale == IF point THEN end - int - 1 ELSE 0
      value == DigitsValue(s, end)
  IN  IF Len(s) = sign \/ s[sign + 1] = "." THEN Err("MissingIntegerPart")
      ELSE IF int = sign THEN ErrAt("InvalidByte", sign)
      ELSE IF s[sign + 1] = "0" /\ int > sign + 1 THEN ErrAt("LeadingZero", sign)
      ELSE IF point /\ Len(s) = int + 1 THEN Err("MissingFractionDigits")
      ELSE IF end < Len(s) THEN Misplaced(s, end)
      ELSE IF sign = 1 /\ value = 0 THEN Err("SignOnZero")
      ELSE Checked(asset, IF sign = 1 THEN -value ELSE value, scale)

Sign(a) == IF a.units < 0 THEN <<"-">> ELSE <<>>

(* A point `scale` places from the right, and zeros as far as there are too few digits. *)
Format(a) ==
  LET n == IF DigitCount(a.units) > a.scale THEN DigitCount(a.units) ELSE a.scale + 1
      int == [i \in 1 .. n - a.scale |-> DigitAt(a.units, n - i)]
      frac == [i \in 1 .. a.scale |-> DigitAt(a.units, a.scale - i)]
  IN  Sign(a) \o int \o (IF a.scale = 0 THEN <<>> ELSE <<".">> \o frac)

------------------------------------------------------------------------------
(* Arithmetic. *)

Larger(m, n) == IF m > n THEN m ELSE n

RescaleUnits(a, scale) == a.units * Pow10[scale - a.scale]

(* Two amounts that were good add up to one that is. *)
Add_unchecked(a, b) ==
  IF a.asset # b.asset THEN Err("AssetMismatch")
  ELSE LET scale == Larger(a.scale, b.scale)
       IN  [asset |-> a.asset, scale |-> scale,
            units |-> RescaleUnits(a, scale) + RescaleUnits(b, scale)]

Add(a, b) ==
  IF a.asset # b.asset THEN Err("AssetMismatch")
  ELSE LET scale == Larger(a.scale, b.scale)
           sum == Checked(a.asset, RescaleUnits(a, scale) + RescaleUnits(b, scale), scale)
       IN  IF sum = Err("TooManyDigits") THEN Err("CoefficientOverflow") ELSE sum

(* Not validated: a sign changes neither the digits nor the scale. *)
Neg(a) == [a EXCEPT !.units = -@]

Sub(a, b) == Add(a, Neg(b))

(* One comparison for Ord and Eq, by value. *)
CmpSameAsset(a, b) ==
  IF a.asset # b.asset THEN Err("AssetMismatch")
  ELSE LET scale == Larger(a.scale, b.scale)
           x == RescaleUnits(a, scale)
           y == RescaleUnits(b, scale)
       IN  [order |-> IF x < y THEN "Less" ELSE IF x > y THEN "Greater" ELSE "Equal"]

Eq(a, b) == CmpSameAsset(a, b) = [order |-> "Equal"]

(* The form as it is written. *)
Normalized_as_written(a) == [units |-> a.units, scale |-> a.scale]

(* What is hashed: the trailing zeros of the fraction are dropped. *)
Normalized(a) ==
  LET keep == CHOOSE s \in 0 .. a.scale :
                /\ a.units % Pow10[a.scale - s] = 0
                /\ s = 0 \/ a.units % Pow10[a.scale - s + 1] # 0
  IN  [units |-> IF a.units < 0 THEN -(Magnitude(a.units) \div Pow10[a.scale - keep])
                 ELSE a.units \div Pow10[a.scale - keep],
       scale |-> keep]

------------------------------------------------------------------------------
Fresh == Err("Empty")

MoneyInit == text = <<>> /\ amount = Fresh

Read_text(asset, s) == text' = s /\ amount' = Parse(asset, s)

(* An operand came over the wire, too. *)
Others == {x \in {Parse(asset, s) : asset \in Assets, s \in Operands} : Ok(x)}

Calculate ==
  /\ Ok(amount) /\ text' = <<>>
  /\ \/ \E b \in Others : amount' \in {c \in {Add(amount, b), Sub(amount, b)} : Ok(c)}
     \/ amount' = Neg(amount)

MoneyNext ==
  \/ amount = Fresh /\ text = <<>> /\ \E asset \in Assets, s \in Texts : Read_text(asset, s)
  \/ Calculate

MoneySpec == MoneyInit /\ [][MoneyNext]_moneyVars

------------------------------------------------------------------------------
(* The grammar, as the texts it generates. *)
Integral(s) == s # <<>> /\ ToSet(s) \subseteq Digits /\ (s[1] = "0" => Len(s) = 1)
Fraction(s) == s = <<>> \/ (Len(s) > 1 /\ s[1] = "." /\ ToSet(Tail(s)) \subseteq Digits)

Grammatical(s) ==
  \E n \in 0 .. Len(s) :
    LET whole == SubSeq(s, 1, n)
    IN  /\ Fraction(SubSeq(s, n + 1, Len(s)))
        /\ Integral(IF whole # <<>> /\ whole[1] = "-" THEN Tail(whole) ELSE whole)

Viable(s) == \E more \in {<<>>, <<"5">>, <<".", "5">>} : Grammatical(s \o more)

(* An amount and its text are one: a text the grammar has is read and written back byte    *)
(* for byte, one it has not is refused at the first character that cannot be there, and     *)
(* whatever sequence of operations made an amount, its text reads back as the same units    *)
(* and scale ("every live Amount ... always has a Display string the grammar in             *)
(* Amount::parse accepts", amount.rs:11-17).                                                *)
TextIsTheAmount ==
  /\ Ok(amount) => Parse(amount.asset, Format(amount)) = amount
  /\ Ok(amount) /\ text # <<>> => Grammatical(text) /\ Format(amount) = text
  /\ ~Ok(amount) /\ text # <<>> =>
       /\ amount.error \in {"SignOnZero", "TooManyDigits", "ScaleTooLarge"} =>
            Grammatical(text)
       /\ Grammatical(text) /\ Len(text) =< MaxInput =>
            amount.error \in {"SignOnZero", "TooManyDigits", "ScaleTooLarge"}
       /\ amount.error \in {"InvalidByte", "ExponentNotation"} =>
            /\ Viable(SubSeq(text, 1, amount.at)) \/ amount.at = Len(text)
            /\ ~Viable(SubSeq(text, 1, amount.at + 1))

(* What an amount is worth, in the smallest unit there is. *)
Worth(a) == a.units * Pow10[MaxScale - a.scale]

(* What is answered for a sum of two amounts. *)
SumIsExact(c, worth, scale) ==
  IF Ok(c) THEN Worth(c) = worth /\ c.scale = scale
  ELSE /\ c = Err("CoefficientOverflow")
       /\ Magnitude(worth) >= Pow10[MaxDigits] * Pow10[MaxScale - scale]

(* Arithmetic is exact or refused: a sum is worth its terms, at the finer of the scales,    *)
(* unless its coefficient has too many digits; and equal amounts, however they are written,  *)
(* hash alike (amount.rs:225-231, 319-339).                                                *)
ArithmeticIsExact ==
  Ok(amount) =>
    \A b \in Others :
      /\ b.asset # amount.asset =>
           /\ Add(amount, b) = Err("AssetMismatch") /\ Sub(amount, b) = Err("AssetMismatch")
           /\ ~Eq(amount, b)
      /\ b.asset = amount.asset =>
           LET scale == Larger(amount.scale, b.scale)
           IN  /\ SumIsExact(Add(amount, b), Worth(amount) + Worth(b), scale)
               /\ SumIsExact(Sub(amount, b), Worth(amount) - Worth(b), scale)
               /\ Eq(amount, b) <=> Worth(amount) = Worth(b)
               /\ Eq(amount, b) <=> Normalized(amount) = Normalized(b)
               /\ (CmpSameAsset(amount, b) = [order |-> "Less"]) <=> Worth(amount) < Worth(b)
=============================================================================
