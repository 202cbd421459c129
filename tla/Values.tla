------------------------------- MODULE Values -------------------------------
(***************************************************************************)
(* Temporal and decimal values on their way to Spanner and back            *)
(* (src/bind.rs, src/conversion.rs): an Arrow integer is bound as the text *)
(* Spanner takes, and a text Spanner sends is read as an Arrow integer.    *)
(*                                                                         *)
(* The integer widths and the decimal scales are constants, so that TLC    *)
(* can go to every edge of them.  A wire timestamp is its whole seconds    *)
(* since the epoch (the calendar fields are chrono's) and the digits after *)
(* the point; a wire decimal is its characters, digits as numbers.         *)
(***************************************************************************)
EXTENDS Integers, Sequences, SequencesExt

CONSTANTS
  NanoDigits, MicroDigits, MilliDigits,   \* decimal digits of each unit: 9, 6, 3
  MaxInt,          \* i64::MAX, and of the decimals i128::MAX
  MaxDay,          \* i32::MAX, of Date32
  DayMillis,       \* milliseconds in a day: 86_400_000
  Chrono,          \* what chrono can represent: in seconds of a timestamp, in days of a date
  FourDigits,      \* what of it has a year of four digits, 0000 to 9999
  NUMERIC_SCALE,   \* digits after the point of a NUMERIC: 9
  DecimalDigits,   \* the digits typed into a decimal text
  MaxText          \* bound: the length of a decimal text

VARIABLES
  input,   \* the value that is bound, or the text that is read
  wire,    \* what is sent
  pc

vars == <<input, wire, pc>>

ValuesAssumption ==
  /\ 0 < MilliDigits /\ MilliDigits < MicroDigits /\ MicroDigits < NanoDigits
  /\ {MaxInt, MaxDay, DayMillis, NUMERIC_SCALE, MaxText} \subseteq Nat
  /\ FourDigits \subseteq Chrono
  /\ DecimalDigits \subseteq 0..9

Pow10(n) == 10^n
Int64 == (-MaxInt - 1)..MaxInt
NoValue == [ok |-> FALSE, v |-> 0]
Value(v) == [ok |-> TRUE, v |-> v]
Checked(v) == IF v \in Int64 THEN Value(v) ELSE NoValue

Units == {"second", "millisecond", "microsecond", "nanosecond"}
UnitDigits(unit) ==
  CASE unit = "second" -> 0 [] unit = "millisecond" -> MilliDigits
    [] unit = "microsecond" -> MicroDigits [] unit = "nanosecond" -> NanoDigits

(* The number n written with exactly k digits. *)
Digit(n, k) == [i \in 1..k |-> (n \div Pow10(k - i)) % 10]
Number(digits) == FoldLeft(LAMBDA acc, d : acc * 10 + d, 0, digits)

-----------------------------------------------------------------------------
(* chrono: an instant is its floor seconds and a part of a second that is  *)
(* not negative; \div and % round that way.                                *)
from_timestamp(unit, v) ==
  LET per == Pow10(UnitDigits(unit)) IN [sec |-> v \div per, sub |-> v % per]

(* Mutant: the seconds are rounded toward zero. *)
timestamp_string_truncates(unit, v) ==
  LET per == Pow10(UnitDigits(unit))
      sec == IF v < 0 THEN -((-v) \div per) ELSE v \div per
      sub == IF v < 0 THEN (-v) % per ELSE v % per
  IN IF unit # "nanosecond" /\ sec \notin Chrono THEN NoValue
     ELSE Value([sec |-> sec, frac |-> Digit(sub, UnitDigits(unit))])

(* The text of an Arrow timestamp, with the digits of its unit. *)
timestamp_string(unit, v) ==
  LET ts == from_timestamp(unit, v)
  IN IF unit # "nanosecond" /\ ts.sec \notin Chrono THEN NoValue
     ELSE Value([sec |-> ts.sec, frac |-> Digit(ts.sub, UnitDigits(unit))])

(* A year is read at four digits.  The fraction is scaled up to            *)
(* nanoseconds by the digits it leaves out.                                *)
scan_timestamp_utc(w) ==
  IF w.sec \notin FourDigits \/ Len(w.frac) > NanoDigits THEN NoValue
  ELSE Value([sec |-> w.sec, nanos |-> Number(w.frac) * Pow10(NanoDigits - Len(w.frac))])

(* Mutant: a count that does not fit wraps. *)
parse_timestamp_nanos_wraps(w) ==
  LET t == scan_timestamp_utc(w)
      n == t.v.sec * Pow10(NanoDigits) + t.v.nanos
  IN IF ~t.ok THEN NoValue ELSE Value(((n + MaxInt + 1) % (2 * MaxInt + 2)) - MaxInt - 1)

parse_timestamp_nanos(w) ==
  LET t == scan_timestamp_utc(w)
  IN IF ~t.ok THEN NoValue ELSE Checked(t.v.sec * Pow10(NanoDigits) + t.v.nanos)

parse_timestamp_micros(w) ==
  LET t == scan_timestamp_utc(w)
  IN IF ~t.ok THEN NoValue
     ELSE Checked(t.v.sec * Pow10(MicroDigits) + t.v.nanos \div Pow10(NanoDigits - MicroDigits))

date64_days(millis) ==
  LET days == millis \div DayMillis
  IN IF days \in (-MaxDay - 1)..MaxDay THEN Value(days) ELSE NoValue

(* The text of a date is its day; a year of more digits has a sign.        *)
date_string(days) == IF days \in Chrono THEN Value(days) ELSE NoValue
parse_date_days(w) == IF w \in FourDigits THEN Value(w) ELSE NoValue

-----------------------------------------------------------------------------
(* Decimals: the characters are digits, Minus and Point. *)
Minus == -1
Point == -2

(* The shortest digits of n, at least one. *)
Decimal(n) ==
  LET k == CHOOSE j \in 1..10 : n < Pow10(j) /\ (j = 1 \/ n >= Pow10(j - 1)) IN Digit(n, k)

numeric_string(unscaled, scale) ==
  LET magnitude == IF unscaled < 0 THEN -unscaled ELSE unscaled
      sign == IF unscaled < 0 THEN <<Minus>> ELSE <<>>
  IN IF scale = 0 THEN sign \o Decimal(magnitude)
     ELSE sign \o Decimal(magnitude \div Pow10(scale)) \o <<Point>> \o Digit(magnitude % Pow10(scale), scale)

IsDigits(s) == \A i \in DOMAIN s : s[i] \in 0..9

(* Split at the first point, which must have digits on both sides; every   *)
(* product and sum is checked.                                             *)
parse_numeric_i128(t) ==
  LET negative == t # <<>> /\ t[1] = Minus
      bytes == IF negative THEN Tail(t) ELSE t
      points == {i \in DOMAIN bytes : bytes[i] = Point}
      at == IF points = {} THEN Len(bytes) + 1 ELSE CHOOSE i \in points : \A j \in points : i <= j
      int_part == SubSeq(bytes, 1, at - 1)
      frac_part == SubSeq(bytes, at + 1, Len(bytes))
      unscaled == Checked(Number(int_part) * Pow10(NUMERIC_SCALE)
                            + Number(frac_part) * Pow10(NUMERIC_SCALE - Len(frac_part)))
  IN IF \/ at = Len(bytes) /\ points # {}
        \/ int_part = <<>> \/ Len(frac_part) > NUMERIC_SCALE
        \/ ~IsDigits(int_part) \/ ~IsDigits(frac_part) \/ ~unscaled.ok
     THEN NoValue
     ELSE Value(IF negative THEN -unscaled.v ELSE unscaled.v)

-----------------------------------------------------------------------------
Inputs ==
  [kind : {"timestamp"}, unit : Units, v : Int64]
    \cup [kind : {"date64"}, v : Int64]
    \cup [kind : {"decimal"}, v : Int64, scale : 0..(NUMERIC_SCALE + 1)]

Init == input \in Inputs \cup {[kind |-> "text", v |-> <<>>]} /\ wire = NoValue /\ pc = "bind"

(* cell_value: the value as it is sent; an error sends nothing. *)
cell_value ==
  /\ pc = "bind" /\ input.kind # "text"
  /\ wire' = CASE input.kind = "timestamp" -> timestamp_string(input.unit, input.v)
               [] input.kind = "date64" -> LET days == date64_days(input.v)
                                           IN IF days.ok THEN date_string(days.v) ELSE NoValue
               [] input.kind = "decimal" -> Value(numeric_string(input.v, input.scale))
  /\ pc' = "sent"
  /\ UNCHANGED input

(* A decimal text of any shape, one character at a time. *)
Type(c) ==
  /\ input.kind = "text" /\ Len(input.v) < MaxText
  /\ input' = [input EXCEPT !.v = Append(@, c)]
  /\ UNCHANGED <<wire, pc>>

Next == cell_value \/ \E c \in DecimalDigits \cup {Minus, Point} : Type(c)

Spec == Init /\ [][Next]_vars

-----------------------------------------------------------------------------
Sent(kind) == pc = "sent" /\ input.kind = kind /\ wire.ok

(* A timestamp bound and read back is the instant that was bound: in       *)
(* nanoseconds exactly, or refused when they do not fit the column, before *)
(* the epoch as after it; in microseconds rounded down, never up, for      *)
(* every instant Spanner can store.                                        *)
TimestampRoundTrip ==
  Sent("timestamp") =>
    LET nanos == input.v * Pow10(NanoDigits - UnitDigits(input.unit))
        micros == nanos \div Pow10(NanoDigits - MicroDigits)
    IN IF wire.v.sec \in FourDigits
       THEN /\ parse_timestamp_nanos(wire.v) = Checked(nanos)
            /\ parse_timestamp_micros(wire.v) = Value(micros)
       ELSE parse_timestamp_micros(wire.v) = NoValue

(* A text with fewer or more digits after the point than its unit has is   *)
(* read as the same instant, since Spanner drops trailing zeros.           *)
TrailingZerosIrrelevant ==
  Sent("timestamp") =>
    \A k \in 0..Len(wire.v.frac) :
      (\A i \in (k + 1)..Len(wire.v.frac) : wire.v.frac[i] = 0) =>
        parse_timestamp_nanos([wire.v EXCEPT !.frac = SubSeq(@, 1, k)]) = parse_timestamp_nanos(wire.v)

(* A Date64 is read back as the day it lies in, also before the epoch. *)
DateIsItsDay ==
  Sent("date64") /\ wire.v \in FourDigits =>
    LET day == parse_date_days(wire.v)
    IN day.ok /\ day.v * DayMillis <= input.v /\ input.v < (day.v + 1) * DayMillis

(* A decimal bound and read back is the number that was bound, or it has   *)
(* more digits after the point than a NUMERIC and is refused.              *)
DecimalRoundTrip ==
  Sent("decimal") =>
    parse_numeric_i128(wire.v) =
      IF input.scale > NUMERIC_SCALE THEN NoValue
      ELSE LET n == input.v * Pow10(NUMERIC_SCALE - input.scale)
           IN IF n = -MaxInt - 1 THEN NoValue ELSE Checked(n)

(* Exactly the canonical texts are read: an optional minus, digits, and    *)
(* perhaps a point with one to NUMERIC_SCALE digits after it, within range.*)
CanonicalOnly ==
  input.kind = "text" =>
    LET t == input.v
        Split(s, n, f) == /\ Len(t) = s + n + (IF f = 0 THEN 0 ELSE f + 1)
                          /\ \A i \in 1..Len(t) :
                               IF i <= s THEN t[i] = Minus
                               ELSE IF f > 0 /\ i = s + n + 1 THEN t[i] = Point ELSE t[i] \in 0..9
        Magnitude(f) == Number(SelectSeq(t, LAMBDA c : c >= 0)) * Pow10(NUMERIC_SCALE - f)
    IN parse_numeric_i128(t).ok <=>
         \E s \in 0..1, n \in 1..MaxText, f \in 0..NUMERIC_SCALE : Split(s, n, f) /\ Magnitude(f) <= MaxInt

(* What is bound and read back is the value that was bound, or it is refused. *)
ValuesRoundTrip ==
  /\ TimestampRoundTrip /\ TrailingZerosIrrelevant /\ DateIsItsDay
  /\ DecimalRoundTrip /\ CanonicalOnly
=============================================================================
