------------------------------- MODULE NptTime -------------------------------
(***************************************************************************)
(* Normal play times (dlna/dlna.go): FormatNPTTime and ParseNPTTime. A     *)
(* time is a number of milliseconds, not negative; a text is a sequence of *)
(* digits and the two signs. fmt is modelled from how dlna.go uses it.     *)
(* The definitions named ...Slip are not the code, see DmsServer.          *)
(***************************************************************************)
EXTENDS Integers, Sequences

Colon == 10
Dot   == 11

Second == 1000
Minute == 60 * Second
Hour   == 60 * Minute

-----------------------------------------------------------------------------
(* FormatNPTTime, "%02d:%02d:%02d.%03d".                                   *)

Fields(npt) ==
  LET sec == npt \div 1000
      min == sec \div 60
  IN [h |-> min \div 60, m |-> min % 60, s |-> sec % 60, ms |-> npt % 1000]

(* The decimal digits of n, and these padded with zeros to a width of w.   *)
Decimal(n) ==
  LET digits[k \in 0 .. n] ==
        IF k < 10 THEN <<k>> ELSE Append(digits[k \div 10], k % 10)
  IN digits[n]

Digits(n, w) ==
  LET decimal == Decimal(n)
      zeros   == [i \in 1 .. w - Len(decimal) |-> 0]
  IN IF Len(decimal) < w THEN zeros \o decimal ELSE decimal

FormatNPTTimeSlip(npt) ==  \* slip: "%02d:%02d:%02d.%d"
  LET f == Fields(npt)
  IN Digits(f.h, 2) \o <<Colon>> \o Digits(f.m, 2) \o <<Colon>>
       \o Digits(f.s, 2) \o <<Dot>> \o Digits(f.ms, 1)

FormatNPTTime(npt) ==
  LET f == Fields(npt)
  IN Digits(f.h, 2) \o <<Colon>> \o Digits(f.m, 2) \o <<Colon>>
       \o Digits(f.s, 2) \o <<Dot>> \o Digits(f.ms, 3)

-----------------------------------------------------------------------------
(* ParseNPTTime, fmt.Sscanf with "%d:%2d:%2d.%3d".                         *)

IsDigit(t, i) == i \in DOMAIN t /\ t[i] \in 0 .. 9

(* The position after the digits that start at i, at most w of them.       *)
After(t, i, w) ==
  CHOOSE j \in i .. i + w :
    /\ \A k \in i .. j - 1 : IsDigit(t, k)
    /\ j = i + w \/ ~IsDigit(t, j)

Value(t, i, j) ==
  LET value[k \in i .. j] == IF k = i THEN 0 ELSE 10 * value[k - 1] + t[k - 1]
  IN value[j]

Sign(t, i, sign) == i \in DOMAIN t /\ t[i] = sign

(* The time that t says, or none: a sign that is missing, or a number      *)
(* without a digit, is an error. What follows the last number is ignored.  *)
Scan(t, hourDigits) ==
  LET h  == 1        hh  == After(t, h, hourDigits)
      m  == hh + 1   mm  == After(t, m, 2)
      s  == mm + 1   ss  == After(t, s, 2)
      ms == ss + 1   end == After(t, ms, 3)
  IN IF /\ hh > h /\ mm > m /\ ss > s /\ end > ms
        /\ Sign(t, hh, Colon) /\ Sign(t, mm, Colon) /\ Sign(t, ss, Dot)
       THEN {Value(t, h, hh) * Hour + Value(t, m, mm) * Minute
               + Value(t, s, ss) * Second + Value(t, ms, end)}
       ELSE {}

ParseNPTTimeSlip(t) == Scan(t, 2)  \* slip: "%2d:%2d:%2d.%3d"

ParseNPTTime(t) == Scan(t, Len(t))

-----------------------------------------------------------------------------
(* Properties, of one time and its text.                                   *)

(* What ParseNPTTime reads is what FormatNPTTime wrote, for any number of  *)
(* hours and although each field has a width of its own.                   *)
RoundTrip(npt) == ParseNPTTime(FormatNPTTime(npt)) = {npt}

(* Whoever reads the digits after the dot as the decimals of a second, as  *)
(* other programs do, reads the time that was meant.                       *)
DecimalsOfASecond(npt) ==
  LET t   == FormatNPTTime(npt)
      dot == CHOOSE i \in DOMAIN t : t[i] = Dot
  IN Value(t, dot + 1, Len(t) + 1) * Second = (npt % Second) * 10^(Len(t) - dot)
=============================================================================
