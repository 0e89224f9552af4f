-------------------------------- MODULE Duration --------------------------------
(***************************************************************************)
(* The arithmetic of chrono::duration (_common/_chrono.hpp): conversions   *)
(* between periods and widths, ceil(), comparisons, sums, differences and  *)
(* the assignment operators, against what the durations mean, in seconds.  *)
(* time_point is a duration since the epoch and computes with it.          *)
(***************************************************************************)
EXTENDS Integers, Sequences

CONSTANTS
  Types,     \* duration types: records with the period num / den and the width of rep
  Counts,    \* the numbers of ticks to compute with
  Bits       \* the width of intmax_t

ASSUME TypesType == /\ Types # {} /\ Bits \in Nat
                    /\ Types \subseteq [num : Nat \ {0}, den : Nat \ {0}, width : 1 .. Bits]
ASSUME CountsType == 0 \in Counts /\ Counts \subseteq Int

\* A duration is a type and a number of ticks.
MakeDuration(t, n) == [type |-> t, count |-> n]

-----------------------------------------------------------------------------
(* static_gcd, static_lcm, ratio_divide *)

\* static_gcd_impl<A, B>
static_gcd_impl[p \in Nat \X Nat] ==
  IF p[2] = 0 THEN p[1] ELSE static_gcd_impl[<<p[2], p[1] % p[2]>>]
static_gcd(a, b) == static_gcd_impl[<<a, b>>]

static_lcm(a, b) == (a \div static_gcd(a, b)) * b

\* (from.num / from.den) / (to.num / to.den), in lowest terms.
ratio_divide(from, to) == LET n == from.num * to.den
                              d == from.den * to.num
                          IN  [num |-> n \div static_gcd(n, d), den |-> d \div static_gcd(n, d)]

\* common_type of two durations: both convert to its period without a remainder.
CommonType(t, u) == [num |-> static_gcd(t.num, u.num), den |-> static_lcm(t.den, u.den),
                     width |-> IF t.width >= u.width THEN t.width ELSE u.width]
-----------------------------------------------------------------------------
\* Division of integers in C++ drops the fraction.
Magnitude(n) == IF n >= 0 THEN n ELSE -n
Quotient(a, b) == LET q == Magnitude(a) \div Magnitude(b)
                  IN  IF (a >= 0) = (b > 0) THEN q ELSE -q

PowerOfTwo[n \in Nat] == IF n = 0 THEN 1 ELSE 2 * PowerOfTwo[n - 1]

\* static_cast to an integer of width w, which keeps the lower bits.
Narrow(n, w) == LET m == n % PowerOfTwo[w]
                IN  IF m >= PowerOfTwo[w - 1] THEN m - PowerOfTwo[w] ELSE m

\* The values from min() to max() of an integer of width w.
RepMin(w) == -PowerOfTwo[w - 1]
RepMax(w) == PowerOfTwo[w - 1] - 1
Fits(n, w) == n \in RepMin(w) .. RepMax(w)

\* duration_cast: ticks times the ratio of the periods, in intmax_t; the special
\* cases of duration_cast_helper leave out a factor or a divisor of one.
CastTo(x, t) == LET r == ratio_divide(x.type, t)
              IN  MakeDuration(t, Narrow(Quotient(x.count * r.num, r.den), t.width))

\* checked_division: one of the products of from / to would overflow.
Overflows(from, to) ==
  LET gcd_num == static_gcd(from.num, to.num)
      gcd_den == static_gcd(from.den, to.den)
      max == RepMax(Bits)
  IN  \/ from.num \div gcd_num > max \div (to.den \div gcd_den)
      \/ to.num \div gcd_num > max \div (from.den \div gcd_den)

\* A duration converts by itself if its period is a multiple of the other one.
Converts(from, to) == ~Overflows(from, to) /\ ratio_divide(from, to).den = 1

\* duration_equal and duration_less, in the common type; >, <= and >= are made of the
\* latter, and != of the former.
Equal(x, y) == LET c == CommonType(x.type, y.type) IN CastTo(x, c).count = CastTo(y, c).count
Less(x, y) == LET c == CommonType(x.type, y.type) IN CastTo(x, c).count < CastTo(y, c).count

\* ceil: one more if the cast went down.
Ceil_Down(x, t) == CastTo(x, t)
CeilTo(x, t) == LET casted == CastTo(x, t)
                IN  IF Less(casted, x) THEN MakeDuration(t, casted.count + 1) ELSE casted

Plus(x, y) == LET c == CommonType(x.type, y.type)
             IN  MakeDuration(c, CastTo(x, c).count + CastTo(y, c).count)

Minus(x, y) == LET c == CommonType(x.type, y.type)
                    IN  MakeDuration(c, CastTo(x, c).count - CastTo(y, c).count)

\* x += y, x -= y, x *= a, x /= a, x %= a and x %= y, on the ticks of x. The remainder
\* has the sign of x. Increments, decrements and the negation are cases of these.
Assigned(op, n, a) == CASE op = "+=" -> n + a
                        [] op = "-=" -> n - a
                        [] op = "*=" -> n * a
                        [] op = "/=" -> Quotient(n, a)
                        [] op = "%=" -> n - Quotient(n, a) * a
-----------------------------------------------------------------------------
(* One call after the other: the function, its operands and its result. *)

VARIABLES
  callee, lhs, rhs,
  result,   \* the duration that was returned
  answer    \* or what comparisons returned

durationVars == <<callee, lhs, rhs, result, answer>>

DurationsOf(t) == {MakeDuration(t, n) : n \in {m \in Counts : Fits(m, t.width)}}
AnyDuration == UNION {DurationsOf(t) : t \in Types}

Zero == MakeDuration(CHOOSE t \in Types : TRUE, 0)

DurationInit == callee = "none" /\ lhs = Zero /\ rhs = Zero /\ result = Zero /\ answer = <<>>

Calls(f, x, y, r, a) == callee' = f /\ lhs' = x /\ rhs' = y /\ result' = r /\ answer' = a

Return_Duration == /\ callee # "none" /\ callee' = "none"
                   /\ lhs' = Zero /\ rhs' = Zero /\ result' = Zero /\ answer' = <<>>

\* Overflow is undefined, in intmax_t as in a sum, so no program computes that far.
Defined(x, t) == Fits(x.count * ratio_divide(x.type, t).num, Bits)
Representable(x) == Fits(x.count, x.type.width)
BothDefined(x, y) == LET c == CommonType(x.type, y.type) IN Defined(x, c) /\ Defined(y, c)

\* An implicit conversion to the type of y.
Call_Convert(x, y) == /\ Converts(x.type, y.type) /\ Defined(x, y.type)
                      /\ Calls("convert", x, y, CastTo(x, y.type), <<>>)

\* The operand of += and -=, and of %= for durations, is converted to the type of x.
Call_Assign(op, x, y) ==
  LET a == CastTo(y, x.type).count
      z == MakeDuration(x.type, Assigned(op, x.count, a))
  IN  /\ Converts(y.type, x.type) /\ Defined(y, x.type)
      /\ op = "%=" => a # 0 /\ Fits(Quotient(x.count, a), x.type.width)
      /\ Representable(z)
      /\ Calls(op, x, y, z, <<>>)

\* The operand of *= and /= is a number.
Call_Scale(op, x, a) ==
  LET z == MakeDuration(x.type, Assigned(op, x.count, a))
  IN  /\ op = "/=" => a # 0
      /\ Representable(z)
      /\ Calls(op, x, MakeDuration(x.type, a), z, <<>>)

\* duration_cast and ceil take the type of y; so does time_point_cast, as all that a
\* time_point does is done to its duration.
Call_Cast(x, y) == Defined(x, y.type) /\ Calls("cast", x, y, CastTo(x, y.type), <<>>)

Call_Ceil(x, y) == /\ Defined(x, y.type) /\ BothDefined(x, CastTo(x, y.type))
                   /\ Representable(CeilTo(x, y.type))
                   /\ Calls("ceil", x, y, CeilTo(x, y.type), <<>>)

Call_Compare(x, y) == /\ BothDefined(x, y)
                      /\ Calls("compare", x, y, Zero, <<Less(x, y), Less(y, x), Equal(x, y)>>)

Call_Sum(x, y) == /\ BothDefined(x, y) /\ Representable(Plus(x, y))
                  /\ Calls("sum", x, y, Plus(x, y), <<>>)

Call_Difference(x, y) == /\ BothDefined(x, y) /\ Representable(Minus(x, y))
                         /\ Calls("difference", x, y, Minus(x, y), <<>>)

Call_Any(x, y) == \/ Call_Cast(x, y) \/ Call_Ceil(x, y) \/ Call_Convert(x, y)
                  \/ Call_Compare(x, y) \/ Call_Sum(x, y) \/ Call_Difference(x, y)
                  \/ \E op \in {"+=", "-=", "%="} : Call_Assign(op, x, y)

DurationNext ==
  \/ /\ callee = "none"
     /\ \E x \in AnyDuration :
          \/ \E y \in AnyDuration : Call_Any(x, y)
          \/ \E y \in DurationsOf(x.type), op \in {"*=", "/="} : Call_Scale(op, x, y.count)
  \/ Return_Duration

DurationSpec == DurationInit /\ [][DurationNext]_durationVars
-----------------------------------------------------------------------------
DurationTypeOK ==
  /\ callee \in {"none", "cast", "ceil", "compare", "sum", "difference", "convert",
                 "+=", "-=", "%=", "*=", "/="}
  /\ lhs \in AnyDuration /\ rhs \in AnyDuration
  /\ Representable(result)
  /\ answer \in Seq(BOOLEAN)

\* What the ticks of type t mean, in units of which a second has u, for a multiple u of
\* t.den; and a duration.
TickOf(t, u) == (u \div t.den) * t.num
Meaning(x, u) == x.count * TickOf(x.type, u)

\* Can type t tell the time m, but for a fraction of its tick?
CanHold(t, m, u) == RepMin(t.width) * TickOf(t, u) <= m /\ m <= RepMax(t.width) * TickOf(t, u)

\* q is m without a fraction of a tick.
Truncates(m, q, tick) == IF m >= 0 THEN q <= m /\ m < q + tick ELSE q >= m /\ m > q - tick

\* A cast drops less than one tick, towards zero; ceil() is the first tick that is
\* not before its argument; a conversion that needs no cast drops nothing; comparisons,
\* sums, differences and assignments of different types mean what they say. All of it
\* wherever the types can hold the values.
DurationsExact ==
  LET c == CommonType(lhs.type, rhs.type)
      u == lhs.type.den * rhs.type.den
      l == Meaning(lhs, u)
      r == Meaning(rhs, u)
      m == Meaning(result, u)
      tick == TickOf(rhs.type, u)
      casts == CanHold(rhs.type, l, u)
      assigns == CanHold(lhs.type, r, u)
      both == CanHold(c, l, u) /\ CanHold(c, r, u)
  IN  CASE callee = "cast" /\ casts -> Truncates(l, m, tick)
        [] callee = "ceil" /\ casts /\ CanHold(c, l, u) -> m >= l /\ l > m - tick
        [] callee = "convert" /\ casts -> m = l
        [] callee = "compare" /\ both -> answer = <<l < r, r < l, l = r>>
        [] callee = "sum" /\ both -> m = l + r
        [] callee = "difference" /\ both -> m = l - r
        [] callee = "+=" /\ assigns -> m = l + r
        [] callee = "-=" /\ assigns -> m = l - r
        [] callee = "%=" /\ assigns -> /\ Magnitude(m) < Magnitude(r) /\ m * l >= 0
                                      /\ (l - m) % Magnitude(r) = 0
        [] callee = "*=" -> m = l * rhs.count
        [] callee = "/=" -> /\ Truncates(Magnitude(l), Magnitude(m * rhs.count), Magnitude(r))
                            /\ m * l * rhs.count >= 0
        [] OTHER -> TRUE
=============================================================================
