------------------------------- MODULE Order --------------------------------
(***************************************************************************)
(* Fractional order keys (src/vault/order.ts): a key strictly between any  *)
(* two siblings, so that a reorder rewrites one item.                      *)
(*                                                                         *)
(* Abstraction.  A key is a sequence of numbers compared as the strings    *)
(* are: the head, then the digits.  Head h >= 0 stands for the letter that *)
(* is h after "a" (h + 1 digits follow), h < 0 for the letter that is      *)
(* -h - 1 before "Z" (-h digits follow).  The base is a constant (62 in    *)
(* the code), and so is the last head (25): the code's refusals at the end *)
(* of the key space are 62^26 steps away and left out.                     *)
(***************************************************************************)
EXTENDS Integers, Sequences, SequencesExt

CONSTANT Base       \* DIGITS.length

ASSUME BaseIsABase == Base \in Nat \ {0, 1, 2}

Refused == <<>>     \* InvalidMutationError: no key is empty

(* compareOrder(a, b) < 0: lexicographic, a prefix first.                  *)
Below(a, b) ==
    \E k \in 0 .. Len(a) :
        /\ k < Len(b)
        /\ SubSeq(a, 1, k) = SubSeq(b, 1, k)
        /\ k = Len(a) \/ a[k + 1] < b[k + 1]

IntegerLength(head) == IF head >= 0 THEN head + 2 ELSE 1 - head

IntegerPart(key) == SubSeq(key, 1, IntegerLength(key[1]))
Fraction(key) == SubSeq(key, IntegerLength(key[1]) + 1, Len(key))

(* validateOrderKey() *)
ValidKey(key) ==
    /\ IntegerLength(key[1]) <= Len(key)
    /\ Fraction(key) = <<>> \/ Last(key) # 0
    /\ \A k \in 2 .. Len(key) : key[k] \in 0 .. Base - 1

FirstOrder == <<0, 0>>

Same(digit, n) == [k \in 1 .. n |-> digit]

(* incrementInteger(): the last digit that is not the highest goes up; when*)
(* all are, the head does, and with it the number of digits.               *)
Increment(int) ==
    IF \A k \in 2 .. Len(int) : int[k] = Base - 1
      THEN <<int[1] + 1>> \o Same(0, IntegerLength(int[1] + 1) - 1)
      ELSE LET at == CHOOSE k \in 2 .. Len(int) :
                        /\ int[k] # Base - 1
                        /\ \A n \in k + 1 .. Len(int) : int[n] = Base - 1
           IN  SubSeq(int, 1, at - 1) \o <<int[at] + 1>> \o Same(0, Len(int) - at)

Decrement(int) ==
    IF \A k \in 2 .. Len(int) : int[k] = 0
      THEN <<int[1] - 1>> \o Same(Base - 1, IntegerLength(int[1] - 1) - 1)
      ELSE LET at == CHOOSE k \in 2 .. Len(int) :
                        int[k] # 0 /\ \A n \in k + 1 .. Len(int) : int[n] = 0
           IN  SubSeq(int, 1, at - 1) \o <<int[at] - 1>> \o Same(Base - 1, Len(int) - at)

Digit(fraction, k) == IF k <= Len(fraction) THEN fraction[k] ELSE 0

(* midpoint(a, null): above a, below nothing in particular.                *)
RECURSIVE Above(_)
Above(a) ==
    IF Base - Digit(a, 1) > 1
      THEN <<(Digit(a, 1) + Base + 1) \div 2>>
      ELSE <<Digit(a, 1)>> \o Above(Tail(a))

(* midpoint(a, b): what the two share, then a digit between, or b cut to   *)

Midpoint(a, b) ==
    LET common == CHOOSE k \in 0 .. Len(b) - 1 :
                    /\ \A n \in 1 .. k : Digit(a, n) = b[n]
                    /\ Digit(a, k + 1) # b[k + 1]
        low == Digit(a, common + 1)
        high == b[common + 1]
    IN  SubSeq(b, 1, common) \o
        IF high - low > 1 THEN <<(low + high + 1) \div 2>>
        ELSE IF Len(b) > common + 1 THEN <<high>>
        ELSE <<low>> \o Above(SubSeq(a, common + 2, Len(a)))

(* orderBetween(); Refused stands for null among its arguments as well.    *)
OrderBetween(before, after) ==
    CASE before = Refused /\ after = Refused -> FirstOrder
      [] before = Refused /\ after # Refused ->
            IF Below(IntegerPart(after), after) THEN IntegerPart(after)
                                                ELSE Decrement(IntegerPart(after))
      [] before # Refused /\ after = Refused -> Increment(IntegerPart(before))
      [] OTHER ->
            IF ~Below(before, after) THEN Refused
            ELSE IF IntegerPart(before) = IntegerPart(after)
              THEN IntegerPart(before) \o Midpoint(Fraction(before), Fraction(after))
            ELSE IF Below(Increment(IntegerPart(before)), after)
              THEN Increment(IntegerPart(before))
            ELSE IntegerPart(before) \o Above(Fraction(before))

(* ordersBetween(): walks from the one end that is open, or bisects.       *)
RECURSIVE OrdersBetween(_, _, _)
OrdersBetween(before, after, count) ==
    IF count = 0 THEN <<>>
    ELSE IF after = Refused
      THEN LET next == OrderBetween(before, after)
           IN  <<next>> \o OrdersBetween(next, after, count - 1)
    ELSE IF before = Refused
      THEN LET next == OrderBetween(before, after)
           IN  OrdersBetween(before, next, count - 1) \o <<next>>
    ELSE LET middle == OrderBetween(before, after)
             left == count \div 2
         IN  OrdersBetween(before, middle, left) \o <<middle>>
             \o OrdersBetween(middle, after, count - left - 1)
==============================================================================
