-------------------------------- MODULE Digits --------------------------------
(***************************************************************************)
(* Bfdp::Data::ConvertBase and its relatives, and Bfdp::BitManip::         *)
(* DigitStream: digits of a radix, packed into a buffer with as many bits  *)
(* for each as the radix needs.  The buffer is abstracted to the sequence  *)
(* of the digits' values; an empty sequence is a stream that is not        *)
(* defined, for Set is never called with an empty text.                    *)
(***************************************************************************)
EXTENDS Integers, Sequences

CONSTANT UintBits     \* bits of the widest integer, uint64_t in the code

\* That powers are positive is not known to the provers.
ASSUME DigitsAssumption == UintBits \in Nat \ {0} /\ 2^UintBits > 0

InvalidRadix == 0
IsValidRadix(radix) == radix \in 2 .. 36

\* The value of the digit that a symbol is, in the widest radix, or 36.
DigitValue(c) ==
    CASE c \in 48 .. 57 -> c - 48
      [] c \in 97 .. 122 -> c - 97 + 10
      [] c \in 65 .. 90 -> c - 65 + 10
      [] OTHER -> 36

IsDigit(radix, c) == IsValidRadix(radix) /\ DigitValue(c) < radix

\* The bits a digit takes.
GetRadixBits(radix) == CHOOSE n \in 1 .. 6 : 2^n >= radix /\ (n = 1 \/ 2^(n - 1) < radix)

IsRadixPowerOf2(radix) == \E n \in 1 .. 5 : radix = 2^n

\* Set takes all digits or none.
AreDigits(text, radix) == \A i \in 1 .. Len(text) : IsDigit(radix, text[i])

DigitsOf(text) == [i \in 1 .. Len(text) |-> DigitValue(text[i])]

\* The digits one by one, each behind the ones before it.
Horner(digits, base) ==
    LET out[i \in 0 .. Len(digits)] == IF i = 0 THEN 0 ELSE out[i - 1] * base + digits[i]
    IN out[Len(digits)]

\* GetUint64's results: a number, or NoNumber.
NoNumber == -1

\* A digit more, modulo 2^UintBits; an overflow is found by dividing the product again.
AddDigit(out, radix, digit) ==
    LET product == (out * radix) % 2^UintBits
    IN IF out = NoNumber \/ product \div radix # out \/ 2^UintBits - 1 - product < digit
       THEN NoNumber
       ELSE product + digit

\* Mutant: the overflow is not looked for.
GetUint64Unchecked(digits, radix) == Horner(digits, radix) % 2^UintBits

\* The number a stream of digits stands for.  For the powers of two the digits are as wide as their
\* bits, and the buffer as a whole must not be wider than the integer.
GetUint64(digits, radix) ==
    LET out[i \in 0 .. Len(digits)] ==
            IF i = 0 THEN 0 ELSE AddDigit(out[i - 1], radix, digits[i])
    IN CASE ~IsRadixPowerOf2(radix) -> out[Len(digits)]
         [] IsRadixPowerOf2(radix) /\ Len(digits) * GetRadixBits(radix) > UintBits -> NoNumber
         [] OTHER -> Horner(digits, 2^GetRadixBits(radix))
=============================================================================
