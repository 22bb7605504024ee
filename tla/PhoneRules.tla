------------------------------ MODULE PhoneRules ------------------------------
(***************************************************************************)
(* Cameroonian telephone numbers (CameroonPhoneNumber): what is stored for *)
(* what a person typed, and the operator of a stored number.  A number is  *)
(* the sequence of its nine national digits, stored behind "+237".         *)
(***************************************************************************)
EXTENDS Naturals, Sequences

Digits == 0 .. 9

\* What was typed, its separators (blanks, dashes, dots, brackets) removed:
\* plus when it begins with "+", odd when it has any other character that is
\* not a digit.
Typed == [plus : BOOLEAN, digits : Seq(Digits), odd : BOOLEAN]

Begins(digits, prefix) ==
    /\ Len(digits) >= Len(prefix)
    /\ SubSeq(digits, 1, Len(prefix)) = prefix

CountryCode == <<2, 3, 7>>

\* The country code is removed wherever a number begins with it, also when it
\* was typed without "+".
StripCountryCode(digits) ==
    IF Begins(digits, CountryCode) THEN SubSeq(digits, 4, Len(digits)) ELSE digits

MobileBlocks == {<<6, 5>>, <<6, 6>>, <<6, 7>>, <<6, 9>>}
FixedBlocks == {<<2, 2, 2>>, <<2, 3, 3>>, <<2, 4, 2>>, <<2, 4, 3>>}

PhoneNumber == [1 .. 9 -> Digits]

\* Mutant: the number of digits is not counted.
AnyLength(digits) == \E block \in MobileBlocks \cup FixedBlocks : Begins(digits, block)

NationalNumber(digits) ==
    /\ Len(digits) = 9
    /\ \E block \in MobileBlocks \cup FixedBlocks : Begins(digits, block)

\* The "+" of a number of another country stays, and is not a digit.
PhoneValid(typed) ==
    /\ ~typed.odd
    /\ typed.plus => Begins(typed.digits, CountryCode)
    /\ NationalNumber(StripCountryCode(typed.digits))

National(typed) == StripCountryCode(typed.digits)

IsMobile(number) == number[1] = 6

Operator(number) ==
    IF \/ Begins(number, <<6, 7>>)
       \/ Begins(number, <<6, 5>>) /\ number[3] \in 0 .. 4 THEN "MTN"
    ELSE IF \/ Begins(number, <<6, 9>>)
            \/ Begins(number, <<6, 5>>) /\ number[3] \in 5 .. 9 THEN "ORANGE"
    ELSE IF Begins(number, <<6, 6>>) THEN "NEXTTEL"
    ELSE IF Begins(number, <<2, 2, 2>>) \/ Begins(number, <<2, 3, 3>>) THEN "CAMTEL_FIXE"
    ELSE IF Begins(number, <<2, 4, 2>>) \/ Begins(number, <<2, 4, 3>>) THEN "CAMTEL_CDMA"
    ELSE "INCONNU"
=============================================================================
