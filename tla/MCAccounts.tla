------------------------------ MODULE MCAccounts ------------------------------
(* Model-checking instances of Accounts. *)
EXTENDS Accounts, TLC

CONSTANTS s1, s2, b1, u1, u2, u3, t1, t2

Number(last) == <<6, 5, 0, 0, 0, 0, 0, 0, last>>

Spelled(plus, digits) == [plus |-> plus, digits |-> digits, odd |-> FALSE]

\* One number in two spellings, another country's, and one of the former
\* eight digits.
McRegistrations ==
    [email : {"inspector.1"}, role : {"INSPECTOR"}, password : {"p2"},
     typed : {Spelled(TRUE, <<2, 3, 7>> \o Number(3)), Spelled(TRUE, <<3, 3>> \o Number(3)),
              Spelled(FALSE, SubSeq(Number(3), 1, 8))}]

Nothing == [typed |-> None, active |-> None, role |-> None]

McEdits ==
    {[Nothing EXCEPT !.typed = Spelled(FALSE, Number(3))],
     [Nothing EXCEPT !.active = FALSE, !.role = "NATIONAL_ADMIN"]}

McDemoRoles == <<"NATIONAL_ADMIN", "INSPECTOR">>
McDemoEmails == <<<<"national">>, <<"inspector", "inspector.1">>>>
McDemoPhones == <<<<Number(1), Number(2), Number(3)>>, <<Number(2), Number(3)>>>>

\* Every number the constructor accepts has an operator, a mobile one when it
\* is a mobile number (its first three digits decide).
ASSUME OperatorsAreKnown ==
    \A a, b, c \in Digits :
        LET number == <<a, b, c, 0, 0, 0, 0, 0, 0>>
        IN  NationalNumber(number) =>
                /\ Operator(number) # "INCONNU"
                /\ IsMobile(number) <=> Operator(number) \in {"MTN", "ORANGE", "NEXTTEL"}

Symmetries == Permutations(Slots) \cup Permutations(Ids) \cup Permutations(Tokens)
=============================================================================
