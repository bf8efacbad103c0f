----------------------------- MODULE ElysiumText ------------------------------
(***************************************************************************)
(* Text as the Elysium RPCs build and order it (src/elysium/rpc.cpp): a    *)
(* string is the sequence of its character codes, strprintf("%d") is the   *)
(* decimal conversion, and a std::map keyed by std::string iterates in     *)
(* std::string's byte-wise order.                                          *)
(***************************************************************************)
EXTENDS Integers, Sequences

Dash == 45
Plus == 43
Zero == 48

\* strprintf("%d", n) for n >= 0, as character codes.
RECURSIVE Decimal(_)
Decimal(n) == IF n < 10 THEN <<Zero + n>> ELSE Decimal(n \div 10) \o <<Zero + (n % 10)>>

\* std::string operator<: byte-wise, a proper prefix first.
RECURSIVE TextLess(_, _)
TextLess(a, b) ==
    IF a = <<>> THEN b # <<>>
    ELSE IF b = <<>> THEN FALSE
    ELSE IF Head(a) # Head(b) THEN Head(a) < Head(b)
    ELSE TextLess(Tail(a), Tail(b))
=============================================================================
