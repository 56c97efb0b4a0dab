----------------------------- MODULE MCAmounts -----------------------------
(***************************************************************************)
(* A small instance of Amounts: two digits after the dot, values up to 12, *)
(* 11 bits for the value and 10 for the fraction.                          *)
(***************************************************************************)
EXTENDS Amounts

In(c, v, f) == AmountOf(c, v, f)

\* Ordinary amounts, the largest one, amounts that are not normalized, one
\* that cannot be, the largest numbers of their width, another currency and
\* an invalid amount.
MCOperands ==
    {In("EUR", 0, 1), In("EUR", 1, 50), In("EUR", 3, 99), In("EUR", 12, 99),
     In("EUR", 1, 205), In("EUR", 12, 100), In("EUR", 2047, 0),
     In("EUR", 2047, 1023), In("KUD", 1, 0), InvalidAmount}

Written(v, dot, t) == [value |-> v, dot |-> dot, tail |-> t]

\* 7, 12.99, 0.05, 10.5, 13, 128, .5 and what cannot be read: nothing, 4.,
\* 1.005, 1x, 1.x
MCStrings ==
    {Written(<<7>>, FALSE, <<>>), Written(<<1, 2>>, TRUE, <<9, 9>>),
     Written(<<0>>, TRUE, <<0, 5>>), Written(<<1, 0>>, TRUE, <<5>>),
     Written(<<1, 3>>, FALSE, <<>>), Written(<<1, 2, 8>>, FALSE, <<>>),
     Written(<<>>, TRUE, <<5>>), Written(<<>>, FALSE, <<>>),
     Written(<<4>>, TRUE, <<>>), Written(<<1>>, TRUE, <<0, 0, 5>>),
     Written(<<1, 10>>, FALSE, <<>>), Written(<<1>>, TRUE, <<10>>)}

\* Units of cents, and whole units.
CentUnits == {In("EUR", 0, 0), In("EUR", 0, 10), In("EUR", 0, 25)}
WholeUnits == {In("EUR", 1, 0), In("EUR", 2, 0)}
=============================================================================
