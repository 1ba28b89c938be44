---------------------------- MODULE MCRegistration ----------------------------
\* Three cards; the last two are in the same position of two PCI domains.
EXTENDS Registration, TLC

CONSTANTS nic1, nic2, nic3

MCId == nic1 :> 2 @@ nic2 :> 1 @@ nic3 :> 1

\* The pool has three pages: what fits; a refusal; no pages; the second not given,
\* which is refused for the first number and admitted after it.
MCParameters ==
    [mode : {<<2, 2>>}, pages : {<<2, 1>>, <<1, 3>>, <<2, 0>>, <<2>>, <<>>}]
===============================================================================
