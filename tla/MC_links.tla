------------------------------ MODULE MC_links ------------------------------
(* Small instances of ShortLinks: of three requests with the same key one has *)
(* another payload; a fourth request has no key.                              *)
EXTENDS ShortLinks, TLC

CONSTANTS original, repeat, other, keyless, key, payload1, payload2

FourRequests == {original, repeat, other, keyless}
FourKeys     == [r \in FourRequests |-> IF r = keyless THEN NoKey ELSE key]
FourPayloads == [r \in FourRequests |-> IF r = other THEN payload2 ELSE payload1]

TwoRequests == {original, repeat}
TwoKeys     == [r \in TwoRequests |-> key]
TwoPayloads == [r \in TwoRequests |-> payload1]

CodeSymmetry == Permutations(Codes)
=============================================================================
