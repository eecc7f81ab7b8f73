------------------------------ MODULE Sublists ------------------------------
(***************************************************************************)
(* What a list comprehension keeps of a list.                              *)
(***************************************************************************)
EXTENDS Integers, Sequences

\* [x for x in s if x in kept]
Keep(s, kept) ==
    LET sofar[i \in 0 .. Len(s)] ==
          IF i = 0 THEN <<>>
          ELSE IF s[i] \in kept THEN Append(sofar[i - 1], s[i]) ELSE sofar[i - 1]
    IN  sofar[Len(s)]

\* What is in s, each once, where it first occurs.
Distinct(s) ==
    LET first == Keep([i \in DOMAIN s |-> i], {i \in DOMAIN s : \A j \in 1 .. i - 1 : s[j] # s[i]})
    IN  [n \in DOMAIN first |-> s[first[n]]]
=============================================================================
