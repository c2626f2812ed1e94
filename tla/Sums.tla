--------------------------------- MODULE Sums ---------------------------------
(***************************************************************************)
(* Sums and products of a sequence of numbers, as recursive functions of a *)
(* position.                                                               *)
(***************************************************************************)
EXTENDS Naturals, Sequences

\* The sum of the first n numbers, at each n.
Partial(s) ==
  LET sum[n \in 0..Len(s)] == IF n = 0 THEN 0 ELSE sum[n - 1] + s[n]
  IN  sum

Total(s) == Partial(s)[Len(s)]

\* Their product, likewise.
Products(s) ==
  LET product[n \in 0..Len(s)] == IF n = 0 THEN 1 ELSE product[n - 1] * s[n]
  IN  product

Product(s) == Products(s)[Len(s)]
=============================================================================
