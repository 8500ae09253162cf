-------------------------- MODULE MCReferenceReader --------------------------
(***************************************************************************)
(* Instance of ReferenceReader: every pattern of equal and different scales *)
(* in one expert, loaded once, and three shards with every sequence of      *)
(* calls.                                                                   *)
(***************************************************************************)
EXTENDS ReferenceReader

All(e) == FlattenSeq([i \in 1..3 |-> [j \in 1..2 |-> Tensor(e, Components[i], Parts[j])]])

\* One expert after the other; all weights before all scales; every kind of tensor for itself.
ByExpert == FlattenSeq([i \in 1..Experts |-> All(i - 1)])
ByPart ==
    LET PartOf(p) == FlattenSeq([i \in 1..Experts |->
                        SelectSeq(All(i - 1), LAMBDA t : t.part = Parts[p])])
    IN  PartOf(1) \o PartOf(2)
ByKind == FlattenSeq([k \in 1..6 |-> [i \in 1..Experts |-> All(i - 1)[k]]])

Shards(first, orders) ==
    {[scales |-> [e \in Ids |-> CASE e = 0 -> first [] e = 1 -> <<3, 3, 3, 3, 3, 3>>
                                  [] OTHER -> <<4, 4, 0, 4, 7, 4>>],
      order |-> order] : order \in orders}

\* Of up to five values in six places, the first ones of the pattern being the
\* smallest or the largest.
Patterns == {s \in [1..6 -> 0..4] :
                \A i \in 1..6 : s[i] = 0 \/ \E j \in 1..(i - 1) : s[j] = s[i] - 1}
Wide == UNION {Shards(s, {ByExpert}) \union Shards([i \in 1..6 |-> 15 - s[i]], {ByExpert}) :
                  s \in Patterns}
Deep == Shards(<<9, 2, 9, 2, 5, 12>>, {ByExpert, ByPart, ByKind})

MCSamples == Wide \union Deep
MCMaxRequests(s) == IF s \in Deep THEN 3 ELSE 1
MCRoutes(s) == IF s \in Deep THEN UNION {[1..n -> Ids] : n \in 1..3} ELSE {<<0>>}

=============================================================================
