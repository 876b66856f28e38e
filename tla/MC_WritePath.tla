--------------------------- MODULE MC_WritePath ---------------------------
(* Requests for the write path: two prefixes, so that codes can move.      *)
EXTENDS WritePath, TLC

MC_pa == <<"p", "a">>
MC_qb == <<"q", "b">>
MC_Iri == {MC_pa, MC_qb}

\* Writes a subject it does not read.
MC_Insert(mentions, iri) ==
    [mentions |-> mentions, reads |-> {}, writes |-> {iri}, bounded |-> TRUE,
     schema |-> FALSE, once |-> FALSE, locked |-> FALSE]
MC_Upsert(iri) == [MC_Insert(<<iri>>, iri) EXCEPT !.reads = {iri}]

MC_Request ==
    {MC_Upsert(MC_pa),
     [MC_Insert(<<MC_qb, MC_pa>>, MC_qb) EXCEPT !.reads = {MC_pa}],
     [MC_Upsert(MC_pa) EXCEPT !.schema = TRUE, !.bounded = FALSE, !.locked = TRUE],
     [MC_Upsert(MC_qb) EXCEPT !.once = TRUE]}
MC_Foreign == {MC_Upsert(MC_qb)}

MC_Symmetry == Permutations(Writer)
=============================================================================
