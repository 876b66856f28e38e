-------------------------- MODULE WritePath_proofs --------------------------
(***************************************************************************)
(* Theorems about WritePath, for any number of writers, requests, handles, *)
(* retries, faults and foreign commits.                                    *)
(*                                                                         *)
(* Tables, ledger states and catch-ups are recursive functions.  What they *)
(* compute is shown by taking the least index at which a claim fails       *)
(* (LeastNatural, IntervalInduction), first of all that the recursion has  *)
(* a solution (RecursionExists).                                           *)
(*                                                                         *)
(* The argument: the durable commits form one chain in which every commit  *)
(* was staged on what the one before loads (GoodHistory); every cached     *)
(* state is what the commit it names loads (Faithful), every ring tells    *)
(* what the commits it names wrote (GoodRing), and every stage was made on *)
(* a faithful state and read what that state holds (GoodStage), which      *)
(* staging again and re-basing both preserve.                              *)
(***************************************************************************)
EXTENDS WritePath, FiniteSetTheorems, WellFoundedInduction, TLAPS

-----------------------------------------------------------------------------
(* Induction and recursion over an interval.                               *)

\* A set of naturals that is not empty has a least element.
LEMMA LeastNatural ==
    ASSUME NEW T, T \subseteq Nat, T # {}
    PROVE  \E n \in T : \A m \in T : n <= m
<1>1. IsWellFoundedOn(OpToRel(<, Nat), Nat)
  BY NatLessThanWellFounded
<1>2. PICK R : R = OpToRel(<, Nat)
  OBVIOUS
<1>3. \A m, n \in Nat : m < n => <<m, n>> \in R
  BY <1>2 DEF OpToRel
<1>4. PICK n \in T : \A m \in T : ~(<<m, n>> \in R)
  BY <1>1, <1>2, WFMin
<1>5. \A m \in T : m \in Nat /\ n \in Nat /\ ~ (m < n)
  BY <1>3, <1>4
<1>6. \A m \in T : n <= m
  BY <1>5
<1> QED
  BY <1>6

\* Induction over an interval, for a property given as a set.
LEMMA IntervalInduction ==
    ASSUME NEW N \in Nat, NEW G, 0 \in G,
           \A n \in 1 .. N : n - 1 \in G => n \in G
    PROVE  \A n \in 0 .. N : n \in G
<1> DEFINE T == {n \in 0 .. N : n \notin G}
<1>1. SUFFICES ASSUME T # {} PROVE FALSE
  OBVIOUS
<1>2. PICK n \in T : \A m \in T : n <= m
  <2>1. T \subseteq Nat
    OBVIOUS
  <2> HIDE DEF T
  <2> QED BY <1>1, <2>1, LeastNatural
<1>3. n \in 1 .. N /\ n - 1 \in 0 .. N /\ n - 1 \notin T
  BY <1>2
<1> QED
  BY <1>3

\* f runs through S from base, its n-th step being g's.
Recursion(f, N, S, base, g) ==
    /\ f \in [0 .. N -> S]
    /\ f[0] = base
    /\ \A n \in 1 .. N : f[n] = g[<<n, f[n - 1]>>]

\* A recursion over an interval has a solution.
LEMMA RecursionExists ==
    ASSUME NEW S, NEW base \in S, NEW N \in Nat, NEW g,
           \A n \in 1 .. N, s \in S : g[<<n, s>>] \in S
    PROVE  \E f : Recursion(f, N, S, base, g)
<1> DEFINE Sol(m, f) == f[0] = base /\ \A n \in 1 .. m : f[n] = g[<<n, f[n - 1]>>]
           G == {m \in 0 .. N : \E f \in [0 .. m -> S] : Sol(m, f)}
<1>1. 0 \in G
  <2>1. PICK f : f = [n \in 0 .. 0 |-> base]
    OBVIOUS
  <2>2. f \in [0 .. 0 -> S] /\ f[0] = base
    BY <2>1
  <2>3. \A n \in 1 .. 0 : FALSE
    OBVIOUS
  <2> QED
    BY <2>2, <2>3
<1>2. ASSUME NEW n \in 1 .. N, n - 1 \in G PROVE n \in G
  <2>1. PICK f \in [0 .. n - 1 -> S] : Sol(n - 1, f)
    BY <1>2
  <2>2. f[n - 1] \in S
    BY <2>1
  <2>3. g[<<n, f[n - 1]>>] \in S
    BY <2>2
  <2> DEFINE e == [m \in 0 .. n |-> IF m = n THEN g[<<n, f[n - 1]>>] ELSE f[m]]
  <2>4. e \in [0 .. n -> S]
    BY <2>1, <2>3
  <2>5. e[0] = base
    BY <2>1
  <2>6. \A m \in 1 .. n : e[m] = g[<<m, e[m - 1]>>]
    <3> TAKE m \in 1 .. n
    <3>1. CASE m = n
      <4>1. m - 1 \in 0 .. n /\ m - 1 # n
        BY <3>1
      <4>2. e[m - 1] = f[n - 1]
        BY <3>1, <4>1
      <4>3. m \in 0 .. n /\ e[m] = g[<<n, f[n - 1]>>]
        BY <3>1
      <4> QED
        BY <3>1, <4>2, <4>3
    <3>2. CASE m # n
      <4>1. m \in 1 .. n - 1 /\ m - 1 \in 0 .. n - 1
        BY <3>2
      <4>2. e[m] = f[m] /\ e[m - 1] = f[m - 1]
        BY <3>2, <4>1
      <4> QED
        BY <2>1, <4>1, <4>2
    <3> QED
      BY <3>1, <3>2
  <2> HIDE DEF e
  <2> QED
    BY <2>4, <2>5, <2>6
<1>3. \A n \in 0 .. N : n \in G
  <2> HIDE DEF G
  <2> QED BY <1>1, <1>2, IntervalInduction
<1>4. N \in 0 .. N
  OBVIOUS
<1>5. N \in G
  <2> HIDE DEF G
  <2> QED BY <1>3, <1>4
<1> QED
  BY <1>5 DEF Recursion

-----------------------------------------------------------------------------
(* Namespace tables.                                                       *)

\* What the steps of an allocation are.
LEMMA AllocatedSteps ==
    ASSUME NEW P, NEW tbl \in Seq(P), NEW ps \in Seq(P)
    PROVE  \E f \in [0 .. Len(ps) -> Seq(P)] :
              /\ f[0] = tbl
              /\ \A n \in 1 .. Len(ps) : f[n] = AllocatePrefix(f[n - 1], ps[n])
              /\ Allocated(tbl, ps) = f[Len(ps)]
<1> DEFINE N == Len(ps)
           g == [y \in (1 .. N) \X Seq(P) |-> AllocatePrefix(y[2], ps[y[1]])]
           Body(u) == [n \in 0 .. N |-> IF n = 0 THEN tbl ELSE AllocatePrefix(u[n - 1], ps[n])]
<1>1. N \in Nat
  OBVIOUS
<1>2. \A n \in 1 .. N, s \in Seq(P) : g[<<n, s>>] \in Seq(P)
  <2>1. \A s \in Seq(P), n \in 1 .. N : AllocatePrefix(s, ps[n]) \in Seq(P)
    BY DEF AllocatePrefix
  <2> QED
    BY <2>1
<1>3. PICK f : Recursion(f, N, Seq(P), tbl, g)
  <2> HIDE DEF g, N
  <2> QED BY <1>1, <1>2, RecursionExists
<1>4. \A n \in 1 .. N : f[n] = AllocatePrefix(f[n - 1], ps[n])
  <2> TAKE n \in 1 .. N
  <2>1. n - 1 \in 0 .. N
    BY <1>1
  <2>2. f[n - 1] \in Seq(P)
    BY <1>3, <2>1 DEF Recursion
  <2>3. <<n, f[n - 1]>> \in (1 .. N) \X Seq(P)
    BY <2>2
  <2> QED
    BY <1>3, <2>3 DEF Recursion
<1>5. f = Body(f)
  BY <1>3, <1>4 DEF Recursion
<1>6. PICK u : u = CHOOSE v : v = Body(v)
  OBVIOUS
<1>7. u = Body(u)
  <2> HIDE DEF Body
  <2> QED BY <1>5, <1>6
<1>8. Allocated(tbl, ps) = u[N]
  BY <1>6 DEF Allocated
<1> HIDE DEF g
<1>9. \A n \in 0 .. N : u[n] = f[n]
  <2> DEFINE G == {n \in 0 .. N : u[n] = f[n]}
  <2>1. 0 \in G
    BY <1>3, <1>7 DEF Recursion
  <2>2. \A n \in 1 .. N : n - 1 \in G => n \in G
    BY <1>4, <1>7
  <2>3. \A n \in 0 .. N : n \in G
    <3> HIDE DEF G, N
    <3> QED BY <1>1, <2>1, <2>2, IntervalInduction
  <2> QED
    BY <2>3
<1> QED
  BY <1>3, <1>4, <1>8, <1>9 DEF Recursion

\* No entry twice; a longer table with the same codes; what a table holds.
Injective(s) == \A a, b \in 1 .. Len(s) : s[a] = s[b] => a = b
Continues(t, s) == Len(s) <= Len(t) /\ \A n \in 1 .. Len(s) : t[n] = s[n]
Holds(s, p) == \E n \in 1 .. Len(s) : s[n] = p

\* Membership in a table, by index and by set.
LEMMA HoldsIsToSet ==
    ASSUME NEW P, NEW s \in Seq(P), NEW p
    PROVE  p \in ToSet(s) <=> Holds(s, p)
  BY DEF ToSet, Holds

\* Sequences that agree everywhere are equal.
LEMMA SameSequence ==
    ASSUME NEW P, NEW s \in Seq(P), NEW t \in Seq(P), Len(s) = Len(t),
           \A n \in 1 .. Len(s) : s[n] = t[n]
    PROVE  s = t
  OBVIOUS

\* A continuation of a continuation is one.
LEMMA ContinuesTransitive ==
    ASSUME NEW P, NEW s \in Seq(P), NEW t \in Seq(P), NEW u \in Seq(P),
           Continues(t, s), Continues(u, t)
    PROVE  Continues(u, s)
<1>1. Len(s) \in Nat /\ Len(t) \in Nat /\ Len(u) \in Nat
  OBVIOUS
<1> QED
  BY <1>1 DEF Continues

\* What a table holds, its continuations hold.
LEMMA ContinuesHolds ==
    ASSUME NEW P, NEW s \in Seq(P), NEW t \in Seq(P), Continues(t, s), NEW p, Holds(s, p)
    PROVE  Holds(t, p)
<1>1. Len(s) \in Nat /\ Len(t) \in Nat
  OBVIOUS
<1>2. PICK n \in 1 .. Len(s) : s[n] = p
  BY DEF Holds
<1>3. n \in 1 .. Len(t) /\ t[n] = p
  BY <1>1, <1>2 DEF Continues
<1> QED
  BY <1>3 DEF Holds

\* One allocation keeps every code there is and gives the prefix one of its own.
LEMMA AllocatePrefixAdds ==
    ASSUME NEW P, NEW s \in Seq(P), Injective(s), NEW p \in P
    PROVE  /\ AllocatePrefix(s, p) \in Seq(P)
           /\ Injective(AllocatePrefix(s, p))
           /\ Continues(AllocatePrefix(s, p), s)
           /\ Holds(AllocatePrefix(s, p), p)
<1>1. CASE p \in ToSet(s)
  <2>1. AllocatePrefix(s, p) = s
    BY <1>1 DEF AllocatePrefix
  <2>2. Holds(s, p)
    BY <1>1, HoldsIsToSet
  <2> QED
    BY <2>1, <2>2 DEF Continues
<1>2. CASE p \notin ToSet(s)
  <2>0. Append(s, p) \in Seq(P)
    OBVIOUS
  <2>1. PICK t \in Seq(P) : t = Append(s, p)
    BY <2>0
  <2>2. AllocatePrefix(s, p) = t
    BY <1>2, <2>1 DEF AllocatePrefix
  <2>3. Len(s) \in Nat /\ Len(t) = Len(s) + 1 /\ t[Len(t)] = p
        /\ \A n \in 1 .. Len(s) : t[n] = s[n]
    BY <2>1
  <2>4. ~ Holds(s, p)
    BY <1>2, HoldsIsToSet
  <2>5. Injective(t)
    <3> SUFFICES ASSUME NEW a \in 1 .. Len(t), NEW b \in 1 .. Len(t), t[a] = t[b]
                 PROVE  a = b
      BY DEF Injective
    <3>1. CASE a \in 1 .. Len(s) /\ b \in 1 .. Len(s)
      BY <2>3, <3>1 DEF Injective
    <3>2. CASE a = Len(t) /\ b \in 1 .. Len(s)
      BY <2>3, <2>4, <3>2 DEF Holds
    <3>3. CASE b = Len(t) /\ a \in 1 .. Len(s)
      BY <2>3, <2>4, <3>3 DEF Holds
    <3>4. CASE a = Len(t) /\ b = Len(t)
      BY <3>4
    <3>5. \A n \in 1 .. Len(t) : n = Len(t) \/ n \in 1 .. Len(s)
      BY <2>3
    <3> QED
      BY <3>1, <3>2, <3>3, <3>4, <3>5
  <2>6. Continues(t, s)
    BY <2>3 DEF Continues
  <2>7. Holds(t, p)
    BY <2>3 DEF Holds
  <2> QED
    BY <2>2, <2>5, <2>6, <2>7
<1> QED
  BY <1>1, <1>2

\* Allocation keeps the codes given out, gives out no code twice, and covers ps.
LEMMA AllocatedExtends ==
    ASSUME NEW P, NEW tbl \in Seq(P), Injective(tbl), NEW ps \in Seq(P)
    PROVE  /\ Allocated(tbl, ps) \in Seq(P)
           /\ Injective(Allocated(tbl, ps))
           /\ Continues(Allocated(tbl, ps), tbl)
           /\ \A n \in 1 .. Len(ps) : Holds(Allocated(tbl, ps), ps[n])
<1>1. PICK N \in Nat : N = Len(ps)
  OBVIOUS
<1>2. PICK f \in [0 .. N -> Seq(P)] :
         /\ f[0] = tbl
         /\ \A n \in 1 .. N : f[n] = AllocatePrefix(f[n - 1], ps[n])
         /\ Allocated(tbl, ps) = f[N]
  BY <1>1, AllocatedSteps
<1> DEFINE Good(n) == /\ Injective(f[n]) /\ Continues(f[n], tbl)
                      /\ \A m \in 1 .. n : Holds(f[n], ps[m])
           G == {n \in 0 .. N : Good(n)}
<1>3. 0 \in G
  <2>1. Continues(tbl, tbl)
    BY DEF Continues
  <2>2. \A m \in 1 .. 0 : FALSE
    OBVIOUS
  <2> QED
    BY <1>2, <2>1, <2>2
<1>4. ASSUME NEW n \in 1 .. N, n - 1 \in G PROVE n \in G
  <2>1. n - 1 \in 0 .. N /\ n \in 0 .. N
    OBVIOUS
  <2>2. f[n - 1] \in Seq(P) /\ f[n] \in Seq(P) /\ ps[n] \in P
    BY <1>1, <1>2, <2>1
  <2>3. Injective(f[n - 1]) /\ Continues(f[n - 1], tbl) /\ \A m \in 1 .. n - 1 : Holds(f[n - 1], ps[m])
    BY <1>4
  <2>4. f[n] = AllocatePrefix(f[n - 1], ps[n])
    BY <1>2
  <2>5. Injective(f[n]) /\ Continues(f[n], f[n - 1]) /\ Holds(f[n], ps[n])
    BY <2>2, <2>3, <2>4, AllocatePrefixAdds
  <2>6. Continues(f[n], tbl)
    BY <2>2, <2>3, <2>5, ContinuesTransitive
  <2>7. ASSUME NEW m \in 1 .. n PROVE Holds(f[n], ps[m])
    <3>1. CASE m = n
      BY <2>5, <3>1
    <3>2. CASE m # n
      <4>1. m \in 1 .. n - 1
        BY <3>2
      <4>2. Holds(f[n - 1], ps[m])
        BY <2>3, <4>1
      <4> QED
        BY <2>2, <2>5, <4>2, ContinuesHolds
    <3> QED
      BY <3>1, <3>2
  <2> QED
    BY <2>1, <2>5, <2>6, <2>7
<1>5. \A n \in 0 .. N : n \in G
  <2> HIDE DEF G
  <2> QED BY <1>3, <1>4, IntervalInduction
<1>6. N \in 0 .. N
  OBVIOUS
<1>7. Good(N)
  BY <1>5, <1>6
<1>8. f[N] \in Seq(P)
  BY <1>2, <1>6
<1> QED
  BY <1>1, <1>2, <1>7, <1>8

\* The prefixes a table has beyond another one, allocated over that one, give the table.
LEMMA AllocatedAgain ==
    ASSUME NEW P, NEW b \in Seq(P), NEW t \in Seq(P), Injective(t), Continues(t, b)
    PROVE  Allocated(b, SubSeq(t, Len(b) + 1, Len(t))) = t
<1>1. PICK B, T \in Nat : B = Len(b) /\ T = Len(t)
  OBVIOUS
<1>2. B <= T
  BY <1>1 DEF Continues
<1>3. PICK ps \in Seq(P) : ps = SubSeq(t, B + 1, T)
  <2>1. \A n \in B + 1 .. T : t[n] \in P
    BY <1>1
  <2>2. SubSeq(t, B + 1, T) \in Seq(P)
    BY <1>1, <1>2, <2>1
  <2> QED
    BY <2>2
<1>4. Len(ps) = T - B /\ \A n \in 1 .. T - B : ps[n] = t[B + n]
  BY <1>1, <1>2, <1>3
<1>5. PICK N \in Nat : N = T - B
  BY <1>2
<1>6. PICK f \in [0 .. N -> Seq(P)] :
         /\ f[0] = b
         /\ \A n \in 1 .. N : f[n] = AllocatePrefix(f[n - 1], ps[n])
         /\ Allocated(b, ps) = f[N]
  BY <1>4, <1>5, AllocatedSteps
<1> DEFINE Good(n) == Len(f[n]) = B + n /\ Continues(t, f[n])
           G == {n \in 0 .. N : Good(n)}
<1>7. 0 \in G
  BY <1>1, <1>6
<1>8. ASSUME NEW n \in 1 .. N, n - 1 \in G PROVE n \in G
  <2>1. n - 1 \in 0 .. N /\ n \in 0 .. N
    OBVIOUS
  <2>2. PICK g \in Seq(P) : g = f[n - 1]
    BY <1>6, <2>1
  <2>3. Len(g) = B + n - 1 /\ Continues(t, g)
    BY <1>8, <2>2
  <2>4. ps[n] = t[B + n] /\ B + n \in 1 .. T /\ ps[n] \in P
    BY <1>1, <1>4, <1>5
  <2>5. ~ Holds(g, ps[n])
    <3>1. ASSUME NEW m \in 1 .. Len(g), g[m] = ps[n] PROVE FALSE
      <4>1. t[m] = t[B + n] /\ m \in 1 .. Len(t) /\ B + n \in 1 .. Len(t) /\ m # B + n
        BY <1>1, <2>3, <2>4, <3>1 DEF Continues
      <4> QED
        BY <4>1 DEF Injective
    <3> QED
      BY <3>1 DEF Holds
  <2>6. f[n] = Append(g, ps[n])
    BY <1>6, <2>2, <2>4, <2>5, HoldsIsToSet DEF AllocatePrefix
  <2>7. Len(f[n]) = B + n /\ \A m \in 1 .. B + n : f[n][m] = IF m = B + n THEN ps[n] ELSE g[m]
    BY <2>3, <2>4, <2>6
  <2>8. \A m \in 1 .. B + n : t[m] = f[n][m]
    BY <2>3, <2>4, <2>7 DEF Continues
  <2>9. Continues(t, f[n])
    BY <1>1, <2>4, <2>7, <2>8 DEF Continues
  <2> QED
    BY <2>1, <2>7, <2>9
<1>9. \A n \in 0 .. N : n \in G
  <2> HIDE DEF G
  <2> QED BY <1>7, <1>8, IntervalInduction
<1>10. N \in 0 .. N
  OBVIOUS
<1>11. Good(N) /\ f[N] \in Seq(P)
  BY <1>6, <1>9, <1>10
<1>12. Len(f[N]) = T /\ \A m \in 1 .. T : f[N][m] = t[m]
  BY <1>5, <1>11 DEF Continues
<1>13. f[N] = t
  BY <1>1, <1>11, <1>12, SameSequence
<1> QED
  BY <1>1, <1>3, <1>6, <1>13

-----------------------------------------------------------------------------
(* Codes.                                                                  *)

\* The code of a prefix is where the table holds it, and it decodes back.
LEMMA CodeOfIsIndex ==
    ASSUME NEW P, NEW t \in Seq(P), NEW p, Holds(t, p)
    PROVE  CodeOf(t, p) \in 1 .. Len(t) /\ t[CodeOf(t, p)] = p
<1>1. DOMAIN t = 1 .. Len(t)
  OBVIOUS
<1>2. \E c \in DOMAIN t : t[c] = p
  BY <1>1 DEF Holds
<1>3. CodeOf(t, p) \in DOMAIN t /\ t[CodeOf(t, p)] = p
  BY <1>2, Zenon DEF CodeOf
<1> QED
  BY <1>1, <1>3

\* A longer table gives a prefix the code it had.
LEMMA CodeOfStays ==
    ASSUME NEW P, NEW s \in Seq(P), NEW t \in Seq(P), Injective(t), Continues(t, s),
           NEW p, Holds(s, p)
    PROVE  CodeOf(t, p) = CodeOf(s, p)
<1>1. PICK c, d : c = CodeOf(s, p) /\ d = CodeOf(t, p)
  OBVIOUS
<1>2. Holds(t, p)
  BY ContinuesHolds
<1>3. c \in 1 .. Len(s) /\ s[c] = p /\ d \in 1 .. Len(t) /\ t[d] = p
  BY <1>1, <1>2, CodeOfIsIndex
<1>4. Len(s) \in Nat /\ Len(t) \in Nat
  OBVIOUS
<1>5. c \in 1 .. Len(t) /\ t[c] = p
  BY <1>3, <1>4 DEF Continues
<1>6. c = d
  BY <1>3, <1>5 DEF Injective
<1> QED
  BY <1>1, <1>6

Prefix == {i[1] : i \in Iri}
Local == {i[2] : i \in Iri}
Sid == Nat \X Local
Covers(tbl, iris) == \A i \in iris : Holds(tbl, i[1])

\* An IRI is the pair of its prefix and its local name.
LEMMA IriIsPair ==
    ASSUME NEW i \in Iri
    PROVE  i = <<i[1], i[2]>> /\ i[1] \in Prefix /\ i[2] \in Local
  BY NameAssumption DEF Prefix, Local

\* Encoding gives pairs of a code of the table and a local name.
LEMMA SidsAreSids ==
    ASSUME NEW P, NEW t \in Seq(P), NEW iris \in SUBSET Iri, Covers(t, iris)
    PROVE  Sids(t, iris) \in SUBSET Sid /\ \A y \in Sids(t, iris) : y[1] \in 1 .. Len(t)
<1>1. ASSUME NEW y \in Sids(t, iris) PROVE y \in Sid /\ y[1] \in 1 .. Len(t)
  <2>1. PICK i \in iris : y = <<CodeOf(t, i[1]), i[2]>>
    BY <1>1 DEF Sids
  <2>2. Holds(t, i[1])
    BY DEF Covers
  <2>3. CodeOf(t, i[1]) \in 1 .. Len(t) /\ i[2] \in Local
    BY <2>2, CodeOfIsIndex, IriIsPair
  <2>4. Len(t) \in Nat
    OBVIOUS
  <2> QED
    BY <2>1, <2>3, <2>4 DEF Sid
<1> QED
  BY <1>1

\* Decoding undoes encoding.
LEMMA IrisOfSids ==
    ASSUME NEW P, NEW t \in Seq(P), NEW iris \in SUBSET Iri, Covers(t, iris)
    PROVE  Iris(t, Sids(t, iris)) = iris
<1>1. ASSUME NEW i \in iris
      PROVE  <<t[CodeOf(t, i[1])], i[2]>> = i
  <2>1. Holds(t, i[1])
    BY DEF Covers
  <2>2. t[CodeOf(t, i[1])] = i[1]
    BY <2>1, CodeOfIsIndex
  <2> QED
    BY <2>2, IriIsPair
<1>2. \A y \in Sids(t, iris) : <<t[y[1]], y[2]>> \in iris
  BY <1>1 DEF Sids
<1>3. ASSUME NEW i \in iris PROVE i \in Iris(t, Sids(t, iris))
  <2>1. PICK y : y = <<CodeOf(t, i[1]), i[2]>>
    OBVIOUS
  <2>2. y \in Sids(t, iris)
    BY <2>1 DEF Sids
  <2>3. i = <<t[y[1]], y[2]>>
    BY <1>1, <2>1
  <2> QED
    BY <2>2, <2>3 DEF Iris
<1>4. Iris(t, Sids(t, iris)) \subseteq iris
  BY <1>2 DEF Iris
<1> QED
  BY <1>3, <1>4

\* The remapped codes are the codes under the new table.
LEMMA RemappedSids ==
    ASSUME NEW st, NEW P, st.tbl \in Seq(P), NEW t, NEW iris \in SUBSET Iri, Covers(st.tbl, iris)
    PROVE  Remapped(st, t, Sids(st.tbl, iris)) = Sids(t, iris)
<1>1. ASSUME NEW i \in iris
      PROVE  st.tbl[CodeOf(st.tbl, i[1])] = i[1]
  <2>1. Holds(st.tbl, i[1])
    BY DEF Covers
  <2> QED
    BY <2>1, CodeOfIsIndex
<1>2. ASSUME NEW y \in Sids(st.tbl, iris)
      PROVE  \E i \in iris : y = <<CodeOf(st.tbl, i[1]), i[2]>> /\ <<CodeOf(t, st.tbl[y[1]]), y[2]>> = <<CodeOf(t, i[1]), i[2]>>
  <2>1. PICK i \in iris : y = <<CodeOf(st.tbl, i[1]), i[2]>>
    BY <1>2 DEF Sids
  <2>2. y[1] = CodeOf(st.tbl, i[1]) /\ y[2] = i[2]
    BY <2>1
  <2> QED
    BY <1>1, <2>1, <2>2
<1>3. ASSUME NEW z \in Remapped(st, t, Sids(st.tbl, iris)) PROVE z \in Sids(t, iris)
  <2>1. PICK y \in Sids(st.tbl, iris) : z = <<CodeOf(t, st.tbl[y[1]]), y[2]>>
    BY <1>3 DEF Remapped
  <2>2. PICK i \in iris : z = <<CodeOf(t, i[1]), i[2]>>
    BY <1>2, <2>1
  <2> QED
    BY <2>2 DEF Sids
<1>4. ASSUME NEW z \in Sids(t, iris) PROVE z \in Remapped(st, t, Sids(st.tbl, iris))
  <2>1. PICK i \in iris : z = <<CodeOf(t, i[1]), i[2]>>
    BY <1>4 DEF Sids
  <2>2. PICK y : y = <<CodeOf(st.tbl, i[1]), i[2]>>
    OBVIOUS
  <2>3. y \in Sids(st.tbl, iris)
    BY <2>2 DEF Sids
  <2>4. y[1] = CodeOf(st.tbl, i[1]) /\ y[2] = i[2]
    BY <2>2
  <2>5. z = <<CodeOf(t, st.tbl[y[1]]), y[2]>>
    BY <1>1, <2>1, <2>4
  <2> QED
    BY <2>3, <2>5 DEF Remapped
<1> QED
  BY <1>3, <1>4

-----------------------------------------------------------------------------
(* Histories: sequences of commits each of which names all the ones before. *)

LedgerState ==
    [head : Nat, t : Nat, data : [Key -> Nat], tbl : Seq(Prefix), placeholder : BOOLEAN]
Seen == UNION {[K -> Nat] : K \in SUBSET Key}
Commit ==
    [chain : Seq(Nat), wrote : SUBSET ((Prefix \X Local) \cup {Schema}), prefixes : Seq(Prefix),
     by : Writer \cup {NoOne}, meant : SUBSET Iri, seen : Seen]

IsHistory(cs) ==
    /\ cs \in Seq(Commit)
    /\ \A id \in 1 .. Len(cs) :
          Len(cs[id].chain) = id /\ \A n \in 1 .. id : cs[id].chain[n] = n

\* LoadedState over a sequence of commits other than the current one.
LoadedFrom(cs, id) == Replay(cs, Genesis, IF id = 0 THEN <<>> ELSE cs[id].chain)

\* The empty ledger and the placeholder are ledger states.
LEMMA GenesisTyped == Genesis \in LedgerState /\ Placeholder \in LedgerState
<1>1. <<>> \in Seq(Prefix)
  OBVIOUS
<1> QED
  BY <1>1 DEF Genesis, Placeholder, LedgerState

\* Allocating prefixes gives a table of prefixes.
LEMMA AllocatedTyped ==
    ASSUME NEW P, NEW tbl \in Seq(P), NEW ps \in Seq(P)
    PROVE  Allocated(tbl, ps) \in Seq(P)
<1>1. PICK f \in [0 .. Len(ps) -> Seq(P)] : Allocated(tbl, ps) = f[Len(ps)]
  BY AllocatedSteps
<1>2. Len(ps) \in 0 .. Len(ps)
  OBVIOUS
<1> QED
  BY <1>1, <1>2

\* A commit applied to a ledger state gives one.
LEMMA ApplyTyped ==
    ASSUME NEW s \in LedgerState, NEW id \in Nat, NEW c \in Commit
    PROVE  ApplySingleCommit(s, id, c) \in LedgerState
<1>1. s.tbl \in Seq(Prefix) /\ c.prefixes \in Seq(Prefix) /\ c.chain \in Seq(Nat) /\ s.data \in [Key -> Nat]
  BY DEF LedgerState, Commit
<1>2. Allocated(s.tbl, c.prefixes) \in Seq(Prefix)
  BY <1>1, AllocatedTyped
<1>3. Len(c.chain) \in Nat
  BY <1>1
<1>4. [k \in Key |-> IF k \in c.wrote THEN id ELSE s.data[k]] \in [Key -> Nat]
  BY <1>1
<1> QED
  BY <1>2, <1>3, <1>4 DEF ApplySingleCommit, LedgerState

ReplayRun(f, cs, s, ids) ==
    /\ f \in [0 .. Len(ids) -> LedgerState]
    /\ f[0] = s
    /\ \A n \in 1 .. Len(ids) : f[n] = ApplySingleCommit(f[n - 1], ids[n], cs[ids[n]])
    /\ Replay(cs, s, ids) = f[Len(ids)]

\* What the steps of a replay are.
LEMMA ReplaySteps ==
    ASSUME NEW cs \in Seq(Commit), NEW s \in LedgerState, NEW ids \in Seq(Nat),
           \A n \in 1 .. Len(ids) : ids[n] \in 1 .. Len(cs)
    PROVE  \E f : ReplayRun(f, cs, s, ids)
<1> DEFINE N == Len(ids)
           g == [y \in (1 .. N) \X LedgerState |-> ApplySingleCommit(y[2], ids[y[1]], cs[ids[y[1]]])]
           Body(u) == [n \in 0 .. N |->
                          IF n = 0 THEN s ELSE ApplySingleCommit(u[n - 1], ids[n], cs[ids[n]])]
<1>1. N \in Nat
  OBVIOUS
<1>2. \A n \in 1 .. N, y \in LedgerState : g[<<n, y>>] \in LedgerState
  <2> TAKE n \in 1 .. N, y \in LedgerState
  <2>1. ids[n] \in Nat /\ cs[ids[n]] \in Commit
    OBVIOUS
  <2>2. ApplySingleCommit(y, ids[n], cs[ids[n]]) \in LedgerState
    BY <2>1, ApplyTyped
  <2>3. <<n, y>> \in (1 .. N) \X LedgerState
    OBVIOUS
  <2> QED
    BY <2>2, <2>3
<1>3. PICK f : Recursion(f, N, LedgerState, s, g)
  <2> HIDE DEF g, N
  <2> QED BY <1>1, <1>2, RecursionExists
<1>4. \A n \in 1 .. N : f[n] = ApplySingleCommit(f[n - 1], ids[n], cs[ids[n]])
  <2> TAKE n \in 1 .. N
  <2>1. n - 1 \in 0 .. N
    BY <1>1
  <2>2. f[n - 1] \in LedgerState
    BY <1>3, <2>1 DEF Recursion
  <2>3. <<n, f[n - 1]>> \in (1 .. N) \X LedgerState
    BY <2>2
  <2> QED
    BY <1>3, <2>3 DEF Recursion
<1>5. f = Body(f)
  BY <1>3, <1>4 DEF Recursion
<1>6. PICK u : u = CHOOSE v : v = Body(v)
  OBVIOUS
<1>7. u = Body(u)
  <2> HIDE DEF Body
  <2> QED BY <1>5, <1>6
<1>8. Replay(cs, s, ids) = u[N]
  BY <1>6 DEF Replay
<1> HIDE DEF g
<1>9. \A n \in 0 .. N : u[n] = f[n]
  <2> DEFINE G == {n \in 0 .. N : u[n] = f[n]}
  <2>1. 0 \in G
    BY <1>3, <1>7 DEF Recursion
  <2>2. ASSUME NEW n \in 1 .. N, n - 1 \in G PROVE n \in G
    <3>1. n \in 0 .. N /\ n # 0 /\ u[n - 1] = f[n - 1]
      BY <2>2
    <3>2. u[n] = ApplySingleCommit(u[n - 1], ids[n], cs[ids[n]])
      BY <1>7, <3>1
    <3> QED
      BY <1>4, <3>1, <3>2
  <2>3. \A n \in 0 .. N : n \in G
    <3> HIDE DEF G, N
    <3> QED BY <1>1, <2>1, <2>2, IntervalInduction
  <2> QED
    BY <2>3
<1>10. f \in [0 .. N -> LedgerState] /\ f[0] = s
  BY <1>3 DEF Recursion
<1>11. Replay(cs, s, ids) = f[N]
  BY <1>1, <1>8, <1>9
<1> QED
  BY <1>4, <1>10, <1>11 DEF ReplayRun

\* The run of a history up to one of its commits.
LEMMA LoadedSteps ==
    ASSUME NEW cs, IsHistory(cs), NEW id \in 0 .. Len(cs)
    PROVE  \E f \in [0 .. id -> LedgerState] :
              /\ f[0] = Genesis
              /\ \A n \in 1 .. id : f[n] = ApplySingleCommit(f[n - 1], n, cs[n])
              /\ LoadedFrom(cs, id) = f[id]
<1>1. cs \in Seq(Commit) /\ Len(cs) \in Nat
  BY DEF IsHistory
<1>2. PICK ids : ids = IF id = 0 THEN <<>> ELSE cs[id].chain
  OBVIOUS
<1>3. ids \in Seq(Nat) /\ Len(ids) = id /\ \A n \in 1 .. id : ids[n] = n
  <2>1. CASE id = 0
    BY <1>2, <2>1
  <2>2. CASE id # 0
    <3>1. id \in 1 .. Len(cs)
      BY <1>1, <2>2
    <3>2. cs[id] \in Commit
      BY <1>1, <3>1
    <3> QED
      BY <1>2, <2>2, <3>1, <3>2 DEF IsHistory, Commit
  <2> QED
    BY <2>1, <2>2
<1>4. \A n \in 1 .. Len(ids) : ids[n] \in 1 .. Len(cs)
  BY <1>1, <1>3
<1>5. PICK f : ReplayRun(f, cs, Genesis, ids)
  BY <1>1, <1>3, <1>4, GenesisTyped, ReplaySteps
<1>6. \A n \in 1 .. id : f[n] = ApplySingleCommit(f[n - 1], n, cs[n])
  BY <1>3, <1>5 DEF ReplayRun
<1>7. LoadedFrom(cs, id) = f[id]
  BY <1>2, <1>3, <1>5 DEF LoadedFrom, ReplayRun
<1>8. f \in [0 .. id -> LedgerState] /\ f[0] = Genesis
  BY <1>3, <1>5 DEF ReplayRun
<1> QED
  BY <1>6, <1>7, <1>8

\* A load is the load of the commit before with one commit applied.
LEMMA LoadedUnfolds ==
    ASSUME NEW cs, IsHistory(cs)
    PROVE  /\ LoadedFrom(cs, 0) = Genesis
           /\ \A id \in 0 .. Len(cs) : LoadedFrom(cs, id) \in LedgerState
           /\ \A id \in 1 .. Len(cs) :
                 LoadedFrom(cs, id) = ApplySingleCommit(LoadedFrom(cs, id - 1), id, cs[id])
<1>0. Len(cs) \in Nat
  BY DEF IsHistory
<1>1. LoadedFrom(cs, 0) = Genesis
  <2>1. 0 \in 0 .. Len(cs)
    BY <1>0
  <2> QED
    BY <2>1, LoadedSteps
<1>2. ASSUME NEW id \in 0 .. Len(cs) PROVE LoadedFrom(cs, id) \in LedgerState
  <2>1. PICK f \in [0 .. id -> LedgerState] : LoadedFrom(cs, id) = f[id]
    BY LoadedSteps
  <2> QED
    BY <1>0, <2>1
<1>3. ASSUME NEW id \in 1 .. Len(cs)
      PROVE  LoadedFrom(cs, id) = ApplySingleCommit(LoadedFrom(cs, id - 1), id, cs[id])
  <2>1. id \in 0 .. Len(cs) /\ id - 1 \in 0 .. Len(cs) /\ id - 1 \in Nat
    BY <1>0
  <2>2. PICK f \in [0 .. id -> LedgerState] :
              /\ f[0] = Genesis
              /\ \A n \in 1 .. id : f[n] = ApplySingleCommit(f[n - 1], n, cs[n])
              /\ LoadedFrom(cs, id) = f[id]
    BY <2>1, LoadedSteps
  <2>3. PICK M \in Nat : M = id - 1
    BY <2>1
  <2>4. PICK g \in [0 .. M -> LedgerState] :
              /\ g[0] = Genesis
              /\ \A n \in 1 .. M : g[n] = ApplySingleCommit(g[n - 1], n, cs[n])
              /\ LoadedFrom(cs, M) = g[M]
    BY <2>1, <2>3, LoadedSteps
  <2> DEFINE G == {n \in 0 .. M : f[n] = g[n]}
  <2>5. 0 \in G
    BY <2>2, <2>4
  <2>6. \A n \in 1 .. M : n - 1 \in G => n \in G
    BY <2>2, <2>3, <2>4
  <2>7. \A n \in 0 .. M : n \in G
    <3> HIDE DEF G
    <3> QED BY <2>5, <2>6, IntervalInduction
  <2>8. f[M] = g[M]
    BY <2>7
  <2>9. f[id] = ApplySingleCommit(f[id - 1], id, cs[id])
    BY <1>0, <2>2
  <2> QED
    BY <2>2, <2>3, <2>4, <2>8, <2>9
<1> QED
  BY <1>1, <1>2, <1>3

\* The commits that follow do not change what a commit loads.
LEMMA LoadedStays ==
    ASSUME NEW cs, NEW ds, IsHistory(cs), IsHistory(ds), Continues(ds, cs)
    PROVE  \A id \in 0 .. Len(cs) : LoadedFrom(ds, id) = LoadedFrom(cs, id)
<1>1. PICK N, M \in Nat : N = Len(cs) /\ M = Len(ds)
  BY DEF IsHistory
<1>2. N <= M /\ \A n \in 1 .. N : ds[n] = cs[n]
  BY <1>1 DEF Continues
<1> DEFINE G == {n \in 0 .. N : LoadedFrom(ds, n) = LoadedFrom(cs, n)}
<1>3. 0 \in G
  BY LoadedUnfolds
<1>4. ASSUME NEW n \in 1 .. N, n - 1 \in G PROVE n \in G
  <2>1. n \in 1 .. M /\ n \in 0 .. N
    BY <1>2
  <2>2. LoadedFrom(cs, n) = ApplySingleCommit(LoadedFrom(cs, n - 1), n, cs[n])
    BY <1>1, LoadedUnfolds
  <2>3. LoadedFrom(ds, n) = ApplySingleCommit(LoadedFrom(ds, n - 1), n, ds[n])
    BY <1>1, <2>1, LoadedUnfolds
  <2> QED
    BY <1>2, <1>4, <2>1, <2>2, <2>3
<1>5. \A n \in 0 .. N : n \in G
  <2> HIDE DEF G
  <2> QED BY <1>3, <1>4, IntervalInduction
<1> QED
  BY <1>1, <1>5

-----------------------------------------------------------------------------
(* Good histories.                                                         *)

\* What loading commit id gives: its head and t are id, and it is no placeholder.
LEMMA LoadedFields ==
    ASSUME NEW cs, IsHistory(cs), NEW id \in 0 .. Len(cs)
    PROVE  /\ LoadedFrom(cs, id).head = id
           /\ LoadedFrom(cs, id).t = id
           /\ LoadedFrom(cs, id).data \in [Key -> Nat]
           /\ LoadedFrom(cs, id).tbl \in Seq(Prefix)
           /\ LoadedFrom(cs, id).placeholder = FALSE
           /\ id # 0 =>
                 LoadedFrom(cs, id).tbl = Allocated(LoadedFrom(cs, id - 1).tbl, cs[id].prefixes)
<1>1. PICK s \in LedgerState : s = LoadedFrom(cs, id)
  BY LoadedUnfolds
<1>2. Len(cs) \in Nat
  BY DEF IsHistory
<1>3. s.data \in [Key -> Nat] /\ s.tbl \in Seq(Prefix)
  BY DEF LedgerState
<1>4. CASE id = 0
  <2>1. s = Genesis
    BY <1>1, <1>4, LoadedUnfolds
  <2> QED
    BY <1>1, <1>3, <1>4, <2>1 DEF Genesis
<1>5. CASE id # 0
  <2>1. id \in 1 .. Len(cs)
    BY <1>2, <1>5
  <2>2. s = ApplySingleCommit(LoadedFrom(cs, id - 1), id, cs[id])
    BY <1>1, <2>1, LoadedUnfolds
  <2>3. Len(cs[id].chain) = id
    BY <2>1 DEF IsHistory
  <2>4. PICK p : p = LoadedFrom(cs, id - 1)
    OBVIOUS
  <2>5. s = [head |-> id, t |-> id,
             data |-> [k \in Key |-> IF k \in cs[id].wrote THEN id ELSE p.data[k]],
             tbl |-> Allocated(p.tbl, cs[id].prefixes),
             placeholder |-> FALSE]
    BY <2>2, <2>3, <2>4 DEF ApplySingleCommit
  <2>6. /\ s.head = id /\ s.t = id /\ s.placeholder = FALSE
        /\ s.tbl = Allocated(p.tbl, cs[id].prefixes)
    BY <2>5
  <2> QED
    BY <1>1, <1>3, <2>4, <2>6
<1> QED
  BY <1>4, <1>5

\* A key that a commit does not write has the value it had.
LEMMA UnwrittenStays ==
    ASSUME NEW cs, IsHistory(cs), NEW id \in 1 .. Len(cs), NEW k \in Key, k \notin cs[id].wrote
    PROVE  LoadedFrom(cs, id).data[k] = LoadedFrom(cs, id - 1).data[k]
<1>1. LoadedFrom(cs, id) = ApplySingleCommit(LoadedFrom(cs, id - 1), id, cs[id])
  BY LoadedUnfolds
<1> QED
  BY <1>1 DEF ApplySingleCommit

\* Commit id was staged on what commit id - 1 loads, and names what its request meant.
GoodCommit(cs, id) ==
    /\ Injective(LoadedFrom(cs, id).tbl)
    /\ Continues(LoadedFrom(cs, id).tbl, LoadedFrom(cs, id - 1).tbl)
    /\ Covers(LoadedFrom(cs, id).tbl, cs[id].meant)
    /\ cs[id].wrote \ {Schema} = cs[id].meant
    /\ \A k \in DOMAIN cs[id].seen : cs[id].seen[k] = LoadedFrom(cs, id - 1).data[k]

GoodHistory(cs) == IsHistory(cs) /\ \A id \in 1 .. Len(cs) : GoodCommit(cs, id)

\* Loading a good history never gives one prefix two codes.
LEMMA HistoryInjective ==
    ASSUME NEW cs, GoodHistory(cs), NEW id \in 0 .. Len(cs)
    PROVE  Injective(LoadedFrom(cs, id).tbl)
<1>1. CASE id = 0
  <2>1. LoadedFrom(cs, id).tbl = <<>>
    BY <1>1, LoadedUnfolds DEF GoodHistory, Genesis
  <2> QED
    BY <2>1 DEF Injective
<1>2. CASE id # 0
  <2>1. id \in 1 .. Len(cs)
    BY <1>2 DEF GoodHistory, IsHistory
  <2> QED
    BY <2>1 DEF GoodHistory, GoodCommit
<1> QED
  BY <1>1, <1>2

\* Codes are never taken back, and a key changes only where a commit writes it.
LEMMA HistoryGrows ==
    ASSUME NEW cs, GoodHistory(cs), NEW a \in 0 .. Len(cs), NEW b \in 0 .. Len(cs), a <= b
    PROVE  /\ Continues(LoadedFrom(cs, b).tbl, LoadedFrom(cs, a).tbl)
           /\ \A k \in Key : (\A j \in a + 1 .. b : k \notin cs[j].wrote)
                 => LoadedFrom(cs, b).data[k] = LoadedFrom(cs, a).data[k]
<1>1. IsHistory(cs) /\ Len(cs) \in Nat
  BY DEF GoodHistory, IsHistory
<1>2. PICK N \in Nat : N = b - a
  BY <1>1
<1> DEFINE Good(n) ==
              /\ Continues(LoadedFrom(cs, a + n).tbl, LoadedFrom(cs, a).tbl)
              /\ \A k \in Key : (\A j \in a + 1 .. a + n : k \notin cs[j].wrote)
                    => LoadedFrom(cs, a + n).data[k] = LoadedFrom(cs, a).data[k]
           G == {n \in 0 .. N : Good(n)}
<1>3. 0 \in G
  <2>1. a + 0 = a
    OBVIOUS
  <2>2. LoadedFrom(cs, a).tbl \in Seq(Prefix)
    BY <1>1, LoadedFields
  <2>3. Continues(LoadedFrom(cs, a).tbl, LoadedFrom(cs, a).tbl)
    BY <2>2 DEF Continues
  <2> QED
    BY <2>1, <2>3
<1>4. ASSUME NEW n \in 1 .. N, n - 1 \in G PROVE n \in G
  <2>1. PICK m \in 1 .. Len(cs) : m = a + n
    BY <1>1, <1>2
  <2>2. m - 1 = a + (n - 1) /\ m - 1 \in 0 .. Len(cs) /\ m \in 0 .. Len(cs) /\ m # 0
    BY <1>1, <2>1
  <2>3. Continues(LoadedFrom(cs, m - 1).tbl, LoadedFrom(cs, a).tbl)
    BY <1>4, <2>2
  <2>4. Continues(LoadedFrom(cs, m).tbl, LoadedFrom(cs, m - 1).tbl)
    BY DEF GoodHistory, GoodCommit
  <2>5. /\ LoadedFrom(cs, m).tbl \in Seq(Prefix)
        /\ LoadedFrom(cs, m - 1).tbl \in Seq(Prefix)
        /\ LoadedFrom(cs, a).tbl \in Seq(Prefix)
    BY <1>1, <2>2, LoadedFields
  <2>6. Continues(LoadedFrom(cs, m).tbl, LoadedFrom(cs, a).tbl)
    BY <2>3, <2>4, <2>5, ContinuesTransitive
  <2>7. ASSUME NEW k \in Key, \A j \in a + 1 .. m : k \notin cs[j].wrote
        PROVE  LoadedFrom(cs, m).data[k] = LoadedFrom(cs, a).data[k]
    <3>1. k \notin cs[m].wrote
      BY <1>1, <2>1, <2>7
    <3>2. \A j \in a + 1 .. a + (n - 1) : k \notin cs[j].wrote
      BY <1>1, <2>1, <2>7
    <3>3. LoadedFrom(cs, m - 1).data[k] = LoadedFrom(cs, a).data[k]
      BY <1>4, <2>2, <3>2
    <3>4. LoadedFrom(cs, m).data[k] = LoadedFrom(cs, m - 1).data[k]
      BY <1>1, <3>1, UnwrittenStays
    <3> QED
      BY <3>3, <3>4
  <2> QED
    BY <2>1, <2>6, <2>7
<1>5. \A n \in 0 .. N : n \in G
  <2> HIDE DEF G
  <2> QED BY <1>3, <1>4, IntervalInduction
<1>6. N \in 0 .. N /\ a + N = b
  BY <1>1, <1>2
<1>7. N \in G
  <2> HIDE DEF G
  <2> QED BY <1>5, <1>6
<1>8. Good(N)
  BY <1>7
<1> QED
  BY <1>6, <1>8

-----------------------------------------------------------------------------
(* Cached states, stages and rings over a history.                         *)

\* A cached state, or the placeholder, has what the commit it names loads.
Faithful(cs, s) ==
    /\ s \in LedgerState
    /\ s.head \in 0 .. Len(cs) /\ s.t = s.head
    /\ s.data = LoadedFrom(cs, s.head).data
    /\ s.tbl = LoadedFrom(cs, s.head).tbl

StageType ==
    [base : LedgerState, tbl : Seq(Prefix), wrote : SUBSET Sid, schema : BOOLEAN,
     bounded : BOOLEAN, scope : SUBSET Sid, meant : SUBSET Iri, seen : Seen]

GoodStage(cs, st) ==
    /\ st \in StageType
    /\ Faithful(cs, st.base)
    /\ Injective(st.tbl)
    /\ Continues(st.tbl, st.base.tbl)
    /\ Covers(st.tbl, st.meant)
    /\ st.wrote = Sids(st.tbl, st.meant)
    /\ \A k \in DOMAIN st.seen : st.seen[k] = st.base.data[k]
    /\ \A y \in st.scope : y[1] \in 1 .. Len(st.tbl)
    /\ st.bounded => \A k \in DOMAIN st.seen \ {Schema} :
          Holds(st.tbl, k[1]) /\ <<CodeOf(st.tbl, k[1]), k[2]>> \in st.scope

FootprintType == [t : Nat, parent : Nat, id : Nat, all : BOOLEAN, subjects : SUBSET Sid]

GoodFootprint(cs, f) ==
    /\ f.id \in 1 .. Len(cs) /\ f.t = f.id /\ f.parent = f.id - 1
    /\ Schema \in cs[f.id].wrote => f.all
    /\ f.subjects = Sids(LoadedFrom(cs, f.id).tbl, cs[f.id].meant)

GoodRing(cs, r) ==
    /\ r \in Seq(FootprintType)
    /\ \A i \in 1 .. Len(r) : GoodFootprint(cs, r[i]) /\ r[i].id = r[1].id + (i - 1)

\* What is loaded is faithful.
LEMMA LoadedFaithful ==
    ASSUME NEW cs, IsHistory(cs), NEW id \in 0 .. Len(cs)
    PROVE  Faithful(cs, LoadedFrom(cs, id))
<1>1. LoadedFrom(cs, id) \in LedgerState
  BY LoadedUnfolds
<1>2. LoadedFrom(cs, id).head = id /\ LoadedFrom(cs, id).t = id
  BY LoadedFields
<1> QED
  BY <1>1, <1>2 DEF Faithful

\* The placeholder and the empty ledger are faithful to having no commit.
LEMMA PlaceholderFaithful ==
    ASSUME NEW cs, IsHistory(cs)
    PROVE  Faithful(cs, Placeholder) /\ Faithful(cs, Genesis)
<1>1. LoadedFrom(cs, 0) = Genesis /\ 0 \in 0 .. Len(cs)
  BY LoadedUnfolds DEF IsHistory
<1>2. Placeholder.head = 0 /\ Placeholder.t = 0 /\ Placeholder.data = Genesis.data
      /\ Placeholder.tbl = Genesis.tbl /\ Genesis.head = 0 /\ Genesis.t = 0
  BY DEF Placeholder, Genesis
<1> QED
  BY <1>1, <1>2, GenesisTyped DEF Faithful

\* One commit applied to what is faithful to the commit before gives what it loads.
LEMMA ApplyFaithful ==
    ASSUME NEW cs, IsHistory(cs), NEW s, Faithful(cs, s), NEW id \in 1 .. Len(cs), id = s.head + 1
    PROVE  ApplySingleCommit(s, id, cs[id]) = LoadedFrom(cs, id)
<1>1. s.head = id - 1
  BY DEF Faithful, IsHistory
<1>2. s.data = LoadedFrom(cs, id - 1).data /\ s.tbl = LoadedFrom(cs, id - 1).tbl
  BY <1>1 DEF Faithful
<1>3. LoadedFrom(cs, id) = ApplySingleCommit(LoadedFrom(cs, id - 1), id, cs[id])
  BY LoadedUnfolds
<1> QED
  BY <1>2, <1>3 DEF ApplySingleCommit

\* A faithful state stays faithful when commits are added.
LEMMA FaithfulStays ==
    ASSUME NEW cs, NEW ds, IsHistory(cs), IsHistory(ds), Continues(ds, cs), NEW s, Faithful(cs, s)
    PROVE  Faithful(ds, s)
<1>1. s.head \in 0 .. Len(cs)
  BY DEF Faithful
<1>2. LoadedFrom(ds, s.head) = LoadedFrom(cs, s.head)
  BY <1>1, LoadedStays
<1>3. s.head \in 0 .. Len(ds)
  <2>1. Len(cs) \in Nat /\ Len(ds) \in Nat /\ Len(cs) <= Len(ds)
    BY DEF IsHistory, Continues
  <2> QED
    BY <1>1, <2>1
<1> QED
  BY <1>2, <1>3 DEF Faithful

\* So does a stage ...
LEMMA GoodStageStays ==
    ASSUME NEW cs, NEW ds, IsHistory(cs), IsHistory(ds), Continues(ds, cs), NEW st, GoodStage(cs, st)
    PROVE  GoodStage(ds, st)
<1>1. Faithful(cs, st.base)
  BY DEF GoodStage
<1>2. Faithful(ds, st.base)
  BY <1>1, FaithfulStays
<1> QED
  BY <1>2 DEF GoodStage

\* ... and a footprint ...
LEMMA GoodFootprintStays ==
    ASSUME NEW cs, NEW ds, IsHistory(cs), IsHistory(ds), Continues(ds, cs), NEW f, GoodFootprint(cs, f)
    PROVE  GoodFootprint(ds, f)
<1>1. f.id \in 1 .. Len(cs)
  BY DEF GoodFootprint
<1>2. Len(cs) \in Nat /\ Len(ds) \in Nat /\ Len(cs) <= Len(ds) /\ \A n \in 1 .. Len(cs) : ds[n] = cs[n]
  BY DEF IsHistory, Continues
<1>3. ds[f.id] = cs[f.id] /\ f.id \in 1 .. Len(ds) /\ f.id \in 0 .. Len(cs)
  BY <1>1, <1>2
<1>4. LoadedFrom(ds, f.id) = LoadedFrom(cs, f.id)
  BY <1>3, LoadedStays
<1> QED
  BY <1>3, <1>4 DEF GoodFootprint

\* ... and a ring of them.
LEMMA GoodRingStays ==
    ASSUME NEW cs, NEW ds, IsHistory(cs), IsHistory(ds), Continues(ds, cs), NEW r, GoodRing(cs, r)
    PROVE  GoodRing(ds, r)
<1>1. \A i \in 1 .. Len(r) : GoodFootprint(ds, r[i])
  BY GoodFootprintStays DEF GoodRing
<1> QED
  BY <1>1 DEF GoodRing

\* Replaying consecutive commits on a faithful state gives a faithful one.
LEMMA ReplayFaithful ==
    ASSUME NEW cs, IsHistory(cs), NEW s, Faithful(cs, s), NEW b \in 0 .. Len(cs), s.head < b,
           NEW ids \in Seq(Nat), Len(ids) = b - s.head,
           \A n \in 1 .. Len(ids) : ids[n] = s.head + n
    PROVE  Faithful(cs, Replay(cs, s, ids)) /\ Replay(cs, s, ids).placeholder = FALSE
<1>1. PICK N, a \in Nat : N = Len(ids) /\ a = s.head /\ a + N = b
  BY DEF Faithful, IsHistory
<1>2. cs \in Seq(Commit) /\ Len(cs) \in Nat /\ s \in LedgerState
  BY DEF IsHistory, Faithful
<1>0. \A n \in 1 .. N : a + n \in 1 .. Len(cs)
  <2>1. PICK M \in Nat : M = Len(cs)
    BY <1>2
  <2>2. a + N \in 0 .. M
    BY <1>1, <2>1
  <2>3. \A n \in 1 .. N : a + n \in 1 .. M
    BY <2>2
  <2> QED
    BY <2>1, <2>3
<1>3. \A n \in 1 .. Len(ids) : ids[n] \in 1 .. Len(cs)
  <2> TAKE n \in 1 .. Len(ids)
  <2>1. ids[n] = a + n /\ n \in 1 .. N
    BY <1>1
  <2> QED
    BY <1>0, <2>1
<1>4. PICK f : ReplayRun(f, cs, s, ids)
  BY <1>2, <1>3, ReplaySteps
<1> DEFINE G == {n \in 0 .. N : Faithful(cs, f[n]) /\ f[n].head = a + n /\ (n > 0 => f[n].placeholder = FALSE)}
<1>5. 0 \in G
  BY <1>1, <1>4 DEF ReplayRun
<1>6. ASSUME NEW n \in 1 .. N, n - 1 \in G PROVE n \in G
  <2>1. Faithful(cs, f[n - 1]) /\ f[n - 1].head = a + (n - 1)
    BY <1>6
  <2>2. PICK m \in 1 .. Len(cs) : m = a + n
    <3>1. a + n \in 1 .. Len(cs)
      BY <1>0
    <3> QED
      BY <3>1
  <2>3. m = f[n - 1].head + 1 /\ m \in 0 .. Len(cs)
    BY <1>2, <2>1, <2>2
  <2>4. f[n] = ApplySingleCommit(f[n - 1], m, cs[m])
    BY <1>1, <1>4, <2>2 DEF ReplayRun
  <2>5. f[n] = LoadedFrom(cs, m)
    BY <2>1, <2>3, <2>4, ApplyFaithful
  <2>6. f[n].head = m /\ f[n].placeholder = FALSE
    <3>1. LoadedFrom(cs, m).head = m /\ LoadedFrom(cs, m).placeholder = FALSE
      BY <2>3, LoadedFields
    <3> QED
      BY <2>5, <3>1
  <2>7. Faithful(cs, f[n])
    BY <2>3, <2>5, LoadedFaithful
  <2> QED
    BY <2>2, <2>6, <2>7
<1>7. \A n \in 0 .. N : n \in G
  <2> HIDE DEF G
  <2> QED BY <1>5, <1>6, IntervalInduction
<1>8. N \in 0 .. N
  OBVIOUS
<1>9. N \in G
  <2> HIDE DEF G
  <2> QED BY <1>7, <1>8
<1>10. Replay(cs, s, ids) = f[N]
  BY <1>1, <1>4 DEF ReplayRun
<1>11. Faithful(cs, f[N]) /\ f[N].head = b /\ (N > 0 => f[N].placeholder = FALSE)
  BY <1>1, <1>9
<1>12. N > 0
  BY <1>1
<1> QED
  BY <1>10, <1>11, <1>12

\* The prefixes of IRIs are prefixes.
LEMMA PrefixesTyped ==
    ASSUME NEW iris \in Seq(Iri)
    PROVE  /\ PrefixesOf(iris) \in Seq(Prefix)
           /\ Len(PrefixesOf(iris)) = Len(iris)
           /\ \A n \in 1 .. Len(iris) : PrefixesOf(iris)[n] = iris[n][1]
<1>1. \A n \in 1 .. Len(iris) : iris[n][1] \in Prefix
  BY DEF Prefix
<1> QED
  BY <1>1 DEF PrefixesOf

IsRequest(r) == r \in RequestType /\ r.reads \cup r.writes \subseteq ToSet(r.mentions)

\* Staging on a faithful state gives a good stage of that state.
LEMMA StageOnGood ==
    ASSUME NEW cs, GoodHistory(cs), NEW s, Faithful(cs, s), NEW r, IsRequest(r)
    PROVE  GoodStage(cs, StageOn(r, s)) /\ StageOn(r, s).base = s
<1>1. /\ r.mentions \in Seq(Iri) /\ r.reads \in SUBSET Iri /\ r.writes \in SUBSET Iri
      /\ r.bounded \in BOOLEAN /\ r.schema \in BOOLEAN
      /\ r.reads \cup r.writes \subseteq ToSet(r.mentions)
  BY DEF IsRequest, RequestType
<1>2. PICK tbl : tbl = Allocated(s.tbl, PrefixesOf(r.mentions))
  OBVIOUS
<1>3. PICK written \in SUBSET Iri : written = WrittenBy(r, s) /\ written \subseteq r.writes
  <2>1. WrittenBy(r, s) = {} \/ WrittenBy(r, s) = r.writes
    BY DEF WrittenBy
  <2> QED
    BY <1>1, <2>1
<1>4. PICK seen : seen = [k \in ReadBy(r) |-> s.data[k]]
  OBVIOUS
<1>5. s \in LedgerState /\ s.tbl \in Seq(Prefix) /\ s.data \in [Key -> Nat] /\ Injective(s.tbl)
  <2>1. s.head \in 0 .. Len(cs) /\ s.tbl = LoadedFrom(cs, s.head).tbl /\ s \in LedgerState
    BY DEF Faithful
  <2>2. Injective(s.tbl)
    BY <2>1, HistoryInjective
  <2> QED
    BY <2>1, <2>2 DEF LedgerState
<1>6. PICK ps \in Seq(Prefix) : ps = PrefixesOf(r.mentions)
  BY <1>1, PrefixesTyped
<1>7. /\ tbl \in Seq(Prefix) /\ Injective(tbl) /\ Continues(tbl, s.tbl)
      /\ \A n \in 1 .. Len(ps) : Holds(tbl, ps[n])
  BY <1>2, <1>5, <1>6, AllocatedExtends
<1>8. \A i \in ToSet(r.mentions) : Holds(tbl, i[1])
  <2> TAKE i \in ToSet(r.mentions)
  <2>1. PICK n \in 1 .. Len(r.mentions) : i = r.mentions[n]
    BY <1>1 DEF ToSet
  <2>2. n \in 1 .. Len(ps) /\ ps[n] = i[1]
    BY <1>1, <1>6, <2>1, PrefixesTyped
  <2> QED
    BY <1>7, <2>2
<1>9. Covers(tbl, written) /\ Covers(tbl, r.reads \cup written)
  BY <1>1, <1>3, <1>8 DEF Covers
<1>10. Sids(tbl, written) \in SUBSET Sid
  BY <1>7, <1>9, SidsAreSids
<1>11. PICK iris \in SUBSET Iri : iris = r.reads \cup written
  BY <1>1
<1>12. Sids(tbl, iris) \in SUBSET Sid /\ \A y \in Sids(tbl, iris) : y[1] \in 1 .. Len(tbl)
  BY <1>7, <1>9, <1>11, SidsAreSids
<1>13. PICK st : st = StageOn(r, s)
  OBVIOUS
<1>14. st = [base |-> s, tbl |-> tbl, wrote |-> Sids(tbl, written), schema |-> r.schema,
             bounded |-> r.bounded, scope |-> Sids(tbl, iris), meant |-> written, seen |-> seen]
  BY <1>2, <1>3, <1>4, <1>11, <1>13 DEF StageOn
<1>15. ReadBy(r) \in SUBSET Key /\ (r.bounded => ReadBy(r) = r.reads \cup {Schema})
  BY <1>1 DEF ReadBy, Key
<1>16. seen \in Seen /\ DOMAIN seen = ReadBy(r) /\ \A k \in DOMAIN seen : seen[k] = s.data[k]
  <2>1. seen \in [ReadBy(r) -> Nat]
    BY <1>4, <1>5, <1>15
  <2>2. seen \in Seen
    BY <1>15, <2>1 DEF Seen
  <2> QED
    BY <1>4, <2>2
<1>17. st \in StageType
  BY <1>1, <1>3, <1>5, <1>7, <1>10, <1>12, <1>14, <1>16 DEF StageType
<1>18. /\ st.base = s /\ st.tbl = tbl /\ st.wrote = Sids(tbl, written) /\ st.bounded = r.bounded
       /\ st.scope = Sids(tbl, iris) /\ st.meant = written /\ st.seen = seen
  BY <1>14
<1>19. ASSUME r.bounded, NEW k \in DOMAIN seen \ {Schema}
       PROVE  Holds(tbl, k[1]) /\ <<CodeOf(tbl, k[1]), k[2]>> \in Sids(tbl, iris)
  <2>1. k \in iris
    BY <1>11, <1>15, <1>16, <1>19
  <2> QED
    BY <1>9, <1>11, <2>1 DEF Covers, Sids
<1> HIDE DEF Covers, Holds, Sids
<1> QED
  BY <1>7, <1>9, <1>12, <1>13, <1>16, <1>17, <1>18, <1>19 DEF GoodStage

-----------------------------------------------------------------------------
(* Landing a stage, re-basing one, and the ring.                           *)

IsAuthor(y) == y \in Writer \cup {NoOne}

\* CommitOf over a sequence of commits other than the current one.
CommitFrom(cs, st, y) ==
    [chain |-> Append(IF st.base.head = 0 THEN <<>> ELSE cs[st.base.head].chain, Len(cs) + 1),
     wrote |-> Iris(st.tbl, st.wrote) \cup (IF st.schema THEN {Schema} ELSE {}),
     prefixes |-> NewPrefixes(st),
     by |-> y,
     meant |-> st.meant,
     seen |-> st.seen]

\* The commit of a good stage on the head: its chain, what it writes and what it names.
LEMMA CommitTyped ==
    ASSUME NEW cs, IsHistory(cs), NEW st, GoodStage(cs, st), NEW y, IsAuthor(y),
           st.base.head = Len(cs)
    PROVE  /\ CommitFrom(cs, st, y) \in Commit
           /\ Len(CommitFrom(cs, st, y).chain) = Len(cs) + 1
           /\ \A n \in 1 .. Len(cs) + 1 : CommitFrom(cs, st, y).chain[n] = n
           /\ CommitFrom(cs, st, y).wrote \ {Schema} = st.meant
           /\ CommitFrom(cs, st, y).meant = st.meant
           /\ CommitFrom(cs, st, y).seen = st.seen
           /\ Schema \in CommitFrom(cs, st, y).wrote => st.schema
           /\ CommitFrom(cs, st, y).by = y
           /\ CommitFrom(cs, st, y).prefixes = NewPrefixes(st)
<1>1. PICK N \in Nat : N = Len(cs)
  BY DEF IsHistory
<1>2. cs \in Seq(Commit)
  BY DEF IsHistory
<1>3. PICK old : old = IF st.base.head = 0 THEN <<>> ELSE cs[st.base.head].chain
  OBVIOUS
<1>4. old \in Seq(Nat) /\ Len(old) = N /\ \A n \in 1 .. N : old[n] = n
  <2>1. CASE N = 0
    BY <1>1, <1>3, <2>1
  <2>2. CASE N # 0
    <3>1. N \in 1 .. Len(cs) /\ old = cs[N].chain
      BY <1>1, <1>3, <2>2
    <3>2. cs[N] \in Commit
      BY <1>2, <3>1
    <3> QED
      BY <3>1, <3>2 DEF IsHistory, Commit
  <2> QED
    BY <2>1, <2>2
<1>5. PICK chain : chain = Append(old, N + 1)
  OBVIOUS
<1>6. chain \in Seq(Nat) /\ Len(chain) = N + 1 /\ \A n \in 1 .. N + 1 : chain[n] = n
  BY <1>4, <1>5
<1>7. st \in StageType /\ Covers(st.tbl, st.meant) /\ st.wrote = Sids(st.tbl, st.meant)
  BY DEF GoodStage
<1>8. st.tbl \in Seq(Prefix) /\ st.base \in LedgerState /\ st.meant \in SUBSET Iri /\ st.seen \in Seen
      /\ st.schema \in BOOLEAN
  BY <1>7 DEF StageType
<1>9. Iris(st.tbl, st.wrote) = st.meant
  BY <1>7, <1>8, IrisOfSids
<1>10. PICK wrote : wrote = Iris(st.tbl, st.wrote) \cup (IF st.schema THEN {Schema} ELSE {})
  OBVIOUS
<1>11. wrote \subseteq (Prefix \X Local) \cup {Schema}
  <2>1. \A i \in Iri : i \in Prefix \X Local
    BY IriIsPair
  <2> QED
    BY <1>8, <1>9, <1>10, <2>1
<1>12. wrote \ {Schema} = st.meant /\ (Schema \in wrote => st.schema)
  BY <1>8, <1>9, <1>10, NameAssumption
<1>13. NewPrefixes(st) \in Seq(Prefix)
  <2>1. st.base.tbl \in Seq(Prefix)
    BY <1>8 DEF LedgerState
  <2>2. PICK A, B \in Nat : A = Len(st.base.tbl) /\ B = Len(st.tbl) /\ A <= B
    BY <1>8, <2>1 DEF GoodStage, Continues
  <2>3. PICK tbl \in Seq(Prefix) : tbl = st.tbl
    BY <1>8
  <2>4. \A n \in A + 1 .. B : tbl[n] \in Prefix
    BY <2>2, <2>3
  <2>5. SubSeq(tbl, A + 1, B) \in Seq(Prefix)
    BY <2>2, <2>3, <2>4
  <2> QED
    BY <2>2, <2>3, <2>5 DEF NewPrefixes
<1>14. CommitFrom(cs, st, y) =
          [chain |-> chain, wrote |-> wrote, prefixes |-> NewPrefixes(st), by |-> y,
           meant |-> st.meant, seen |-> st.seen]
  BY <1>1, <1>3, <1>5, <1>10 DEF CommitFrom
<1>15. CommitFrom(cs, st, y) \in Commit
  BY <1>6, <1>8, <1>11, <1>13, <1>14 DEF Commit, IsAuthor
<1> QED
  BY <1>1, <1>6, <1>12, <1>14, <1>15

Lands(ds, cs, st, y) == ds = Append(cs, CommitFrom(cs, st, y))

\* A stage whose base is the head lands: its commit is good, and loads the stage's table.
LEMMA LandGood ==
    ASSUME NEW cs, GoodHistory(cs), NEW st, GoodStage(cs, st), NEW y, IsAuthor(y),
           st.base.head = Len(cs), NEW ds, Lands(ds, cs, st, y)
    PROVE  /\ GoodHistory(ds)
           /\ Continues(ds, cs)
           /\ LoadedFrom(ds, Len(cs) + 1).tbl = st.tbl
           /\ Len(ds) = Len(cs) + 1
           /\ ds[Len(cs) + 1] = CommitFrom(cs, st, y)
<1>1. IsHistory(cs) /\ cs \in Seq(Commit)
  BY DEF GoodHistory, IsHistory
<1>2. PICK N \in Nat : N = Len(cs)
  BY <1>1
<1>3. PICK c \in Commit : c = CommitFrom(cs, st, y)
  BY <1>1, CommitTyped
<1>4. /\ Len(c.chain) = N + 1 /\ \A n \in 1 .. N + 1 : c.chain[n] = n
      /\ c.wrote \ {Schema} = st.meant /\ c.meant = st.meant /\ c.seen = st.seen
      /\ c.prefixes = NewPrefixes(st)
  BY <1>1, <1>2, <1>3, CommitTyped
<1>5. ds \in Seq(Commit) /\ Len(ds) = N + 1 /\ ds[N + 1] = c /\ \A n \in 1 .. N : ds[n] = cs[n]
  BY <1>1, <1>2, <1>3 DEF Lands
<1>6. Continues(ds, cs)
  BY <1>2, <1>5 DEF Continues
<1>7. IsHistory(ds)
  <2>1. ASSUME NEW id \in 1 .. Len(ds)
        PROVE  Len(ds[id].chain) = id /\ \A n \in 1 .. id : ds[id].chain[n] = n
    <3>1. CASE id = N + 1
      BY <1>4, <1>5, <3>1
    <3>2. CASE id # N + 1
      <4>1. id \in 1 .. N
        BY <1>5, <3>2
      <4> QED
        BY <1>1, <1>2, <1>5, <4>1 DEF IsHistory
    <3> QED
      BY <3>1, <3>2
  <2> QED
    BY <1>5, <2>1 DEF IsHistory
<1>8. \A id \in 0 .. N : LoadedFrom(ds, id) = LoadedFrom(cs, id)
  BY <1>1, <1>2, <1>6, <1>7, LoadedStays
<1>9. /\ st.base.tbl = LoadedFrom(cs, N).tbl /\ st.base.data = LoadedFrom(cs, N).data
      /\ st.tbl \in Seq(Prefix) /\ st.base.tbl \in Seq(Prefix)
      /\ Injective(st.tbl) /\ Continues(st.tbl, st.base.tbl) /\ Covers(st.tbl, st.meant)
      /\ \A k \in DOMAIN st.seen : st.seen[k] = st.base.data[k]
  BY <1>2 DEF GoodStage, Faithful, StageType, LedgerState
<1>10. LoadedFrom(ds, N + 1).tbl = st.tbl
  <2>1. LoadedFrom(ds, N + 1).tbl = Allocated(LoadedFrom(ds, N).tbl, c.prefixes)
    <3>1. PICK id \in 0 .. Len(ds) : id = N + 1 /\ id # 0 /\ id - 1 = N
      BY <1>5
    <3>2. LoadedFrom(ds, id).tbl = Allocated(LoadedFrom(ds, id - 1).tbl, ds[id].prefixes)
      BY <1>7, <3>1, LoadedFields
    <3> QED
      BY <1>5, <3>1, <3>2
  <2>2. LoadedFrom(ds, N).tbl = st.base.tbl
    BY <1>8, <1>9
  <2>3. Allocated(st.base.tbl, NewPrefixes(st)) = st.tbl
    BY <1>9, AllocatedAgain DEF NewPrefixes
  <2> QED
    BY <1>4, <2>1, <2>2, <2>3
<1>11. ASSUME NEW id \in 1 .. Len(ds) PROVE GoodCommit(ds, id)
  <2>1. CASE id = N + 1
    <3>1. id - 1 = N /\ ds[id] = c /\ LoadedFrom(ds, id).tbl = st.tbl /\ LoadedFrom(ds, id - 1) = LoadedFrom(cs, N)
      BY <1>5, <1>8, <1>10, <2>1
    <3> QED
      BY <1>4, <1>9, <3>1 DEF GoodCommit
  <2>2. CASE id # N + 1
    <3>1. id \in 1 .. N /\ id \in 0 .. N /\ id - 1 \in 0 .. N
      BY <1>5, <2>2
    <3>2. LoadedFrom(ds, id) = LoadedFrom(cs, id) /\ LoadedFrom(ds, id - 1) = LoadedFrom(cs, id - 1) /\ ds[id] = cs[id]
      BY <1>5, <1>8, <3>1
    <3>3. GoodCommit(cs, id)
      BY <1>2, <3>1 DEF GoodHistory
    <3> QED
      BY <3>2, <3>3 DEF GoodCommit
  <2> QED
    BY <2>1, <2>2
<1> QED
  BY <1>2, <1>3, <1>5, <1>6, <1>7, <1>10, <1>11 DEF GoodHistory

\* The entries between two states are those of every commit between them.
LEMMA FootprintsTell ==
    ASSUME NEW cs, NEW r, GoodRing(cs, r), IsHistory(cs), NEW s0, NEW s1,
           Faithful(cs, s0), Faithful(cs, s1),
           NEW since, since = FootprintsBetween(r, s0, s1), since # {}
    PROVE  /\ s0.head < s1.head
           /\ \A j \in s0.head + 1 .. s1.head : \E f \in since : f.id = j /\ GoodFootprint(cs, f)
<1>1. PICK a, b \in Nat : a = s0.head /\ b = s1.head /\ a = s0.t /\ b = s1.t
  BY DEF Faithful, IsHistory
<1>2. PICK first : first = a + 2 - r[1].t
  OBVIOUS
<1>3. PICK last : last = b + 1 - r[1].t
  OBVIOUS
<1>4. /\ r # <<>> /\ ~ (b <= a) /\ ~ (first < 1) /\ ~ (last > Len(r))
      /\ since = {r[i] : i \in first .. last}
  BY <1>1, <1>2, <1>3 DEF FootprintsBetween
<1>5. r \in Seq(FootprintType) /\ \A i \in 1 .. Len(r) : GoodFootprint(cs, r[i]) /\ r[i].id = r[1].id + (i - 1)
  BY DEF GoodRing
<1>6. PICK L \in Nat : L = Len(r)
  BY <1>5
<1>7. L >= 1
  BY <1>4, <1>5, <1>6
<1>8. PICK e \in Nat : e = r[1].id /\ e = r[1].t
  <2>1. r[1] \in FootprintType /\ GoodFootprint(cs, r[1])
    BY <1>5, <1>6, <1>7
  <2> QED
    BY <2>1 DEF FootprintType, GoodFootprint
<1>9. ASSUME NEW j \in a + 1 .. b PROVE \E f \in since : f.id = j /\ GoodFootprint(cs, f)
  <2>1. PICK i \in Int : i = j + 1 - e
    BY <1>1, <1>8
  <2>2. i \in first .. last /\ i \in 1 .. L /\ e + (i - 1) = j
    <3>1. first = a + 2 - e /\ last = b + 1 - e
      BY <1>2, <1>3, <1>8
    <3>2. first \in Int /\ last \in Int
      BY <1>8, <3>1
    <3>3. first >= 1 /\ last <= L
      BY <1>4, <1>6, <3>2
    <3> QED
      BY <2>1, <3>1, <3>3
  <2>3. r[i] \in since /\ r[i].id = j /\ GoodFootprint(cs, r[i])
    BY <1>4, <1>5, <1>6, <1>8, <2>2
  <2> QED
    BY <2>3
<1> QED
  BY <1>1, <1>4, <1>9

\* The table a stage gets over a later state covers what its own table held.
LEMMA ReallocatedCovers ==
    ASSUME NEW cs, GoodHistory(cs), NEW st, GoodStage(cs, st), NEW s, Faithful(cs, s),
           st.base.head <= s.head
    PROVE  /\ Reallocated(st, s) \in Seq(Prefix)
           /\ Injective(Reallocated(st, s))
           /\ Continues(Reallocated(st, s), s.tbl)
           /\ \A p : Holds(st.tbl, p) => Holds(Reallocated(st, s), p)
<1>1. /\ st.tbl \in Seq(Prefix) /\ st.base.tbl \in Seq(Prefix) /\ s.tbl \in Seq(Prefix)
      /\ Continues(st.tbl, st.base.tbl)
      /\ st.base.head \in 0 .. Len(cs) /\ s.head \in 0 .. Len(cs)
      /\ st.base.tbl = LoadedFrom(cs, st.base.head).tbl /\ s.tbl = LoadedFrom(cs, s.head).tbl
  BY DEF GoodStage, Faithful, StageType, LedgerState
<1>2. Injective(s.tbl) /\ Continues(s.tbl, st.base.tbl)
  BY <1>1, HistoryInjective, HistoryGrows
<1>3. PICK A, B \in Nat : A = Len(st.base.tbl) /\ B = Len(st.tbl) /\ A <= B
  BY <1>1 DEF Continues
<1>4. PICK tbl \in Seq(Prefix) : tbl = st.tbl
  BY <1>1
<1>5. PICK ps \in Seq(Prefix) : ps = SubSeq(tbl, A + 1, B)
  <2>1. \A n \in A + 1 .. B : tbl[n] \in Prefix
    BY <1>3, <1>4
  <2>2. SubSeq(tbl, A + 1, B) \in Seq(Prefix)
    BY <1>3, <1>4, <2>1
  <2> QED
    BY <2>2
<1>6. Len(ps) = B - A /\ \A n \in 1 .. B - A : ps[n] = tbl[A + n]
  <2>1. B = Len(tbl)
    BY <1>3, <1>4
  <2>2. A \in Nat /\ B \in Nat /\ A <= B
    BY <1>3
  <2> QED
    BY ONLY tbl \in Seq(Prefix), <1>5, <2>1, <2>2
<1>7. PICK t : t = Allocated(s.tbl, ps)
  OBVIOUS
<1>8. /\ t \in Seq(Prefix) /\ Injective(t) /\ Continues(t, s.tbl)
      /\ \A n \in 1 .. Len(ps) : Holds(t, ps[n])
  BY <1>1, <1>2, <1>7, AllocatedExtends
<1>9. ASSUME NEW p, Holds(tbl, p) PROVE Holds(t, p)
  <2>1. PICK n \in 1 .. B : tbl[n] = p
    BY <1>3, <1>4, <1>9 DEF Holds
  <2>2. CASE n <= A
    <3>1. n \in 1 .. A /\ st.base.tbl[n] = p
      BY <1>1, <1>3, <1>4, <2>1, <2>2 DEF Continues
    <3>2. Holds(st.base.tbl, p)
      BY <1>3, <3>1 DEF Holds
    <3>3. Holds(s.tbl, p)
      BY <1>1, <1>2, <3>2, ContinuesHolds
    <3> QED
      BY <1>1, <1>8, <3>3, ContinuesHolds
  <2>3. CASE n > A
    <3>1. PICK m \in 1 .. B - A : n = A + m
      <4>1. n - A \in 1 .. B - A /\ n = A + (n - A)
        BY <1>3, <2>3
      <4> QED
        BY <4>1
    <3>2. ps[m] = p /\ m \in 1 .. Len(ps)
      BY <1>6, <2>1, <3>1
    <3> QED
      BY <1>8, <3>2
  <2> QED
    BY <1>3, <2>2, <2>3
<1>10. Reallocated(st, s) = t
  BY <1>3, <1>4, <1>5, <1>7 DEF Reallocated, NewPrefixes
<1> QED
  BY <1>4, <1>8, <1>9, <1>10

\* Nothing a stage read was written by the commits it is re-based over, although both
\* sides name their subjects under tables of different ages.
LEMMA RebaseKeepsReads ==
    ASSUME NEW cs, GoodHistory(cs), NEW r, GoodRing(cs, r), NEW st, GoodStage(cs, st),
           NEW s, Faithful(cs, s), Rebasable(st, s, FootprintsBetween(r, st.base, s))
    PROVE  \A k \in DOMAIN st.seen : st.seen[k] = s.data[k]
<1>1. PICK since : since = FootprintsBetween(r, st.base, s)
  OBVIOUS
<1>2. PICK t : t = Reallocated(st, s)
  OBVIOUS
<1>3. st.bounded /\ since # {} /\ \A f \in since : ~ f.all /\ f.subjects \cap Remapped(st, t, st.scope) = {}
  BY <1>1, <1>2 DEF Rebasable
<1>4. IsHistory(cs) /\ Len(cs) \in Nat
  BY DEF GoodHistory, IsHistory
<1>5. /\ st \in StageType /\ Faithful(cs, st.base)
      /\ \A k \in DOMAIN st.seen : st.seen[k] = st.base.data[k]
      /\ \A k \in DOMAIN st.seen \ {Schema} :
            Holds(st.tbl, k[1]) /\ <<CodeOf(st.tbl, k[1]), k[2]>> \in st.scope
  BY <1>3 DEF GoodStage
<1>6. /\ st.base.head < s.head
      /\ \A j \in st.base.head + 1 .. s.head : \E f \in since : f.id = j /\ GoodFootprint(cs, f)
  BY <1>1, <1>3, <1>4, <1>5, FootprintsTell
<1>7. PICK a, b \in 0 .. Len(cs) : a = st.base.head /\ b = s.head /\ a < b
  BY <1>5, <1>6 DEF Faithful
<1>8. /\ st.base.data = LoadedFrom(cs, a).data /\ s.data = LoadedFrom(cs, b).data
      /\ s.tbl = LoadedFrom(cs, b).tbl /\ st.tbl \in Seq(Prefix) /\ st.seen \in Seen
  BY <1>5, <1>7 DEF Faithful, StageType
<1>9. t \in Seq(Prefix) /\ Injective(t) /\ Continues(t, s.tbl) /\ \A p : Holds(st.tbl, p) => Holds(t, p)
  BY <1>2, <1>4, <1>7, ReallocatedCovers
<1>10. DOMAIN st.seen \subseteq Key
  BY <1>8 DEF Seen
<1>11. ASSUME NEW k \in DOMAIN st.seen, NEW j \in a + 1 .. b, k \in cs[j].wrote PROVE FALSE
  <2>1. PICK f \in since : f.id = j /\ GoodFootprint(cs, f)
    BY <1>6, <1>7
  <2>2. j \in 1 .. Len(cs) /\ j \in 0 .. Len(cs) /\ j <= b
    BY <1>4, <1>7
  <2>3. CASE k = Schema
    BY <1>3, <1>11, <2>1, <2>3 DEF GoodFootprint
  <2>4. CASE k # Schema
    <3>1. k \in cs[j].meant /\ Covers(LoadedFrom(cs, j).tbl, cs[j].meant)
      BY <1>11, <2>2, <2>4 DEF GoodHistory, GoodCommit
    <3>2. PICK u \in Seq(Prefix) : u = LoadedFrom(cs, j).tbl
      BY <1>4, <2>2, LoadedFields
    <3>3. Holds(u, k[1])
      BY <3>1, <3>2 DEF Covers
    <3>4. s.tbl \in Seq(Prefix) /\ Continues(s.tbl, u)
      <4>1. LoadedFrom(cs, b).tbl \in Seq(Prefix)
        BY <1>4, LoadedFields
      <4>2. Continues(LoadedFrom(cs, b).tbl, LoadedFrom(cs, j).tbl)
        BY <2>2, HistoryGrows
      <4> QED
        BY <1>8, <3>2, <4>1, <4>2
    <3>5. Continues(t, u)
      BY <1>9, <3>4, ContinuesTransitive
    <3>6. CodeOf(t, k[1]) = CodeOf(u, k[1])
      BY <1>9, <3>3, <3>5, CodeOfStays
    <3>7. <<CodeOf(u, k[1]), k[2]>> \in f.subjects
      BY <2>1, <3>1, <3>2 DEF GoodFootprint, Sids
    <3>8. PICK y \in st.scope : y = <<CodeOf(st.tbl, k[1]), k[2]>>
      BY <1>5, <2>4
    <3>9. y[1] = CodeOf(st.tbl, k[1]) /\ y[2] = k[2]
      BY <3>8
    <3>10. st.tbl[y[1]] = k[1]
      <4>1. Holds(st.tbl, k[1])
        BY <1>5, <2>4
      <4> QED
        BY <1>8, <3>9, <4>1, CodeOfIsIndex
    <3>11. <<CodeOf(t, st.tbl[y[1]]), y[2]>> \in Remapped(st, t, st.scope)
      BY DEF Remapped
    <3>12. <<CodeOf(u, k[1]), k[2]>> \in Remapped(st, t, st.scope)
      BY <3>6, <3>9, <3>10, <3>11
    <3> QED
      BY <1>3, <3>7, <3>12
  <2> QED
    BY <2>3, <2>4
<1>12. ASSUME NEW k \in DOMAIN st.seen PROVE st.seen[k] = s.data[k]
  <2>1. \A j \in a + 1 .. b : k \notin cs[j].wrote
    BY <1>11
  <2>2. k \in Key /\ a <= b
    BY <1>4, <1>7, <1>10
  <2>3. LoadedFrom(cs, b).data[k] = LoadedFrom(cs, a).data[k]
    BY <2>1, <2>2, HistoryGrows
  <2> QED
    BY <1>5, <1>8, <2>3
<1> QED
  BY <1>12

\* A stage that is re-based over footprints disjoint from its reads is a good stage of the
\* later state.
LEMMA RebasedGood ==
    ASSUME NEW cs, GoodHistory(cs), NEW r, GoodRing(cs, r), NEW st, GoodStage(cs, st),
           NEW s, Faithful(cs, s), Rebasable(st, s, FootprintsBetween(r, st.base, s))
    PROVE  GoodStage(cs, Rebased(st, s)) /\ Rebased(st, s).base = s
<1>1. \A k \in DOMAIN st.seen : st.seen[k] = s.data[k]
  BY RebaseKeepsReads
<1>2. PICK t : t = Reallocated(st, s)
  OBVIOUS
<1>3. IsHistory(cs)
  BY DEF GoodHistory
<1>4. /\ st \in StageType /\ Faithful(cs, st.base) /\ Covers(st.tbl, st.meant)
      /\ st.wrote = Sids(st.tbl, st.meant)
      /\ \A y \in st.scope : y[1] \in 1 .. Len(st.tbl)
      /\ st.bounded => \A k \in DOMAIN st.seen \ {Schema} :
            Holds(st.tbl, k[1]) /\ <<CodeOf(st.tbl, k[1]), k[2]>> \in st.scope
  BY DEF GoodStage
<1>5. st.base.head < s.head
  BY <1>3, <1>4, FootprintsTell DEF Rebasable
<1>6. st.base.head <= s.head
  BY <1>3, <1>4, <1>5 DEF Faithful, IsHistory
<1>7. t \in Seq(Prefix) /\ Injective(t) /\ Continues(t, s.tbl) /\ \A p : Holds(st.tbl, p) => Holds(t, p)
  BY <1>2, <1>6, ReallocatedCovers
<1>8. st.tbl \in Seq(Prefix) /\ st.meant \in SUBSET Iri /\ st.scope \in SUBSET Sid /\ s \in LedgerState
  BY <1>4 DEF StageType, Faithful
<1>9. Covers(t, st.meant)
  BY <1>4, <1>7 DEF Covers
<1>10. Remapped(st, t, st.wrote) = Sids(t, st.meant)
  BY <1>4, <1>8, RemappedSids
<1>11. Sids(t, st.meant) \in SUBSET Sid
  BY <1>7, <1>8, <1>9, SidsAreSids
<1>12. PICK scope : scope = Remapped(st, t, st.scope)
  OBVIOUS
<1>13. ASSUME NEW z \in scope PROVE z \in Sid /\ z[1] \in 1 .. Len(t)
  <2>1. PICK y \in st.scope : z = <<CodeOf(t, st.tbl[y[1]]), y[2]>>
    BY <1>12, <1>13 DEF Remapped
  <2>2. y[1] \in 1 .. Len(st.tbl) /\ y[2] \in Local
    BY <1>4, <1>8 DEF Sid
  <2>3. Holds(st.tbl, st.tbl[y[1]])
    BY <2>2 DEF Holds
  <2>4. CodeOf(t, st.tbl[y[1]]) \in 1 .. Len(t)
    BY <1>7, <2>3, CodeOfIsIndex
  <2>5. Len(t) \in Nat
    BY <1>7
  <2> QED
    BY <2>1, <2>2, <2>4, <2>5 DEF Sid
<1>14. ASSUME st.bounded, NEW k \in DOMAIN st.seen \ {Schema}
       PROVE  Holds(t, k[1]) /\ <<CodeOf(t, k[1]), k[2]>> \in scope
  <2>1. PICK y \in st.scope : y = <<CodeOf(st.tbl, k[1]), k[2]>> /\ Holds(st.tbl, k[1])
    BY <1>4, <1>14
  <2>2. y[1] = CodeOf(st.tbl, k[1]) /\ y[2] = k[2]
    BY <2>1
  <2>3. st.tbl[y[1]] = k[1]
    BY <1>8, <2>1, <2>2, CodeOfIsIndex
  <2>4. <<CodeOf(t, st.tbl[y[1]]), y[2]>> \in scope
    BY <1>12 DEF Remapped
  <2> QED
    BY <1>7, <2>1, <2>2, <2>3, <2>4
<1>15. PICK new : new = Rebased(st, s)
  OBVIOUS
<1>16. new = [st EXCEPT !.base = s, !.tbl = t, !.wrote = Sids(t, st.meant), !.scope = scope]
  BY <1>2, <1>10, <1>12, <1>15 DEF Rebased
<1>17. /\ new.base = s /\ new.tbl = t /\ new.wrote = Sids(t, st.meant) /\ new.scope = scope
       /\ new.meant = st.meant /\ new.seen = st.seen /\ new.bounded = st.bounded
  BY <1>4, <1>16 DEF StageType
<1>18. new \in StageType
  BY <1>4, <1>7, <1>8, <1>11, <1>13, <1>16 DEF StageType
<1> HIDE DEF Covers, Holds, Sids
<1> QED
  BY <1>1, <1>7, <1>9, <1>13, <1>14, <1>15, <1>17, <1>18 DEF GoodStage

\* Whichever way the stage to commit is come by, it is good, and staged on the state.
LEMMA StageUnderLockGood ==
    ASSUME NEW cs, GoodHistory(cs), NEW r, GoodRing(cs, r), NEW st, GoodStage(cs, st),
           NEW s, Faithful(cs, s), NEW q, IsRequest(q)
    PROVE  GoodStage(cs, StageUnderLock(st, q, s, r))
<1>1. CASE Unchanged(st, s)
  BY <1>1 DEF StageUnderLock
<1>2. CASE ~ Unchanged(st, s) /\ Rebasable(st, s, FootprintsBetween(r, st.base, s))
  <2>1. GoodStage(cs, Rebased(st, s))
    BY <1>2, RebasedGood
  <2> QED
    BY <1>2, <2>1 DEF StageUnderLock
<1>3. CASE ~ Unchanged(st, s) /\ ~ Rebasable(st, s, FootprintsBetween(r, st.base, s))
  <2>1. GoodStage(cs, StageOn(q, s))
    BY StageOnGood
  <2> QED
    BY <1>3, <2>1 DEF StageUnderLock
<1> QED
  BY <1>1, <1>2, <1>3

\* The ring stays one unbroken chain of true footprints, also when its oldest is dropped.
LEMMA PushGood ==
    ASSUME NEW cs, IsHistory(cs), NEW r, GoodRing(cs, r), NEW f \in FootprintType, GoodFootprint(cs, f)
    PROVE  GoodRing(cs, PushFootprint(r, f))
<1>1. r \in Seq(FootprintType) /\ \A i \in 1 .. Len(r) : GoodFootprint(cs, r[i]) /\ r[i].id = r[1].id + (i - 1)
  BY DEF GoodRing
<1>2. PICK kept \in Seq(FootprintType) : kept = IF Extends(r, f) THEN r ELSE <<>>
  <2>1. <<>> \in Seq(FootprintType)
    OBVIOUS
  <2>2. CASE Extends(r, f)
    BY <1>1, <2>2
  <2>3. CASE ~ Extends(r, f)
    BY <2>1, <2>3
  <2> QED
    BY <2>2, <2>3
<1>3. PICK rest : rest = IF Len(kept) = RECENT_COMMITS THEN Tail(kept) ELSE kept
  OBVIOUS
<1>4. PushFootprint(r, f) = Append(rest, f)
  BY <1>2, <1>3 DEF PushFootprint
<1>5. GoodRing(cs, kept) /\ (kept # <<>> => f.id = kept[Len(kept)].id + 1)
  <2>1. CASE Extends(r, f) /\ r # <<>>
    <3>1. kept = r /\ f.t = r[Len(r)].t + 1
      BY <1>2, <2>1 DEF Extends, Last
    <3>2. Len(r) \in 1 .. Len(r)
      BY <1>1, <2>1
    <3>3. GoodFootprint(cs, r[Len(r)])
      BY <1>1, <3>2
    <3> QED
      BY <3>1, <3>3 DEF GoodFootprint
  <2>2. CASE ~ (Extends(r, f) /\ r # <<>>)
    <3>1. kept = <<>>
      BY <1>2, <2>2
    <3>2. GoodRing(cs, <<>>)
      BY DEF GoodRing
    <3> QED
      BY <3>1, <3>2
  <2> QED
    BY <2>1, <2>2
<1>6. rest \in Seq(FootprintType) /\ (rest # <<>> => f.id = rest[Len(rest)].id + 1)
      /\ \A i \in 1 .. Len(rest) : GoodFootprint(cs, rest[i]) /\ rest[i].id = rest[1].id + (i - 1)
  <2>1. CASE Len(kept) # RECENT_COMMITS
    <3>1. rest = kept
      BY <1>3, <2>1
    <3> QED
      BY <1>2, <1>5, <3>1 DEF GoodRing
  <2>2. CASE Len(kept) = RECENT_COMMITS
    <3>1. rest = Tail(kept) /\ kept # <<>> /\ Len(kept) \in Nat \ {0}
      BY <1>3, <2>2, BoundAssumption
    <3>2. PICK L \in Nat : L + 1 = Len(kept)
      <4>1. Len(kept) - 1 \in Nat /\ (Len(kept) - 1) + 1 = Len(kept)
        BY <3>1
      <4> QED
        BY <4>1
    <3>3. rest \in Seq(FootprintType) /\ Len(rest) = L /\ \A i \in 1 .. L : rest[i] = kept[i + 1]
      BY <1>2, <3>1, <3>2
    <3>4. \A i \in 1 .. L + 1 : GoodFootprint(cs, kept[i]) /\ kept[i].id = kept[1].id + (i - 1)
      BY <1>5, <3>2 DEF GoodRing
    <3>5. kept[1].id \in Nat
      <4>1. kept[1] \in FootprintType
        BY <1>2, <3>2
      <4> QED
        BY <4>1 DEF FootprintType
    <3>6. ASSUME NEW i \in 1 .. L
          PROVE  GoodFootprint(cs, rest[i]) /\ rest[i].id = rest[1].id + (i - 1)
      <4>1. i + 1 \in 1 .. L + 1 /\ 2 \in 1 .. L + 1 /\ 1 \in 1 .. L
        OBVIOUS
      <4>2. rest[i] = kept[i + 1] /\ rest[1] = kept[2]
        BY <3>3, <4>1
      <4>3. kept[i + 1].id = kept[1].id + i /\ kept[2].id = kept[1].id + 1 /\ GoodFootprint(cs, kept[i + 1])
        BY <3>4, <3>5, <4>1
      <4> QED
        BY <3>5, <4>2, <4>3
    <3>7. rest # <<>> => f.id = rest[Len(rest)].id + 1
      <4>1. CASE L = 0
        BY <3>3, <4>1
      <4>2. CASE L # 0
        <5>1. L \in 1 .. L
          BY <4>2
        <5>2. rest[L] = kept[L + 1]
          BY <3>3, <5>1
        <5> QED
          BY <1>5, <3>1, <3>2, <3>3, <5>2
      <4> QED
        BY <4>1, <4>2
    <3> QED
      BY <3>3, <3>6, <3>7
  <2> QED
    BY <2>1, <2>2
<1>7. PICK new \in Seq(FootprintType) : new = Append(rest, f)
  <2>1. Append(rest, f) \in Seq(FootprintType)
    BY <1>6
  <2> QED
    BY <2>1
<1>8. PICK L \in Nat : L = Len(rest)
  BY <1>6
<1>9. Len(new) = L + 1 /\ new[L + 1] = f /\ \A i \in 1 .. L : new[i] = rest[i]
  BY <1>6, <1>7, <1>8
<1>10. ASSUME NEW i \in 1 .. L + 1
       PROVE  GoodFootprint(cs, new[i]) /\ new[i].id = new[1].id + (i - 1)
  <2>1. CASE i \in 1 .. L
    <3>1. 1 \in 1 .. L
      BY <2>1
    <3>2. new[i] = rest[i] /\ new[1] = rest[1]
      BY <1>9, <2>1, <3>1
    <3> QED
      BY <1>6, <1>8, <2>1, <3>2
  <2>2. CASE i = L + 1
    <3>1. f.id \in Nat
      BY DEF FootprintType
    <3>2. CASE L = 0
      BY <1>9, <2>2, <3>1, <3>2
    <3>3. CASE L # 0
      <4>1. L \in 1 .. L /\ 1 \in 1 .. L
        BY <3>3
      <4>2. f.id = rest[L].id + 1 /\ rest[L].id = rest[1].id + (L - 1) /\ rest[1] \in FootprintType
        BY <1>6, <1>8, <3>3, <4>1
      <4>3. new[1] = rest[1] /\ rest[1].id \in Nat
        BY <1>9, <4>1, <4>2 DEF FootprintType
      <4>4. f.id = new[1].id + L
        BY <4>2, <4>3
      <4> QED
        BY <1>9, <2>2, <4>4
    <3> QED
      BY <3>2, <3>3
  <2> QED
    BY <2>1, <2>2
<1> QED
  BY <1>4, <1>7, <1>9, <1>10 DEF GoodRing

-----------------------------------------------------------------------------
(* The inductive invariant.                                                *)

Pc == {"new", "begin", "staged", "locked", "publish", "install", "recover", "disconnect",
       "failed", "notify", "catchup", "reload", "done"}
Err == {"none", "conflict", "mismatch", "race", "error"}
WriterType ==
    [pc : Pc, req : Request \cup {{}}, h : Handle \cup {NoHandle}, stage : StageType,
     try : Nat, outer : Nat, id : Nat, err : Err, rec : Nat, rh : Handle \cup {NoHandle},
     from : Nat, gone : BOOLEAN, res : Err \cup {"ok", "noop", "refused", "gone"}]

\* The commit a writer installs is the one it staged.
InstallOK(cs, r) ==
    /\ r.id \in 1 .. Len(cs) /\ r.id = r.stage.base.head + 1
    /\ LoadedFrom(cs, r.id).tbl = r.stage.tbl
    /\ cs[r.id].meant = r.stage.meant
    /\ Schema \in cs[r.id].wrote => r.stage.schema

WriterInv(cs, r) ==
    /\ r \in WriterType
    /\ GoodStage(cs, r.stage)
    /\ r.pc \notin {"new", "done"} => r.req \in Request /\ r.h \in Handle
    /\ r.pc \in {"catchup", "reload"} => r.rh \in Handle
    /\ r.rec \in 0 .. Len(cs)
    /\ r.pc = "catchup" => r.from < r.rec
    /\ r.pc = "install" => InstallOK(cs, r)

HistoryInv == GoodHistory(commits) /\ head = Len(commits)

CacheInv ==
    /\ cur \in Handle \cup {NoHandle}
    /\ state \in [Handle -> LedgerState]
    /\ ring \in [Handle -> Seq(FootprintType)]
    /\ lock \in [Handle -> Writer \cup {NoOne}]
    /\ \A h \in Handle : Faithful(commits, state[h]) /\ GoodRing(commits, ring[h])
    /\ reloads \in SUBSET [h : Handle, id : Nat]
    /\ \A l \in reloads : l.id \in 0 .. Len(commits)
    /\ repairs \in Nat

WritersInv == w \in [Writer -> WriterType] /\ \A x \in Writer : WriterInv(commits, w[x])

\* Requests, foreign ones too, name what they read and write.
LEMMA RequestIsRequest ==
    ASSUME NEW r \in Request \cup Foreign
    PROVE  IsRequest(r)
  BY RequestAssumption DEF IsRequest

\* The stage of a writer that has none is a good one.
LEMMA NoStageGood ==
    ASSUME NEW cs, GoodHistory(cs)
    PROVE  GoodStage(cs, NoStage)
<1>1. PICK r : r = [mentions |-> <<>>, reads |-> {}, writes |-> {}, bounded |-> TRUE,
                    schema |-> FALSE, once |-> FALSE, locked |-> FALSE]
  OBVIOUS
<1>2. <<>> \in Seq(Iri)
  OBVIOUS
<1>3. r \in RequestType /\ r.reads = {} /\ r.writes = {}
  BY <1>1, <1>2 DEF RequestType
<1>4. IsRequest(r)
  BY <1>3 DEF IsRequest
<1>5. Faithful(cs, Genesis)
  BY PlaceholderFaithful DEF GoodHistory
<1>6. GoodStage(cs, StageOn(r, Genesis))
  BY <1>4, <1>5, StageOnGood
<1> QED
  BY <1>1, <1>6 DEF NoStage

\* A writer stays in order when commits are added.
LEMMA WriterInvStays ==
    ASSUME NEW cs, NEW ds, IsHistory(cs), IsHistory(ds), Continues(ds, cs), NEW r, WriterInv(cs, r)
    PROVE  WriterInv(ds, r)
<1>1. GoodStage(cs, r.stage) /\ r.rec \in 0 .. Len(cs) /\ (r.pc = "install" => InstallOK(cs, r))
  BY DEF WriterInv
<1>2. GoodStage(ds, r.stage)
  BY <1>1, GoodStageStays
<1>3. Len(cs) \in Nat /\ Len(ds) \in Nat /\ Len(cs) <= Len(ds) /\ \A n \in 1 .. Len(cs) : ds[n] = cs[n]
  BY DEF IsHistory, Continues
<1>4. r.rec \in 0 .. Len(ds)
  BY <1>1, <1>3
<1>5. ASSUME r.pc = "install" PROVE InstallOK(ds, r)
  <2>1. r.id \in 1 .. Len(cs)
    BY <1>1, <1>5 DEF InstallOK
  <2>2. r.id \in 1 .. Len(ds) /\ r.id \in 0 .. Len(cs) /\ ds[r.id] = cs[r.id]
    BY <1>3, <2>1
  <2>3. LoadedFrom(ds, r.id) = LoadedFrom(cs, r.id)
    BY <2>2, LoadedStays
  <2> QED
    BY <1>1, <1>5, <2>2, <2>3 DEF InstallOK
<1> QED
  BY <1>2, <1>4, <1>5 DEF WriterInv

\* The fields of a writer that has not begun.
LEMMA NewWriterFields ==
    /\ NewWriter.pc = "new" /\ NewWriter.req = {} /\ NewWriter.h = NoHandle
    /\ NewWriter.stage = NoStage /\ NewWriter.id = 0 /\ NewWriter.err = "none"
    /\ NewWriter.rec = 0 /\ NewWriter.rh = NoHandle /\ NewWriter.from = 0
    /\ NewWriter.res = "none"
  BY DEF NewWriter

\* A writer that has not begun is in order.
LEMMA NewWriterGood ==
    ASSUME NEW cs, GoodHistory(cs)
    PROVE  WriterInv(cs, NewWriter)
<1>1. GoodStage(cs, NoStage) /\ NoStage \in StageType
  BY NoStageGood DEF GoodStage
<1>2. NewWriter \in WriterType
  BY <1>1 DEF NewWriter, WriterType, Pc, Err
<1>3. 0 \in 0 .. Len(cs)
  BY DEF GoodHistory, IsHistory
<1> QED
  BY <1>1, <1>2, <1>3, NewWriterFields DEF WriterInv

\* An answered request is in order, and says what it was answered or that its caller is
\* gone.
LEMMA AnsweredGood ==
    ASSUME NEW cs, GoodHistory(cs), NEW x \in Writer, WriterInv(cs, w[x]),
           NEW res \in Err \cup {"ok", "noop", "refused"}, NEW r, r = Answered(x, res)
    PROVE  /\ WriterInv(cs, r)
           /\ r.pc = "done" /\ r.h = NoHandle /\ r.rh = NoHandle /\ r.res \in {res, "gone"}
<1>1. GoodStage(cs, NoStage) /\ NoStage \in StageType
  BY NoStageGood DEF GoodStage
<1>2. GoodStage(cs, w[x].stage) /\ w[x].stage \in StageType
  BY DEF WriterInv, GoodStage
<1>3. PICK st \in StageType : st = (IF res = "noop" THEN w[x].stage ELSE NoStage) /\ GoodStage(cs, st)
  BY <1>1, <1>2
<1>4. PICK a \in {res, "gone"} : a = IF w[x].gone THEN "gone" ELSE res
  OBVIOUS
<1>5. NewWriter \in WriterType /\ NewWriter.stage = NoStage
  BY NewWriterGood DEF WriterInv, NewWriter
<1>6. r = [NewWriter EXCEPT !.pc = "done", !.res = a, !.stage = st]
  BY <1>3, <1>4, <1>5 DEF Answered
<1>7. /\ r.pc = "done" /\ r.res = a /\ r.stage = st /\ r.h = NoHandle /\ r.rh = NoHandle
      /\ r.rec = 0 /\ r.from = 0
  BY <1>6 DEF NewWriter
<1>8. r \in WriterType
  <2>1. a \in Err \cup {"ok", "noop", "refused", "gone"}
    BY <1>4
  <2>2. "done" \in Pc
    BY DEF Pc
  <2> QED
    BY <1>5, <1>6, <2>1, <2>2 DEF WriterType
<1>9. 0 \in 0 .. Len(cs)
  BY DEF GoodHistory, IsHistory
<1> QED
  BY <1>3, <1>4, <1>7, <1>8, <1>9 DEF WriterInv

\* A writer whose refresh has ended is in order.
LEMMA AfterRefreshGood ==
    ASSUME NEW cs, GoodHistory(cs), NEW x \in Writer, WriterInv(cs, w[x]),
           w[x].pc \in {"notify", "catchup", "reload"}, NEW r, r = AfterRefresh(x)
    PROVE  /\ WriterInv(cs, r)
           /\ r.pc \in {"failed", "begin"} /\ r.h = w[x].h /\ r.rh = NoHandle
           /\ r.err \in {"none", w[x].err} /\ r.res = w[x].res
<1>1. GoodStage(cs, NoStage) /\ NoStage \in StageType
  BY NoStageGood DEF GoodStage
<1>2. w[x] \in WriterType /\ w[x].req \in Request /\ w[x].h \in Handle
  BY DEF WriterInv
<1>3. PICK p \in {"failed", "begin"} : p = IF w[x].req.locked /\ w[x].try = 2 THEN "failed" ELSE "begin"
  OBVIOUS
<1>4. PICK e \in {"none", w[x].err} : e = IF w[x].req.locked /\ w[x].try = 2 THEN w[x].err ELSE "none"
  OBVIOUS
<1>5. r = [w[x] EXCEPT !.rh = NoHandle, !.rec = 0, !.from = 0, !.stage = NoStage, !.err = e, !.pc = p]
  BY <1>2, <1>3, <1>4 DEF AfterRefresh, WriterType
<1>6. /\ r.pc = p /\ r.err = e /\ r.stage = NoStage /\ r.rh = NoHandle /\ r.rec = 0
      /\ r.req = w[x].req /\ r.h = w[x].h /\ r.res = w[x].res
  BY <1>2, <1>5 DEF WriterType
<1>7. p \in Pc /\ e \in Err
  BY <1>2, <1>3, <1>4 DEF Pc, Err, WriterType
<1>8. r \in WriterType
  <2>1. PICK u : u = [w[x] EXCEPT !.rh = NoHandle, !.rec = 0, !.from = 0]
    OBVIOUS
  <2>2. u \in WriterType
    BY <1>2, <2>1 DEF WriterType
  <2>3. r = [u EXCEPT !.stage = NoStage, !.err = e, !.pc = p]
    BY <1>2, <1>5, <2>1 DEF WriterType
  <2> QED
    BY <1>1, <1>7, <2>2, <2>3 DEF WriterType
<1>9. 0 \in 0 .. Len(cs)
  BY DEF GoodHistory, IsHistory
<1> QED
  BY <1>1, <1>2, <1>3, <1>4, <1>6, <1>8, <1>9 DEF WriterInv

\* What HistoryInv says of the durable commits, in the terms of the model.
LEMMA CurrentHistory ==
    ASSUME HistoryInv
    PROVE  /\ IsHistory(commits) /\ GoodHistory(commits) /\ Len(commits) \in Nat
           /\ \A id : LoadedState(id) = LoadedFrom(commits, id)
           /\ \A st, y : CommitOf(st, y) = CommitFrom(commits, st, y)
           /\ \A id \in 0 .. Len(commits) : TOf(id) = id
           /\ head \in 0 .. Len(commits)
<1>1. IsHistory(commits) /\ GoodHistory(commits) /\ Len(commits) \in Nat
  BY DEF HistoryInv, GoodHistory, IsHistory
<1>2. \A id \in 0 .. Len(commits) : TOf(id) = id
  <2> TAKE id \in 0 .. Len(commits)
  <2>1. CASE id = 0
    BY <2>1 DEF TOf, ChainOf
  <2>2. CASE id # 0
    <3>1. id \in 1 .. Len(commits)
      BY <1>1, <2>2
    <3> QED
      BY <1>1, <2>2, <3>1 DEF TOf, ChainOf, IsHistory
  <2> QED
    BY <2>1, <2>2
<1>3. \A id : LoadedState(id) = LoadedFrom(commits, id)
  BY DEF LoadedState, LoadedFrom, ChainOf
<1>4. \A st, y : CommitOf(st, y) = CommitFrom(commits, st, y)
  BY DEF CommitOf, CommitFrom, ChainOf
<1>5. head \in 0 .. Len(commits)
  BY <1>1 DEF HistoryInv
<1> QED
  BY <1>1, <1>2, <1>3, <1>4, <1>5

\* A good stage on the head lands as one more good commit.
LEMMA LandHistory ==
    ASSUME HistoryInv, NEW st, GoodStage(commits, st), st.base.head = head,
           NEW y, IsAuthor(y),
           commits' = Append(commits, CommitOf(st, y)), head' = Len(commits) + 1
    PROVE  /\ HistoryInv' /\ Continues(commits', commits)
           /\ Len(commits') = Len(commits) + 1
           /\ commits'[Len(commits) + 1].by = y
           /\ \A n \in 1 .. Len(commits) : commits'[n] = commits[n]
           /\ LoadedFrom(commits', Len(commits) + 1).tbl = st.tbl
           /\ commits'[Len(commits) + 1].meant = st.meant
           /\ Schema \in commits'[Len(commits) + 1].wrote => st.schema
<1>1. IsHistory(commits) /\ GoodHistory(commits) /\ commits' = Append(commits, CommitFrom(commits, st, y))
  BY CurrentHistory
<1>2. st.base.head = Len(commits)
  BY DEF HistoryInv
<1>3. /\ GoodHistory(commits') /\ Continues(commits', commits) /\ Len(commits') = Len(commits) + 1
      /\ LoadedFrom(commits', Len(commits) + 1).tbl = st.tbl
      /\ commits'[Len(commits) + 1] = CommitFrom(commits, st, y)
  <2>1. PICK cs, ds : cs = commits /\ ds = commits'
    OBVIOUS
  <2>2. GoodHistory(cs) /\ GoodStage(cs, st) /\ st.base.head = Len(cs) /\ Lands(ds, cs, st, y)
    BY <1>1, <1>2, <2>1 DEF Lands
  <2>3. /\ GoodHistory(ds) /\ Continues(ds, cs) /\ Len(ds) = Len(cs) + 1
        /\ LoadedFrom(ds, Len(cs) + 1).tbl = st.tbl
        /\ ds[Len(cs) + 1] = CommitFrom(cs, st, y)
    BY <2>2, LandGood
  <2> QED
    BY <2>1, <2>3
<1>4. /\ CommitFrom(commits, st, y).meant = st.meant
      /\ Schema \in CommitFrom(commits, st, y).wrote => st.schema
      /\ CommitFrom(commits, st, y).by = y
  BY <1>1, <1>2, CommitTyped
<1>5. \A n \in 1 .. Len(commits) : commits'[n] = commits[n]
  BY <1>3 DEF Continues
<1> QED
  BY <1>3, <1>4, <1>5 DEF HistoryInv

\* A writer lands the stage it holds.
LEMMA LandStep ==
    ASSUME HistoryInv, WritersInv, NEW x \in Writer, Land(x)
    PROVE  /\ HistoryInv' /\ Continues(commits', commits)
           /\ Len(commits') = Len(commits) + 1
           /\ commits'[Len(commits) + 1].by = x
           /\ \A n \in 1 .. Len(commits) : commits'[n] = commits[n]
           /\ LoadedFrom(commits', Len(commits) + 1).tbl = w[x].stage.tbl
           /\ commits'[Len(commits) + 1].meant = w[x].stage.meant
           /\ Schema \in commits'[Len(commits) + 1].wrote => w[x].stage.schema
<1>1. GoodStage(commits, w[x].stage)
  BY DEF WritersInv, WriterInv
<1>2. PICK st : st = w[x].stage
  OBVIOUS
<1>3. /\ GoodStage(commits, st) /\ st.base.head = head
      /\ commits' = Append(commits, CommitOf(st, x)) /\ head' = Len(commits) + 1
  BY <1>1, <1>2 DEF Land
<1>4. /\ HistoryInv' /\ Continues(commits', commits)
      /\ Len(commits') = Len(commits) + 1
      /\ commits'[Len(commits) + 1].by = x
      /\ \A n \in 1 .. Len(commits) : commits'[n] = commits[n]
      /\ LoadedFrom(commits', Len(commits) + 1).tbl = st.tbl
      /\ commits'[Len(commits) + 1].meant = st.meant
      /\ Schema \in commits'[Len(commits) + 1].wrote => st.schema
  <2>1. IsAuthor(x)
    BY DEF IsAuthor
  <2> QED
    BY <1>3, <2>1, LandHistory
<1> QED
  BY <1>2, <1>4

\* The commit of another process is good too.
LEMMA ForeignStep ==
    ASSUME HistoryInv, NEW r \in Foreign, ForeignCommit(r)
    PROVE  /\ HistoryInv' /\ Continues(commits', commits)
           /\ Len(commits') = Len(commits) + 1
           /\ commits'[Len(commits) + 1].by = NoOne
           /\ \A n \in 1 .. Len(commits) : commits'[n] = commits[n]
<1>1. PICK s : s = LoadedState(head)
  OBVIOUS
<1>2. Faithful(commits, s) /\ s.head = head
  <2>1. s = LoadedFrom(commits, head) /\ IsHistory(commits) /\ head \in 0 .. Len(commits)
    BY <1>1, CurrentHistory
  <2> QED
    BY <2>1, LoadedFaithful, LoadedFields
<1>3. PICK st : st = StageOn(r, s)
  OBVIOUS
<1>4. IsRequest(r) /\ GoodHistory(commits)
  BY RequestIsRequest, CurrentHistory
<1>5. GoodStage(commits, st) /\ st.base = s
  BY <1>2, <1>3, <1>4, StageOnGood
<1>6. st.base.head = head
  BY <1>2, <1>5
<1>7. commits' = Append(commits, CommitOf(st, NoOne)) /\ head' = Len(commits) + 1
  BY <1>1, <1>3 DEF ForeignCommit
<1>8. IsAuthor(NoOne)
  BY DEF IsAuthor
<1> QED
  BY <1>5, <1>6, <1>7, <1>8, LandHistory

\* The commits continue themselves.
LEMMA ContinuesItself ==
    ASSUME HistoryInv
    PROVE  Continues(commits, commits)
  BY DEF HistoryInv, GoodHistory, IsHistory, Continues

\* A step that lands nothing keeps the history.
LEMMA HistoryUnchanged ==
    ASSUME HistoryInv, UNCHANGED durable
    PROVE  HistoryInv' /\ Continues(commits', commits)
  BY ContinuesItself DEF HistoryInv, durable

\* The durable chain only grows, by good commits.
LEMMA HistoryKept ==
    ASSUME HistoryInv, WritersInv, [WriteNext]_vars
    PROVE  HistoryInv' /\ Continues(commits', commits)
<1>1. CASE UNCHANGED vars
  BY <1>1, HistoryUnchanged DEF vars, durable
<1>2. CASE \E x \in Writer, r \in Request : Begin(x, r)
  BY <1>2, HistoryUnchanged DEF Begin
<1>3. ASSUME NEW x \in Writer, Step(x) \/ Failure(x)
      PROVE  HistoryInv' /\ Continues(commits', commits)
  <2>1. CASE Publish(x)
    BY <2>1, LandStep DEF Publish
  <2>2. CASE PublishFails(x)
    BY <2>2, LandStep, HistoryUnchanged DEF PublishFails
  <2>3. CASE ~ Publish(x) /\ ~ PublishFails(x)
    <3>1. UNCHANGED durable
      BY <1>3, <2>3 DEF Step, Failure, StageSnapshot, LockStaged, LockAndStage, Noop, Detach, LoseRace,
           Install, Recover, Disconnect, RetryInner, RetryOuter, GiveUp, Notify, CatchUp, CatchUpTooLate,
           AwaitReload, Abandon, RecoverFails, Panic, Cancel, RefreshFails, StartReload
    <3> QED
      BY <3>1, HistoryUnchanged
  <2> QED
    BY <2>1, <2>2, <2>3
<1>4. CASE Background \/ SweepIdle \/ Finished
  <2>1. UNCHANGED durable
    BY <1>4 DEF Background, Repair, FinishReload, SweepIdle, Finished, vars, durable
  <2> QED
    BY <2>1, HistoryUnchanged
<1>5. CASE \E r \in Foreign : ForeignCommit(r)
  BY <1>5, ForeignStep
<1> QED
  BY <1>1, <1>2, <1>3, <1>4, <1>5 DEF WriteNext

-----------------------------------------------------------------------------
(* What a step leaves of the writer that takes it.                         *)

\* Writer x goes on as r, which is in order over the commits there were before.
Moves(x, r) == w' = [w EXCEPT ![x] = r] /\ WriterInv(commits, r)

\* A request begins.
LEMMA BeginMoves ==
    ASSUME HistoryInv, CacheInv, WritersInv, NEW x \in Writer, NEW q \in Request, Begin(x, q)
    PROVE  \E r : Moves(x, r) /\ r.pc = "begin" /\ r.err = w[x].err /\ r.res = w[x].res
<1>1. PICK o \in WriterType : o = w[x] /\ WriterInv(commits, o)
  BY DEF WritersInv
<1>2. PICK h \in Handle : w' = [w EXCEPT ![x].pc = "begin", ![x].req = q, ![x].h = h]
  BY DEF Begin
<1>3. PICK r : r = [o EXCEPT !.pc = "begin", !.req = q, !.h = h]
  OBVIOUS
<1>4. w' = [w EXCEPT ![x] = r]
  BY <1>1, <1>2, <1>3 DEF WritersInv, WriterType
<1>5. r \in WriterType
  BY <1>3 DEF WriterType, Pc
<1>6. r.pc = "begin" /\ r.req = q /\ r.h = h /\ r.stage = o.stage /\ r.rec = o.rec /\ r.err = o.err /\ r.res = o.res
  BY <1>3 DEF WriterType
<1>7. WriterInv(commits, r)
  BY <1>1, <1>5, <1>6 DEF WriterInv
<1> QED
  BY <1>1, <1>4, <1>6, <1>7 DEF Moves

\* A request is staged, on a snapshot or with the lock.
LEMMA StagingMoves ==
    ASSUME HistoryInv, CacheInv, WritersInv, NEW x \in Writer,
           StageSnapshot(x) \/ LockStaged(x) \/ LockAndStage(x)
    PROVE  \E r : /\ Moves(x, r) /\ r.pc = (IF StageSnapshot(x) THEN "staged" ELSE "locked")
                  /\ r.h = w[x].h /\ r.err = w[x].err /\ r.res = w[x].res
<1>1. PICK o \in WriterType : o = w[x] /\ WriterInv(commits, o)
  BY DEF WritersInv
<1>2. o.pc \in {"begin", "staged"}
  BY <1>1 DEF StageSnapshot, LockStaged, LockAndStage
<1>3. PICK s : s = state[o.h]
  OBVIOUS
<1>4. o.h \in Handle /\ IsRequest(o.req) /\ GoodStage(commits, o.stage) /\ o.rec \in 0 .. Len(commits)
  BY <1>1, <1>2, RequestIsRequest DEF WriterInv
<1>5. Faithful(commits, s) /\ GoodRing(commits, ring[o.h]) /\ GoodHistory(commits)
  BY <1>3, <1>4, CurrentHistory DEF CacheInv
<1>6. PICK a : a = StageOn(o.req, s) /\ GoodStage(commits, a)
  BY <1>4, <1>5, StageOnGood
<1>7. PICK b : b = StageUnderLock(o.stage, o.req, s, ring[o.h]) /\ GoodStage(commits, b)
  BY <1>4, <1>5, StageUnderLockGood
<1>8. PICK p \in {"staged", "locked"} : p = IF StageSnapshot(x) THEN "staged" ELSE "locked"
  OBVIOUS
<1>9. PICK st \in {a, b} : w' = [w EXCEPT ![x].pc = p, ![x].stage = st]
  <2>1. CASE StageSnapshot(x)
    BY <1>1, <1>3, <1>6, <1>8, <2>1 DEF StageSnapshot
  <2>2. CASE ~ StageSnapshot(x) /\ LockStaged(x)
    BY <1>1, <1>3, <1>7, <1>8, <2>2 DEF LockStaged
  <2>3. CASE ~ StageSnapshot(x) /\ LockAndStage(x)
    BY <1>1, <1>3, <1>6, <1>8, <2>3 DEF LockAndStage
  <2> QED
    BY <2>1, <2>2, <2>3
<1>10. GoodStage(commits, st) /\ st \in StageType
  BY <1>6, <1>7, <1>9 DEF GoodStage
<1>11. PICK r : r = [o EXCEPT !.pc = p, !.stage = st]
  OBVIOUS
<1>12. w' = [w EXCEPT ![x] = r]
  BY <1>1, <1>9, <1>11 DEF WritersInv, WriterType
<1>13. r \in WriterType
  BY <1>8, <1>10, <1>11 DEF WriterType, Pc
<1>14. r.pc = p /\ r.stage = st /\ r.req = o.req /\ r.h = o.h /\ r.rec = o.rec /\ r.err = o.err /\ r.res = o.res
  BY <1>11 DEF WriterType
<1>15. WriterInv(commits, r)
  BY <1>1, <1>2, <1>8, <1>10, <1>13, <1>14 DEF WriterInv
<1> QED
  BY <1>1, <1>8, <1>12, <1>14, <1>15 DEF Moves

\* Moves that leave the stage alone and change where the writer is and how it failed.
Committing == {"publish", "recover", "failed", "disconnect"}
Fails(x, e, p) == w[x].pc \notin {"new", "done"} /\ w' = [w EXCEPT ![x].err = e, ![x].pc = p]

\* A writer that only changes where it is and how it failed stays in order.
LEMMA PlainMove ==
    ASSUME WritersInv, NEW x \in Writer, NEW p \in Committing, NEW e \in Err, Fails(x, e, p)
    PROVE  \E r : Moves(x, r) /\ r.pc = p /\ r.err = e /\ r.h = w[x].h /\ r.res = w[x].res
<1>1. PICK o \in WriterType : o = w[x] /\ WriterInv(commits, o)
  BY DEF WritersInv
<1>2. PICK r : r = [o EXCEPT !.err = e, !.pc = p]
  OBVIOUS
<1>3. w' = [w EXCEPT ![x] = r]
  BY <1>1, <1>2 DEF WritersInv, WriterType, Fails
<1>4. r \in WriterType
  BY <1>2 DEF WriterType, Pc, Committing
<1>5. r.pc = p /\ r.stage = o.stage /\ r.req = o.req /\ r.h = o.h /\ r.rec = o.rec /\ r.err = e /\ r.res = o.res
  BY <1>2 DEF WriterType
<1>6. WriterInv(commits, r)
  BY <1>1, <1>4, <1>5 DEF WriterInv, Committing, Fails
<1> QED
  BY <1>1, <1>3, <1>5, <1>6 DEF Moves

\* The slot is emptied and the head looked up.
LEMMA DetachMoves ==
    ASSUME WritersInv, NEW x \in Writer, Detach(x)
    PROVE  \E r : /\ Moves(x, r) /\ r.pc \in {"publish", "recover"} /\ r.err \in Err \ {"error"}
                  /\ r.h = w[x].h /\ r.res = w[x].res
<1>1. PICK e \in Err : e = SequencingError(w[x].stage) /\ e # "error"
  BY DEF SequencingError, Err
<1>2. PICK p \in {"publish", "recover"} : p = IF e = "none" THEN "publish" ELSE "recover"
  OBVIOUS
<1>3. w' = [w EXCEPT ![x].err = e, ![x].pc = p] /\ w[x].pc = "locked"
  BY <1>1, <1>2 DEF Detach
<1>4. Fails(x, e, p) /\ p \in Committing
  BY <1>2, <1>3 DEF Fails, Committing
<1>5. PICK r : Moves(x, r) /\ r.pc = p /\ r.err = e /\ r.h = w[x].h /\ r.res = w[x].res
  BY <1>4, PlainMove
<1> QED
  BY <1>1, <1>2, <1>5

\* The compare-and-set is lost, and the ways out of a failed commit.
LEMMA FailingMoves ==
    ASSUME WritersInv, NEW x \in Writer, LoseRace(x) \/ Recover(x) \/ RecoverFails(x) \/ Disconnect(x)
    PROVE  \E r : /\ Moves(x, r)
                  /\ r.pc = (IF LoseRace(x) THEN "recover" ELSE IF RecoverFails(x) THEN "disconnect" ELSE "failed")
                  /\ r.err = (IF LoseRace(x) THEN "race" ELSE w[x].err)
                  /\ r.h = w[x].h /\ r.res = w[x].res
<1>1. PICK o \in WriterType : o = w[x]
  BY DEF WritersInv
<1>2. CASE LoseRace(x)
  <2>1. w' = [w EXCEPT ![x].err = "race", ![x].pc = "recover"] /\ w[x].pc = "publish"
    BY <1>2 DEF LoseRace
  <2>2. Fails(x, "race", "recover") /\ "race" \in Err /\ "recover" \in Committing
    BY <2>1 DEF Err, Fails, Committing
  <2>3. PICK r : Moves(x, r) /\ r.pc = "recover" /\ r.err = "race" /\ r.h = w[x].h /\ r.res = w[x].res
    BY <2>2, PlainMove
  <2> QED
    BY <1>2, <2>3
<1>3. ASSUME ~ LoseRace(x) PROVE \E r : /\ Moves(x, r)
                  /\ r.pc = (IF RecoverFails(x) THEN "disconnect" ELSE "failed") /\ r.err = w[x].err
                  /\ r.h = w[x].h /\ r.res = w[x].res
  <2>1. PICK p \in {"disconnect", "failed"} : p = (IF RecoverFails(x) THEN "disconnect" ELSE "failed")
    OBVIOUS
  <2>2. w' = [w EXCEPT ![x].pc = p] /\ w[x].pc \in {"recover", "disconnect"}
    <3>1. CASE RecoverFails(x)
      BY <2>1, <3>1 DEF RecoverFails, Goto
    <3>2. CASE ~ RecoverFails(x)
      BY <1>3, <2>1, <3>2 DEF Recover, Disconnect, Goto
    <3> QED
      BY <3>1, <3>2
  <2>3. w' = [w EXCEPT ![x].err = o.err, ![x].pc = p] /\ o.err \in Err
    BY <1>1, <2>2 DEF WritersInv, WriterType
  <2>4. Fails(x, o.err, p) /\ p \in Committing
    BY <2>1, <2>2, <2>3 DEF Fails, Committing
  <2>5. PICK r : Moves(x, r) /\ r.pc = p /\ r.err = o.err /\ r.h = w[x].h /\ r.res = w[x].res
    BY <2>3, <2>4, PlainMove
  <2> QED
    BY <1>1, <2>1, <2>5
<1> QED
  BY <1>2, <1>3

\* The caller goes away.
LEMMA CancelMoves ==
    ASSUME WritersInv, NEW x \in Writer, Cancel(x)
    PROVE  \E r : Moves(x, r) /\ r.pc = w[x].pc /\ r.err = w[x].err /\ r.h = w[x].h /\ r.id = w[x].id
                  /\ r.res = w[x].res
<1>1. PICK o \in WriterType : o = w[x] /\ WriterInv(commits, o)
  BY DEF WritersInv
<1>2. PICK r : r = [o EXCEPT !.gone = TRUE]
  OBVIOUS
<1>3. w' = [w EXCEPT ![x] = r]
  BY <1>1, <1>2 DEF WritersInv, WriterType, Cancel
<1>4. r \in WriterType
  BY <1>2 DEF WriterType
<1>5. /\ r.pc = o.pc /\ r.stage = o.stage /\ r.req = o.req /\ r.h = o.h /\ r.rec = o.rec /\ r.err = o.err
      /\ r.id = o.id /\ r.res = o.res /\ r.rh = o.rh /\ r.from = o.from
  BY <1>2 DEF WriterType
<1>6. WriterInv(commits, r)
  BY <1>1, <1>4, <1>5 DEF WriterInv, InstallOK
<1> QED
  BY <1>1, <1>3, <1>5, <1>6 DEF Moves

\* A conflict is to be retried.
LEMMA RetryMoves ==
    ASSUME HistoryInv, WritersInv, NEW x \in Writer, RetryInner(x) \/ RetryOuter(x)
    PROVE  \E r : Moves(x, r) /\ r.pc = "notify" /\ r.err = w[x].err /\ r.h = w[x].h /\ r.res = w[x].res
<1>1. PICK o \in WriterType : o = w[x] /\ WriterInv(commits, o) /\ o.pc = "failed"
  BY DEF WritersInv, RetryInner, RetryOuter
<1>2. PICK a, b \in Nat : w' = [w EXCEPT ![x].try = a, ![x].outer = b, ![x].rec = head, ![x].pc = "notify"]
  <2>1. o.try \in Nat /\ o.outer \in Nat /\ o.try + 1 \in Nat /\ o.outer + 1 \in Nat /\ 1 \in Nat
    BY DEF WriterType
  <2>2. CASE RetryInner(x)
    <3>1. w' = [w EXCEPT ![x].try = o.try + 1, ![x].outer = o.outer, ![x].rec = head, ![x].pc = "notify"]
      BY <1>1, <2>2 DEF RetryInner, WritersInv, WriterType
    <3> QED
      BY <2>1, <3>1
  <2>3. CASE RetryOuter(x)
    <3>1. w' = [w EXCEPT ![x].try = 1, ![x].outer = o.outer + 1, ![x].rec = head, ![x].pc = "notify"]
      BY <1>1, <2>3 DEF RetryOuter, WritersInv, WriterType
    <3> QED
      BY <2>1, <3>1
  <2> QED
    BY <2>2, <2>3
<1>3. head \in Nat /\ head \in 0 .. Len(commits)
  BY CurrentHistory
<1>4. PICK r : r = [o EXCEPT !.try = a, !.outer = b, !.rec = head, !.pc = "notify"]
  OBVIOUS
<1>5. w' = [w EXCEPT ![x] = r]
  BY <1>1, <1>2, <1>4 DEF WritersInv, WriterType
<1>6. r \in WriterType
  BY <1>2, <1>3, <1>4 DEF WriterType, Pc
<1>7. r.pc = "notify" /\ r.stage = o.stage /\ r.req = o.req /\ r.h = o.h /\ r.rec = head /\ r.err = o.err /\ r.res = o.res
  BY <1>4 DEF WriterType
<1>8. WriterInv(commits, r)
  BY <1>1, <1>3, <1>6, <1>7 DEF WriterInv
<1> QED
  BY <1>1, <1>5, <1>7, <1>8 DEF Moves

\* A request is answered.
LEMMA AnswerMoves ==
    ASSUME HistoryInv, WritersInv, NEW x \in Writer, NEW res \in Err \cup {"ok", "noop", "refused"},
           w' = [w EXCEPT ![x] = Answered(x, res)]
    PROVE  \E r : Moves(x, r) /\ r.pc = "done" /\ r.res \in {res, "gone"} /\ r.h = NoHandle
<1>1. WriterInv(commits, w[x]) /\ GoodHistory(commits)
  BY CurrentHistory DEF WritersInv
<1>2. PICK r : r = Answered(x, res)
  OBVIOUS
<1>3. WriterInv(commits, r) /\ r.pc = "done" /\ r.res \in {res, "gone"} /\ r.h = NoHandle
  BY <1>1, <1>2, AnsweredGood
<1> QED
  BY <1>2, <1>3 DEF Moves

\* A refresh has ended.
LEMMA RefreshedMoves ==
    ASSUME HistoryInv, WritersInv, NEW x \in Writer, w[x].pc \in {"notify", "catchup", "reload"},
           w' = [w EXCEPT ![x] = AfterRefresh(x)]
    PROVE  \E r : /\ Moves(x, r) /\ r.pc \in {"failed", "begin"} /\ r.err \in {"none", w[x].err}
                  /\ r.h = w[x].h /\ r.res = w[x].res
<1>1. WriterInv(commits, w[x]) /\ GoodHistory(commits)
  BY CurrentHistory DEF WritersInv
<1>2. PICK r : r = AfterRefresh(x)
  OBVIOUS
<1>3. WriterInv(commits, r) /\ r.pc \in {"failed", "begin"} /\ r.err \in {"none", w[x].err}
      /\ r.h = w[x].h /\ r.res = w[x].res
  BY <1>1, <1>2, AfterRefreshGood
<1> QED
  BY <1>2, <1>3 DEF Moves

\* A refresh that goes on, by a catch-up or a reload, or that has ended.
LEMMA RefreshMoves ==
    ASSUME HistoryInv, CacheInv, WritersInv, NEW x \in Writer,
           Notify(x) \/ CatchUp(x) \/ CatchUpTooLate(x) \/ AwaitReload(x) \/ RefreshFails(x)
    PROVE  \E r : /\ Moves(x, r) /\ r.pc \in {"failed", "begin", "catchup", "reload"}
                  /\ r.err \in {"none", w[x].err} /\ r.h = w[x].h /\ r.res = w[x].res
<1>1. PICK o \in WriterType : o = w[x] /\ WriterInv(commits, o) /\ o.pc \in {"notify", "catchup", "reload"}
  BY DEF WritersInv, Notify, CatchUp, CatchUpTooLate, AwaitReload, RefreshFails
<1>2. CASE w' = [w EXCEPT ![x] = AfterRefresh(x)]
  BY <1>1, <1>2, RefreshedMoves
<1>3. CASE /\ cur # NoHandle /\ o.pc = "notify" /\ TOf(o.rec) - state[cur].t \in 1 .. MAX_INCREMENTAL_COMMITS
           /\ w' = [w EXCEPT ![x].pc = "catchup", ![x].rh = cur, ![x].from = state[cur].t]
  <2>1. cur \in Handle
    BY <1>3 DEF CacheInv
  <2>2. PICK n \in Nat : n = state[cur].t
    BY <2>1 DEF CacheInv, LedgerState
  <2>3. o.rec \in 0 .. Len(commits) /\ TOf(o.rec) = o.rec /\ Len(commits) \in Nat
    BY <1>1, CurrentHistory DEF WriterInv
  <2>4. n < o.rec
    BY <1>3, <2>2, <2>3, BoundAssumption
  <2>5. PICK r : r = [o EXCEPT !.pc = "catchup", !.rh = cur, !.from = n]
    OBVIOUS
  <2>6. w' = [w EXCEPT ![x] = r]
    BY <1>1, <1>3, <2>2, <2>5 DEF WritersInv, WriterType
  <2>7. r \in WriterType
    BY <2>1, <2>5 DEF WriterType, Pc
  <2>8. /\ r.pc = "catchup" /\ r.stage = o.stage /\ r.req = o.req /\ r.h = o.h /\ r.rec = o.rec
        /\ r.rh = cur /\ r.from = n /\ r.err = o.err /\ r.res = o.res
    BY <2>5 DEF WriterType
  <2>9. WriterInv(commits, r)
    BY <1>1, <2>1, <2>4, <2>7, <2>8 DEF WriterInv
  <2> QED
    BY <1>1, <2>6, <2>8, <2>9 DEF Moves
<1>4. CASE cur # NoHandle /\ w' = [w EXCEPT ![x] = [w[x] EXCEPT !.pc = "reload", !.rh = cur]]
  <2>1. cur \in Handle
    BY <1>4 DEF CacheInv
  <2>2. PICK r : r = [o EXCEPT !.pc = "reload", !.rh = cur]
    OBVIOUS
  <2>3. w' = [w EXCEPT ![x] = r]
    BY <1>1, <1>4, <2>2
  <2>4. r \in WriterType
    BY <2>1, <2>2 DEF WriterType, Pc
  <2>5. /\ r.pc = "reload" /\ r.stage = o.stage /\ r.req = o.req /\ r.h = o.h /\ r.rec = o.rec
        /\ r.rh = cur /\ r.err = o.err /\ r.res = o.res
    BY <2>2 DEF WriterType
  <2>6. WriterInv(commits, r)
    BY <1>1, <2>1, <2>4, <2>5 DEF WriterInv
  <2> QED
    BY <1>1, <2>3, <2>5, <2>6 DEF Moves
<1>5. CASE Notify(x)
  BY <1>1, <1>2, <1>3, <1>4, <1>5 DEF Notify, StartReload
<1>6. CASE CatchUp(x) \/ AwaitReload(x) \/ RefreshFails(x)
  BY <1>2, <1>6 DEF CatchUp, AwaitReload, RefreshFails
<1>7. CASE CatchUpTooLate(x)
  BY <1>2, <1>4, <1>7 DEF CatchUpTooLate, StartReload
<1> QED
  BY <1>5, <1>6, <1>7

\* A commit lands: what is installed next is the stage that landed.
LEMMA PublishMoves ==
    ASSUME HistoryInv, WritersInv, NEW x \in Writer, Publish(x)
    PROVE  \E r : /\ w' = [w EXCEPT ![x] = r] /\ WriterInv(commits', r)
                  /\ r.pc = "install" /\ r.h = w[x].h /\ r.id = Len(commits) + 1 /\ r.res = w[x].res
<1>1. PICK o \in WriterType : o = w[x] /\ WriterInv(commits, o) /\ o.pc = "publish"
  BY DEF WritersInv, Publish
<1>2. PICK n \in Nat : n = Len(commits) + 1
  BY CurrentHistory
<1>3. PICK r : r = [o EXCEPT !.pc = "install", !.id = n]
  OBVIOUS
<1>4. w' = [w EXCEPT ![x] = r]
  BY <1>1, <1>2, <1>3 DEF WritersInv, WriterType, Publish
<1>5. r \in WriterType
  BY <1>3 DEF WriterType, Pc
<1>6. r.pc = "install" /\ r.id = n /\ r.stage = o.stage /\ r.req = o.req /\ r.h = o.h /\ r.rec = o.rec /\ r.res = o.res
  BY <1>3 DEF WriterType
<1>7. /\ HistoryInv' /\ Continues(commits', commits) /\ Len(commits') = n
      /\ LoadedFrom(commits', n).tbl = o.stage.tbl
      /\ commits'[n].meant = o.stage.meant /\ (Schema \in commits'[n].wrote => o.stage.schema)
  BY <1>1, <1>2, LandStep DEF Publish
<1>8. IsHistory(commits) /\ IsHistory(commits')
  BY <1>7, CurrentHistory DEF HistoryInv, GoodHistory
<1>9. WriterInv(commits', o)
  BY <1>1, <1>7, <1>8, WriterInvStays
<1>10. n = o.stage.base.head + 1
  BY <1>1, <1>2 DEF Publish, Land, HistoryInv
<1>11. InstallOK(commits', r)
  <2>1. n \in 1 .. Len(commits')
    BY <1>2, <1>7, CurrentHistory
  <2> QED
    BY <1>6, <1>7, <1>10, <2>1 DEF InstallOK
<1>12. WriterInv(commits', r)
  BY <1>1, <1>5, <1>6, <1>9, <1>11 DEF WriterInv
<1> QED
  BY <1>1, <1>2, <1>4, <1>6, <1>12

\* A publish fails, perhaps after the head has moved.
LEMMA PublishFailsMoves ==
    ASSUME WritersInv, NEW x \in Writer, PublishFails(x)
    PROVE  \E r : Moves(x, r) /\ r.pc = "recover" /\ r.err = "error" /\ r.h = w[x].h /\ r.res = w[x].res
<1>1. Fails(x, "error", "recover") /\ "error" \in Err /\ "recover" \in Committing
  BY DEF PublishFails, Fails, Err, Committing
<1> QED
  BY <1>1, PlainMove

\* The answers, as far as they are one.
LEMMA AnsweringMoves ==
    ASSUME HistoryInv, WritersInv, NEW x \in Writer,
           Noop(x) \/ Abandon(x) \/ Install(x) \/ Panic(x) \/ GiveUp(x)
    PROVE  \E r : /\ Moves(x, r) /\ r.pc = "done" /\ r.h = NoHandle
                  /\ r.res \in {IF Noop(x) THEN "noop" ELSE IF Abandon(x) THEN "refused"
                                ELSE IF Install(x) THEN "ok" ELSE IF Panic(x) THEN "error"
                                ELSE w[x].err, "gone"}
<1>1. PICK res : res = IF Noop(x) THEN "noop" ELSE IF Abandon(x) THEN "refused"
                       ELSE IF Install(x) THEN "ok" ELSE IF Panic(x) THEN "error" ELSE w[x].err
  OBVIOUS
<1>2. w[x].err \in Err
  BY DEF WritersInv, WriterType
<1>3. res \in Err \cup {"ok", "noop", "refused"}
  BY <1>1, <1>2 DEF Err
<1>4. w' = [w EXCEPT ![x] = Answered(x, res)]
  <2>1. CASE Noop(x)
    BY <1>1, <2>1 DEF Noop
  <2>2. CASE ~ Noop(x) /\ Abandon(x)
    BY <1>1, <2>2 DEF Abandon
  <2>3. CASE ~ Noop(x) /\ ~ Abandon(x) /\ Install(x)
    BY <1>1, <2>3 DEF Install
  <2>4. CASE ~ Noop(x) /\ ~ Abandon(x) /\ ~ Install(x) /\ Panic(x)
    BY <1>1, <2>4 DEF Panic
  <2>5. CASE ~ Noop(x) /\ ~ Abandon(x) /\ ~ Install(x) /\ ~ Panic(x)
    <3>1. GiveUp(x) /\ res = w[x].err
      BY <1>1, <2>5
    <3> QED
      BY <3>1 DEF GiveUp
  <2> QED
    BY <2>1, <2>2, <2>3, <2>4, <2>5
<1>5. PICK r : Moves(x, r) /\ r.pc = "done" /\ r.res \in {res, "gone"} /\ r.h = NoHandle
  BY <1>3, <1>4, AnswerMoves
<1> QED
  BY <1>1, <1>5

\* When one writer moves to where it is in order, all of them are.
LEMMA OneWriterMoves ==
    ASSUME HistoryInv, HistoryInv', Continues(commits', commits), WritersInv, NEW x \in Writer, NEW r,
           WriterInv(commits', r), w' = [w EXCEPT ![x] = r]
    PROVE  WritersInv'
<1>1. r \in WriterType /\ w \in [Writer -> WriterType]
  BY DEF WriterInv, WritersInv
<1>2. w' \in [Writer -> WriterType] /\ \A y \in Writer : w'[y] = IF y = x THEN r ELSE w[y]
  BY <1>1
<1>3. IsHistory(commits) /\ IsHistory(commits')
  BY DEF HistoryInv, GoodHistory
<1>4. ASSUME NEW y \in Writer PROVE WriterInv(commits', w'[y])
  <2>1. CASE y = x
    BY <1>2, <2>1
  <2>2. CASE y # x
    <3>1. WriterInv(commits, w[y])
      BY DEF WritersInv
    <3>2. WriterInv(commits', w[y])
      BY <1>3, <3>1, WriterInvStays
    <3> QED
      BY <1>2, <2>2, <3>2
  <2> QED
    BY <2>1, <2>2
<1> QED
  BY <1>2, <1>4 DEF WritersInv

\* The same, for the moves above.
LEMMA MovesKeepsWriters ==
    ASSUME HistoryInv, HistoryInv', Continues(commits', commits), WritersInv, NEW x \in Writer,
           \E r : Moves(x, r)
    PROVE  WritersInv'
<1>1. PICK r : w' = [w EXCEPT ![x] = r] /\ WriterInv(commits, r)
  BY DEF Moves
<1>2. IsHistory(commits) /\ IsHistory(commits')
  BY DEF HistoryInv, GoodHistory
<1>3. WriterInv(commits', r)
  BY <1>1, <1>2, WriterInvStays
<1> QED
  BY <1>1, <1>3, OneWriterMoves

\* The same, when no writer moves.
LEMMA WritersUnchanged ==
    ASSUME HistoryInv, HistoryInv', Continues(commits', commits), WritersInv, w' = w
    PROVE  WritersInv'
<1>1. IsHistory(commits) /\ IsHistory(commits')
  BY DEF HistoryInv, GoodHistory
<1>2. ASSUME NEW y \in Writer PROVE WriterInv(commits', w'[y])
  <2>1. WriterInv(commits, w[y])
    BY DEF WritersInv
  <2>2. WriterInv(commits', w[y])
    BY <1>1, <2>1, WriterInvStays
  <2> QED
    BY <2>2
<1> QED
  BY <1>2 DEF WritersInv

\* Every step keeps the writers in order.
LEMMA WritersKept ==
    ASSUME HistoryInv, CacheInv, WritersInv, [WriteNext]_vars
    PROVE  WritersInv'
<1>1. HistoryInv' /\ Continues(commits', commits)
  BY HistoryKept
<1>2. CASE UNCHANGED vars \/ Background \/ SweepIdle \/ Finished \/ \E r \in Foreign : ForeignCommit(r)
  <2>1. w' = w
    BY <1>2 DEF vars, Background, Repair, FinishReload, SweepIdle, Finished, ForeignCommit
  <2> QED
    BY <1>1, <2>1, WritersUnchanged
<1>3. ASSUME NEW x \in Writer, NEW q \in Request, Begin(x, q) PROVE WritersInv'
  BY <1>1, <1>3, BeginMoves, MovesKeepsWriters
<1>4. ASSUME NEW x \in Writer, Step(x) \/ Failure(x) PROVE WritersInv'
  <2>1. CASE Publish(x)
    BY <1>1, <2>1, PublishMoves, OneWriterMoves
  <2>2. CASE ~ Publish(x)
    <3>1. \E r : Moves(x, r)
      <4>1. CASE StageSnapshot(x) \/ LockStaged(x) \/ LockAndStage(x)
        BY <4>1, StagingMoves
      <4>2. CASE Detach(x)
        BY <4>2, DetachMoves
      <4>3. CASE LoseRace(x) \/ Recover(x) \/ RecoverFails(x) \/ Disconnect(x)
        BY <4>3, FailingMoves
      <4>4. CASE Cancel(x)
        BY <4>4, CancelMoves
      <4>5. CASE RetryInner(x) \/ RetryOuter(x)
        BY <4>5, RetryMoves
      <4>6. CASE Notify(x) \/ CatchUp(x) \/ CatchUpTooLate(x) \/ AwaitReload(x) \/ RefreshFails(x)
        BY <4>6, RefreshMoves
      <4>7. CASE PublishFails(x)
        BY <4>7, PublishFailsMoves
      <4>8. CASE Noop(x) \/ Abandon(x) \/ Install(x) \/ Panic(x) \/ GiveUp(x)
        BY <4>8, AnsweringMoves
      <4> QED
        BY <1>4, <2>2, <4>1, <4>2, <4>3, <4>4, <4>5, <4>6, <4>7, <4>8 DEF Step, Failure
    <3> QED
      BY <1>1, <3>1, MovesKeepsWriters
  <2> QED
    BY <2>1, <2>2
<1> QED
  BY <1>2, <1>3, <1>4 DEF WriteNext

-----------------------------------------------------------------------------
(* What a step leaves of the cache.                                        *)

\* The loads and replays that fill a slot, whoever asks for them.
LEMMA CacheStays ==
    ASSUME HistoryInv, HistoryInv', Continues(commits', commits), CacheInv,
           state' \in [Handle -> LedgerState], ring' \in [Handle -> Seq(FootprintType)],
           \A h \in Handle : Faithful(commits, state'[h]) /\ GoodRing(commits, ring'[h]),
           cur' \in Handle \cup {NoHandle}, lock' \in [Handle -> Writer \cup {NoOne}],
           reloads' \in SUBSET [h : Handle, id : Nat],
           \A l \in reloads' : l.id \in 0 .. Len(commits), repairs' \in Nat
    PROVE  CacheInv'
<1>1. IsHistory(commits) /\ IsHistory(commits')
  BY DEF HistoryInv, GoodHistory
<1>2. ASSUME NEW h \in Handle PROVE Faithful(commits', state'[h]) /\ GoodRing(commits', ring'[h])
  BY <1>1, FaithfulStays, GoodRingStays
<1>3. ASSUME NEW l \in reloads' PROVE l.id \in 0 .. Len(commits')
  <2>1. Len(commits) \in Nat /\ Len(commits') \in Nat /\ Len(commits) <= Len(commits')
    BY <1>1 DEF IsHistory, Continues
  <2> QED
    BY <2>1
<1> QED
  BY <1>2, <1>3 DEF CacheInv

\* A load of a durable commit is faithful and no placeholder.
LEMMA LoadIsFaithful ==
    ASSUME HistoryInv, NEW id \in 0 .. Len(commits)
    PROVE  Faithful(commits, LoadedState(id)) /\ LoadedState(id) \in LedgerState
           /\ LoadedState(id).placeholder = FALSE
<1>1. LoadedState(id) = LoadedFrom(commits, id) /\ IsHistory(commits)
  BY CurrentHistory
<1>2. Faithful(commits, LoadedFrom(commits, id)) /\ LoadedFrom(commits, id).placeholder = FALSE
  BY <1>1, LoadedFaithful, LoadedFields
<1> QED
  BY <1>1, <1>2 DEF Faithful

\* What one slot is given is faithful.
LEMMA SlotFilled ==
    ASSUME CacheInv, NEW h \in Handle, NEW s, Faithful(commits, s), state' = [state EXCEPT ![h] = s]
    PROVE  /\ state' \in [Handle -> LedgerState]
           /\ \A g \in Handle : Faithful(commits, state'[g])
<1>1. s \in LedgerState
  BY DEF Faithful
<1>2. state \in [Handle -> LedgerState] /\ \A g \in Handle : Faithful(commits, state[g])
  BY DEF CacheInv
<1> QED
  BY <1>1, <1>2

\* The writer that landed fills its slot and its ring with what its commit is.
LEMMA InstallFaithful ==
    ASSUME HistoryInv, CacheInv, WritersInv, NEW x \in Writer, Install(x)
    PROVE  /\ \A h \in Handle : Faithful(commits, state'[h]) /\ GoodRing(commits, ring'[h])
           /\ state' \in [Handle -> LedgerState] /\ ring' \in [Handle -> Seq(FootprintType)]
           /\ state'[w[x].h].placeholder = FALSE
<1>1. PICK o \in WriterType : o = w[x] /\ WriterInv(commits, o) /\ o.pc = "install"
  BY DEF WritersInv, Install
<1>2. InstallOK(commits, o) /\ o.h \in Handle /\ GoodStage(commits, o.stage)
  BY <1>1 DEF WriterInv
<1>3. IsHistory(commits) /\ Len(commits) \in Nat
  BY CurrentHistory
<1>4. PICK b : b = o.stage.base
  OBVIOUS
<1>5. Faithful(commits, b) /\ o.id \in 1 .. Len(commits) /\ o.id = b.head + 1
  BY <1>2, <1>4 DEF GoodStage, InstallOK
<1>6. PICK s : s = ApplySingleCommit(b, o.id, commits[o.id])
  OBVIOUS
<1>7. s = LoadedFrom(commits, o.id)
  BY <1>3, <1>5, <1>6, ApplyFaithful
<1>8. o.id \in 0 .. Len(commits)
  BY <1>3, <1>5
<1>9. Faithful(commits, s) /\ s.placeholder = FALSE
  BY <1>3, <1>7, <1>8, LoadedFaithful, LoadedFields
<1>10. state' = [state EXCEPT ![o.h] = s]
  BY <1>1, <1>4, <1>6 DEF Install
<1>11. state' \in [Handle -> LedgerState] /\ \A h \in Handle : Faithful(commits, state'[h])
  BY <1>2, <1>9, <1>10, SlotFilled
<1>12. PICK f : f = Footprint(o.stage, o.id)
  OBVIOUS
<1>13. PICK id \in Nat : id = o.id
  BY <1>8
<1>14. /\ b.t = b.head /\ b.head \in Nat /\ id = b.head + 1 /\ o.stage.schema \in BOOLEAN
       /\ o.stage.wrote \in SUBSET Sid
  BY <1>2, <1>3, <1>5, <1>13 DEF Faithful, GoodStage, StageType
<1>15. f = [t |-> id, parent |-> b.head, id |-> id, all |-> o.stage.schema, subjects |-> o.stage.wrote]
  BY <1>4, <1>12, <1>13, <1>14 DEF Footprint
<1>16. f \in FootprintType
  BY <1>14, <1>15 DEF FootprintType
<1>17. GoodFootprint(commits, f)
  <2>1. f.id = id /\ f.t = id /\ f.parent = id - 1 /\ f.all = o.stage.schema /\ f.subjects = o.stage.wrote
    BY <1>14, <1>15
  <2>2. o.stage.wrote = Sids(LoadedFrom(commits, id).tbl, commits[id].meant)
    BY <1>2, <1>13 DEF InstallOK, GoodStage
  <2>3. id \in 1 .. Len(commits) /\ (Schema \in commits[id].wrote => o.stage.schema)
    BY <1>2, <1>13 DEF InstallOK
  <2> QED
    BY <2>1, <2>2, <2>3 DEF GoodFootprint
<1>18. ring \in [Handle -> Seq(FootprintType)] /\ \A h \in Handle : GoodRing(commits, ring[h])
  BY DEF CacheInv
<1>19. GoodRing(commits, PushFootprint(ring[o.h], f))
  BY <1>2, <1>3, <1>16, <1>17, <1>18, PushGood
<1>20. PICK p : p = PushFootprint(ring[o.h], f)
  OBVIOUS
<1>21. ring' = [ring EXCEPT ![o.h] = p]
  BY <1>1, <1>12, <1>20 DEF Install
<1>22. p \in Seq(FootprintType) /\ GoodRing(commits, p)
  BY <1>19, <1>20 DEF GoodRing
<1>23. ring' \in [Handle -> Seq(FootprintType)] /\ \A h \in Handle : GoodRing(commits, ring'[h])
  BY <1>18, <1>21, <1>22
<1>24. state'[o.h] = s
  BY <1>2, <1>10 DEF CacheInv
<1> QED
  BY <1>1, <1>9, <1>11, <1>23, <1>24

\* A catch-up that finds the state it was planned for brings it to the record.
LEMMA CatchUpFaithful ==
    ASSUME HistoryInv, CacheInv, WritersInv, NEW x \in Writer, CatchUp(x)
    PROVE  \E s : /\ Faithful(commits, s) /\ s.placeholder = FALSE /\ w[x].rh \in Handle
                  /\ state' = [state EXCEPT ![w[x].rh] = s]
<1>1. PICK o \in WriterType : o = w[x] /\ WriterInv(commits, o) /\ o.pc = "catchup"
  BY DEF WritersInv, CatchUp
<1>2. o.rh \in Handle /\ o.rec \in 0 .. Len(commits) /\ o.from < o.rec /\ o.from \in Nat
  BY <1>1 DEF WriterInv, WriterType
<1>3. PICK s : s = state[o.rh]
  OBVIOUS
<1>4. Faithful(commits, s) /\ s.t = o.from /\ s.head = o.from
  BY <1>1, <1>2, <1>3 DEF CacheInv, CatchUp, Faithful
<1>5. IsHistory(commits) /\ Len(commits) \in Nat /\ TOf(o.rec) = o.rec
  BY <1>2, CurrentHistory
<1>6. PICK b \in Nat : b = o.rec
  BY <1>2, <1>5
<1>7. PICK a \in Nat : a = o.from
  BY <1>2
<1>8. PICK c \in Seq(Nat) : c = ChainOf(b) /\ Len(c) = b /\ \A n \in 1 .. b : c[n] = n
  <2>1. b \in 1 .. Len(commits) /\ b # 0
    BY <1>2, <1>5, <1>6, <1>7
  <2>2. commits[b] \in Commit
    BY <1>5, <2>1 DEF IsHistory
  <2>3. ChainOf(b) = commits[b].chain
    BY <2>1 DEF ChainOf
  <2> QED
    BY <1>5, <2>1, <2>2, <2>3 DEF IsHistory, Commit
<1>9. a < b
  BY <1>2, <1>6, <1>7
<1>10. PICK ids \in Seq(Nat) : ids = SubSeq(c, a + 1, b)
  <2>1. \A n \in a + 1 .. b : c[n] \in Nat
    BY <1>8
  <2>2. SubSeq(c, a + 1, b) \in Seq(Nat)
    BY <1>8, <1>9, <2>1
  <2> QED
    BY <2>2
<1>11. Len(ids) = b - a /\ \A n \in 1 .. b - a : ids[n] = c[a + n]
  BY ONLY a \in Nat, b \in Nat, c \in Seq(Nat), <1>8, <1>9, <1>10
<1>12. \A n \in 1 .. b - a : ids[n] = a + n
  BY <1>8, <1>11
<1>13. PICK new : new = Replay(commits, s, ids)
  OBVIOUS
<1>14. Faithful(commits, new) /\ new.placeholder = FALSE
  <2>1. b \in 0 .. Len(commits) /\ s.head < b /\ Len(ids) = b - s.head
    BY <1>2, <1>4, <1>6, <1>7, <1>9, <1>11
  <2>2. \A n \in 1 .. Len(ids) : ids[n] = s.head + n
    BY <1>4, <1>7, <1>11, <1>12
  <2> QED
    BY <1>4, <1>5, <1>13, <2>1, <2>2, ReplayFaithful
<1>15. state' = [state EXCEPT ![o.rh] = new]
  BY <1>1, <1>3, <1>5, <1>6, <1>7, <1>8, <1>10, <1>13 DEF CatchUp
<1> QED
  BY <1>1, <1>2, <1>14, <1>15

\* The manager hands out what it has, or a fresh handle loaded from the head.
LEMMA GetOrLoadFaithful ==
    ASSUME HistoryInv, CacheInv, NEW h \in Handle, GetOrLoad(h)
    PROVE  /\ \A g \in Handle : Faithful(commits, state'[g]) /\ GoodRing(commits, ring'[g])
           /\ state' \in [Handle -> LedgerState] /\ ring' \in [Handle -> Seq(FootprintType)]
           /\ cur' = h /\ lock' = lock
<1>1. CASE cur # NoHandle /\ h = cur /\ UNCHANGED cache
  BY <1>1 DEF cache, CacheInv
<1>2. CASE ~ (cur # NoHandle /\ h = cur /\ UNCHANGED cache)
  <2>1. /\ cur' = h /\ state' = [state EXCEPT ![h] = LoadedState(head)]
        /\ ring' = [ring EXCEPT ![h] = <<>>] /\ lock' = lock
    BY <1>2 DEF GetOrLoad
  <2>2. PICK s : s = LoadedState(head) /\ Faithful(commits, s)
    BY CurrentHistory, LoadIsFaithful
  <2>3. state' \in [Handle -> LedgerState] /\ \A g \in Handle : Faithful(commits, state'[g])
    BY <2>1, <2>2, SlotFilled
  <2>4. ring \in [Handle -> Seq(FootprintType)] /\ \A g \in Handle : GoodRing(commits, ring[g])
    BY DEF CacheInv
  <2>5. GoodRing(commits, <<>>) /\ <<>> \in Seq(FootprintType)
    BY DEF GoodRing
  <2>6. ring' \in [Handle -> Seq(FootprintType)] /\ \A g \in Handle : GoodRing(commits, ring'[g])
    BY <2>1, <2>4, <2>5
  <2> QED
    BY <2>1, <2>3, <2>6
<1> QED
  BY <1>1, <1>2

\* What the actions do to locks, reloads and the manager's entry stays well typed.
SlotsTyped ==
    /\ cur' \in Handle \cup {NoHandle}
    /\ lock' \in [Handle -> Writer \cup {NoOne}]
    /\ reloads' \in SUBSET [h : Handle, id : Nat]
    /\ \A l \in reloads' : l.id \in 0 .. Len(commits)
    /\ repairs' \in Nat

SlotsFaithful ==
    /\ state' \in [Handle -> LedgerState] /\ ring' \in [Handle -> Seq(FootprintType)]
    /\ \A h \in Handle : Faithful(commits, state'[h]) /\ GoodRing(commits, ring'[h])

\* A lock changes hands among writers and nobody.
LEMMA LocksTyped ==
    ASSUME CacheInv, NEW h, NEW y \in Writer \cup {NoOne}, lock' = [lock EXCEPT ![h] = y]
    PROVE  lock' \in [Handle -> Writer \cup {NoOne}]
  BY DEF CacheInv

\* A reload that starts reads the head there is.
LEMMA ReloadsTyped ==
    ASSUME HistoryInv, CacheInv,
           reloads' = IF cur = NoHandle \/ \E l \in reloads : l.h = cur THEN reloads
                      ELSE reloads \cup {[h |-> cur, id |-> head]}
    PROVE  reloads' \in SUBSET [h : Handle, id : Nat] /\ \A l \in reloads' : l.id \in 0 .. Len(commits)
<1>1. reloads \in SUBSET [h : Handle, id : Nat] /\ \A l \in reloads : l.id \in 0 .. Len(commits)
  BY DEF CacheInv
<1>2. CASE cur # NoHandle
  <2>1. cur \in Handle /\ head \in Nat /\ head \in 0 .. Len(commits)
    BY <1>2, CurrentHistory DEF CacheInv
  <2>2. [h |-> cur, id |-> head] \in [h : Handle, id : Nat]
    BY <2>1
  <2>3. PICK n \in [h : Handle, id : Nat] : n = [h |-> cur, id |-> head]
    BY <2>2
  <2>4. n.id = head
    BY <2>3
  <2>5. reloads' \subseteq reloads \cup {n}
    BY <2>3
  <2> QED
    BY <1>1, <2>1, <2>4, <2>5
<1>3. CASE cur = NoHandle
  BY <1>1, <1>3
<1> QED
  BY <1>2, <1>3

\* A writer's step keeps the shape of locks and reloads.
LEMMA StepSlotsTyped ==
    ASSUME HistoryInv, CacheInv, NEW x \in Writer, Step(x) \/ Failure(x)
    PROVE  SlotsTyped
<1>0. /\ cur \in Handle \cup {NoHandle} /\ lock \in [Handle -> Writer \cup {NoOne}]
      /\ reloads \in SUBSET [h : Handle, id : Nat]
      /\ \A l \in reloads : l.id \in 0 .. Len(commits)
      /\ repairs \in Nat /\ repairs + 1 \in Nat
  BY DEF CacheInv
<1>1. CASE StageSnapshot(x) \/ Publish(x) \/ LoseRace(x) \/ PublishFails(x) \/ Cancel(x) \/ RetryInner(x)
           \/ RetryOuter(x) \/ GiveUp(x) \/ AwaitReload(x) \/ RefreshFails(x) \/ CatchUp(x) \/ Detach(x)
  BY <1>0, <1>1 DEF StageSnapshot, Publish, LoseRace, PublishFails, Cancel, RetryInner, RetryOuter,
     GiveUp, AwaitReload, RefreshFails, CatchUp, Detach, cache, background, SlotsTyped
<1>2. CASE LockStaged(x) \/ LockAndStage(x) \/ Noop(x) \/ Install(x) \/ Recover(x) \/ RecoverFails(x) \/ Panic(x)
  <2>2. \E h : \E y \in Writer \cup {NoOne} : lock' = [lock EXCEPT ![h] = y]
    BY <1>2 DEF LockStaged, LockAndStage, Noop, Install, Recover, RecoverFails, Panic
  <2>3. lock' \in [Handle -> Writer \cup {NoOne}]
    BY <2>2, LocksTyped
  <2>4. cur' = cur /\ reloads' = reloads /\ repairs' \in {repairs, repairs + 1}
    BY <1>2 DEF LockStaged, LockAndStage, Noop, Install, Recover, RecoverFails, Panic, background
  <2> QED
    BY <1>0, <2>3, <2>4 DEF SlotsTyped
<1>3. CASE Abandon(x)
  <2>1. lock' \in [Handle -> Writer \cup {NoOne}]
    BY <1>0, <1>3 DEF Abandon
  <2>2. cur' = cur /\ reloads' = reloads /\ repairs' = repairs
    BY <1>3 DEF Abandon, background
  <2> QED
    BY <1>0, <2>1, <2>2 DEF SlotsTyped
<1>4. CASE Disconnect(x)
  BY <1>0, <1>4 DEF Disconnect, background, SlotsTyped
<1>5. CASE StartReload(x)
  <2>1. reloads' \in SUBSET [h : Handle, id : Nat] /\ \A l \in reloads' : l.id \in 0 .. Len(commits)
    BY <1>5, ReloadsTyped DEF StartReload
  <2> QED
    BY <1>0, <1>5, <2>1 DEF StartReload, cache, SlotsTyped
<1>6. CASE Notify(x) /\ ~ StartReload(x)
  <2>1. UNCHANGED <<cache, background>>
    BY <1>6 DEF Notify
  <2> QED
    BY <1>0, <2>1 DEF cache, background, SlotsTyped
<1> QED
  BY <1>1, <1>2, <1>3, <1>4, <1>5, <1>6 DEF Step, Failure, CatchUpTooLate

\* A writer's step leaves faithful states and rings.
LEMMA StepSlotsFaithful ==
    ASSUME HistoryInv, CacheInv, WritersInv, NEW x \in Writer, Step(x) \/ Failure(x)
    PROVE  SlotsFaithful
<1>0. /\ state \in [Handle -> LedgerState] /\ ring \in [Handle -> Seq(FootprintType)]
      /\ \A h \in Handle : Faithful(commits, state[h]) /\ GoodRing(commits, ring[h])
  BY DEF CacheInv
<1>1. CASE Install(x)
  BY <1>1, InstallFaithful DEF SlotsFaithful
<1>2. CASE CatchUp(x)
  <2>1. PICK s : Faithful(commits, s) /\ w[x].rh \in Handle /\ state' = [state EXCEPT ![w[x].rh] = s]
    BY <1>2, CatchUpFaithful
  <2>2. state' \in [Handle -> LedgerState] /\ \A g \in Handle : Faithful(commits, state'[g])
    BY <2>1, SlotFilled
  <2>3. ring' = ring
    BY <1>2 DEF CatchUp
  <2> QED
    BY <1>0, <2>2, <2>3 DEF SlotsFaithful
<1>3. CASE Detach(x) \/ Recover(x)
  <2>1. w[x].h \in Handle
    BY <1>3 DEF WritersInv, WriterInv, Detach, Recover
  <2>2. \E s : Faithful(commits, s) /\ state' = [state EXCEPT ![w[x].h] = s]
    <3>1. Faithful(commits, Placeholder) /\ Faithful(commits, LoadedState(head))
      BY CurrentHistory, PlaceholderFaithful, LoadIsFaithful
    <3> QED
      BY <1>3, <3>1 DEF Detach, Recover
  <2>3. state' \in [Handle -> LedgerState] /\ \A g \in Handle : Faithful(commits, state'[g])
    BY <2>1, <2>2, SlotFilled
  <2>4. ring' = ring
    BY <1>3 DEF Detach, Recover
  <2> QED
    BY <1>0, <2>3, <2>4 DEF SlotsFaithful
<1>4. CASE ~ Install(x) /\ ~ CatchUp(x) /\ ~ Detach(x) /\ ~ Recover(x)
  <2>1. state' = state /\ ring' = ring
    BY <1>4 DEF Step, Failure, StageSnapshot, LockStaged, LockAndStage, Noop, Publish, LoseRace,
       Disconnect, RetryInner, RetryOuter, GiveUp, Notify, CatchUpTooLate, AwaitReload, Abandon,
       PublishFails, RecoverFails, Panic, Cancel, RefreshFails, StartReload, cache
  <2> QED
    BY <1>0, <2>1 DEF SlotsFaithful
<1> QED
  BY <1>1, <1>2, <1>3, <1>4

\* Every step keeps the cache faithful.
LEMMA CacheKept ==
    ASSUME HistoryInv, CacheInv, WritersInv, [WriteNext]_vars
    PROVE  CacheInv'
<1>0. /\ cur \in Handle \cup {NoHandle} /\ lock \in [Handle -> Writer \cup {NoOne}]
      /\ reloads \in SUBSET [h : Handle, id : Nat]
      /\ \A l \in reloads : l.id \in 0 .. Len(commits)
      /\ repairs \in Nat /\ (repairs > 0 => repairs - 1 \in Nat)
      /\ state \in [Handle -> LedgerState] /\ ring \in [Handle -> Seq(FootprintType)]
      /\ \A h \in Handle : Faithful(commits, state[h]) /\ GoodRing(commits, ring[h])
  BY DEF CacheInv
<1>1. HistoryInv' /\ Continues(commits', commits)
  BY HistoryKept
<1>2. SlotsTyped /\ SlotsFaithful
  <2>1. CASE UNCHANGED vars \/ Finished \/ \E r \in Foreign : ForeignCommit(r)
    <3>1. UNCHANGED <<cache, background>>
      BY <2>1 DEF vars, Finished, ForeignCommit, cache, background
    <3> QED
      BY <1>0, <3>1 DEF cache, background, SlotsTyped, SlotsFaithful
  <2>2. ASSUME NEW x \in Writer, NEW q \in Request, Begin(x, q) PROVE SlotsTyped /\ SlotsFaithful
    <3>1. PICK h \in Handle : GetOrLoad(h)
      BY <2>2 DEF Begin
    <3>2. SlotsFaithful /\ cur' = h /\ lock' = lock
      BY <3>1, GetOrLoadFaithful DEF SlotsFaithful
    <3>3. UNCHANGED background
      BY <2>2 DEF Begin
    <3> QED
      BY <1>0, <3>2, <3>3 DEF background, SlotsTyped
  <2>3. ASSUME NEW x \in Writer, Step(x) \/ Failure(x) PROVE SlotsTyped /\ SlotsFaithful
    BY <2>3, StepSlotsTyped, StepSlotsFaithful
  <2>4. CASE Repair
    <3>1. reloads' \in SUBSET [h : Handle, id : Nat] /\ \A l \in reloads' : l.id \in 0 .. Len(commits)
      BY <2>4, ReloadsTyped DEF Repair
    <3> QED
      BY <1>0, <2>4, <3>1 DEF Repair, cache, SlotsTyped, SlotsFaithful
  <2>5. ASSUME NEW l \in reloads, FinishReload(l) PROVE SlotsTyped /\ SlotsFaithful
    <3>1. l.h \in Handle /\ l.id \in 0 .. Len(commits)
      BY <1>0
    <3>2. \E s : Faithful(commits, s) /\ state' = [state EXCEPT ![l.h] = s]
      <4>1. Faithful(commits, LoadedState(l.id)) /\ Faithful(commits, state[l.h])
        BY <1>0, <3>1, LoadIsFaithful
      <4> QED
        BY <2>5, <4>1 DEF FinishReload
    <3>3. state' \in [Handle -> LedgerState] /\ \A g \in Handle : Faithful(commits, state'[g])
      BY <3>1, <3>2, SlotFilled
    <3>4. ring' = ring /\ cur' = cur /\ lock' = lock /\ repairs' = repairs /\ reloads' \subseteq reloads
      BY <2>5 DEF FinishReload
    <3> QED
      BY <1>0, <3>3, <3>4 DEF SlotsTyped, SlotsFaithful
  <2>6. CASE SweepIdle
    BY <1>0, <2>6 DEF SweepIdle, background, SlotsTyped, SlotsFaithful
  <2> QED
    BY <2>1, <2>2, <2>3, <2>4, <2>5, <2>6 DEF WriteNext, Background
<1> QED
  BY <1>1, <1>2, CacheStays DEF SlotsTyped, SlotsFaithful

-----------------------------------------------------------------------------
(* What holds in every state of the write path.                            *)

WriteInv == HistoryInv /\ CacheInv /\ WritersInv

\* Before the first commit the history is good.
LEMMA EmptyHistoryGood ==
    GoodHistory(<<>>)
<1>1. <<>> \in Seq(Commit) /\ Len(<<>>) = 0
  OBVIOUS
<1>2. \A id \in 1 .. Len(<<>>) : FALSE
  BY <1>1
<1> QED
  BY <1>1, <1>2 DEF GoodHistory, IsHistory

\* The invariant holds initially ...
LEMMA WriteInvInit ==
    ASSUME WriteInit
    PROVE  WriteInv
<1>1. HistoryInv
  <2>1. commits = <<>> /\ head = 0 /\ Len(<<>>) = 0
    BY DEF WriteInit
  <2> QED
    BY <2>1, EmptyHistoryGood DEF HistoryInv
<1>2. GoodHistory(commits) /\ IsHistory(commits) /\ Len(commits) = 0
  BY <1>1, CurrentHistory DEF WriteInit
<1>3. CacheInv
  <2>1. Faithful(commits, Genesis) /\ Genesis \in LedgerState
    BY <1>2, PlaceholderFaithful, GenesisTyped
  <2>2. state \in [Handle -> LedgerState] /\ \A h \in Handle : Faithful(commits, state[h])
    BY <2>1 DEF WriteInit
  <2>3. GoodRing(commits, <<>>) /\ <<>> \in Seq(FootprintType)
    BY DEF GoodRing
  <2>4. ring \in [Handle -> Seq(FootprintType)] /\ \A h \in Handle : GoodRing(commits, ring[h])
    BY <2>3 DEF WriteInit
  <2>5. /\ cur \in Handle \cup {NoHandle} /\ lock \in [Handle -> Writer \cup {NoOne}]
        /\ reloads = {} /\ repairs \in Nat
    BY DEF WriteInit
  <2> QED
    BY <2>2, <2>4, <2>5 DEF CacheInv
<1>4. WritersInv
  <2>1. WriterInv(commits, NewWriter)
    BY <1>2, NewWriterGood
  <2>2. NewWriter \in WriterType
    BY <2>1 DEF WriterInv
  <2> QED
    BY <2>1, <2>2 DEF WritersInv, WriteInit
<1> QED
  BY <1>1, <1>3, <1>4 DEF WriteInv

\* ... and in every reachable state.
LEMMA WriteInvHolds == WriteSpec => []WriteInv
<1>1. WriteInv /\ [WriteNext]_vars => WriteInv'
  BY HistoryKept, CacheKept, WritersKept DEF WriteInv
<1> QED
  BY <1>1, WriteInvInit, PTL DEF WriteSpec

-----------------------------------------------------------------------------
(* Commits read and write what their requests meant.                       *)

\* Good commits read what the commit before them holds.
LEMMA WriteInvSerializes == WriteInv => Serializable
<1> SUFFICES ASSUME WriteInv PROVE Serializable
  OBVIOUS
<1>0. HistoryInv /\ CacheInv /\ WritersInv
  BY DEF WriteInv
<1>1. /\ IsHistory(commits) /\ GoodHistory(commits) /\ Len(commits) \in Nat
      /\ \A id : LoadedState(id) = LoadedFrom(commits, id)
      /\ DOMAIN commits = 1 .. Len(commits)
  BY <1>0, CurrentHistory DEF IsHistory
<1>2. ASSUME NEW id \in DOMAIN commits
      PROVE  LET c == commits[id]
             IN  \A k \in DOMAIN c.seen :
                    c.seen[k] = LoadedData(IF Len(c.chain) = 1 THEN 0 ELSE c.chain[Len(c.chain) - 1])[k]
  <2>1. id \in 1 .. Len(commits)
    BY <1>1
  <2>2. PICK c : c = commits[id]
    OBVIOUS
  <2>3. Len(c.chain) = id /\ \A n \in 1 .. id : c.chain[n] = n
    BY <1>1, <2>1, <2>2 DEF IsHistory
  <2>4. (IF Len(c.chain) = 1 THEN 0 ELSE c.chain[Len(c.chain) - 1]) = id - 1
    <3>1. CASE id = 1
      BY <2>3, <3>1
    <3>2. CASE id # 1
      <4>1. id \in Nat /\ id - 1 \in 1 .. id
        BY <1>1, <2>1, <3>2
      <4> QED
        BY <2>3, <3>2, <4>1
    <3> QED
      BY <3>1, <3>2
  <2>5. \A k \in DOMAIN c.seen : c.seen[k] = LoadedFrom(commits, id - 1).data[k]
    BY <1>1, <2>1, <2>2 DEF GoodHistory, GoodCommit
  <2>6. LoadedData(id - 1) = LoadedFrom(commits, id - 1).data
    BY <1>1 DEF LoadedData
  <2> QED
    BY <2>2, <2>4, <2>5, <2>6
<1>3. ASSUME NEW x \in Writer
      PROVE  \A k \in DOMAIN w[x].stage.seen :
                w[x].stage.seen[k] = LoadedData(w[x].stage.base.head)[k]
  <2>1. PICK st : st = w[x].stage
    OBVIOUS
  <2>2. GoodStage(commits, st)
    BY <1>0, <2>1 DEF WritersInv, WriterInv
  <2>3. \A k \in DOMAIN st.seen : st.seen[k] = LoadedFrom(commits, st.base.head).data[k]
    BY <2>2 DEF GoodStage, Faithful
  <2>4. LoadedData(st.base.head) = LoadedFrom(commits, st.base.head).data
    BY <1>1 DEF LoadedData
  <2> QED
    BY <2>1, <2>3, <2>4
<1> QED
  BY <1>2, <1>3 DEF Serializable

\* Every commit read what the commit before it holds (rebase_stage, subjects_between), in
\* every instance: however many writers, handles, retries and foreign commits there are.
THEOREM WritesSerialize == WriteSpec => []Serializable
  BY WriteInvHolds, WriteInvSerializes, PTL

\* The Sids a commit carries decode, in the ledger it lands in, to the subjects its
\* request named, whatever codes other commits took before it (NamespaceRegistry).
THEOREM SidsKeepTheirMeaning == WriteSpec => []SidsMeanTheirIris
<1>1. WriteInv => SidsMeanTheirIris
  <2> SUFFICES ASSUME WriteInv, NEW id \in DOMAIN commits
               PROVE  commits[id].wrote \ {Schema} = commits[id].meant
    BY DEF SidsMeanTheirIris
  <2>1. GoodHistory(commits) /\ id \in 1 .. Len(commits)
    BY CurrentHistory DEF WriteInv, IsHistory
  <2> QED
    BY <2>1 DEF GoodHistory, GoodCommit
<1> QED
  BY <1>1, WriteInvHolds, PTL

-----------------------------------------------------------------------------
(* A request lands at most once.                                           *)

Unlanded(cs, x) == \A id \in 1 .. Len(cs) : cs[id].by # x
LandedOnce(cs, x) == \A i, j \in 1 .. Len(cs) : cs[i].by = x /\ cs[j].by = x => i = j

\* Where a writer may be before its commit has landed, and only then.
BeforeLanding == {"new", "begin", "staged", "locked", "publish", "notify", "catchup", "reload"}
AfterFailure == {"recover", "disconnect", "failed"}

\* A writer lands at most one commit; where it is, and what it answered, says which.
LandOK(cs, x, r) ==
    /\ LandedOnce(cs, x)
    /\ r.pc \in BeforeLanding => Unlanded(cs, x)
    /\ r.pc \in AfterFailure /\ r.err # "error" => Unlanded(cs, x)
    /\ r.pc = "install" => ~ Unlanded(cs, x)
    /\ r.pc # "done" => r.res = "none"
    /\ r.res = "ok" => ~ Unlanded(cs, x)
    /\ r.res \in {"conflict", "race", "noop", "refused"} => Unlanded(cs, x)

LandInv == \A x \in Writer : LandOK(commits, x, w[x])

\* Commit n, the last of ds, is by y; those before it are the commits of cs.
Longer(ds, cs, y) ==
    /\ Len(cs) \in Nat /\ Len(ds) = Len(cs) + 1
    /\ \A n \in 1 .. Len(cs) : ds[n] = cs[n]
    /\ ds[Len(cs) + 1].by = y

\* A commit by another writer changes nothing for x.
LEMMA OtherLands ==
    ASSUME NEW cs, NEW ds, NEW y, Longer(ds, cs, y), NEW x, x # y, NEW r, LandOK(cs, x, r)
    PROVE  LandOK(ds, x, r)
<1>1. PICK N \in Nat : N = Len(cs) /\ Len(ds) = N + 1
  BY DEF Longer
<1>2. \A n \in 1 .. N : ds[n] = cs[n]
  BY <1>1 DEF Longer
<1>3. ds[N + 1].by # x
  BY <1>1 DEF Longer
<1>4. \A n \in 1 .. N + 1 : n \in 1 .. N \/ n = N + 1
  OBVIOUS
<1>5. \A n \in 1 .. N : n \in 1 .. N + 1
  OBVIOUS
<1>6. \A n \in 1 .. N + 1 : ds[n].by = x => n \in 1 .. N /\ cs[n].by = x
  BY <1>2, <1>3, <1>4
<1>7. Unlanded(cs, x) <=> Unlanded(ds, x)
  BY <1>1, <1>2, <1>5, <1>6 DEF Unlanded
<1>8. LandedOnce(ds, x)
  BY <1>1, <1>6 DEF LandOK, LandedOnce
<1> QED
  BY <1>7, <1>8 DEF LandOK

\* The writer whose commit it is had none.
LEMMA OwnLands ==
    ASSUME NEW cs, NEW ds, NEW x, Longer(ds, cs, x), Unlanded(cs, x)
    PROVE  LandedOnce(ds, x) /\ ~ Unlanded(ds, x)
<1>1. PICK N \in Nat : N = Len(cs) /\ Len(ds) = N + 1
  BY DEF Longer
<1>2. \A n \in 1 .. N : ds[n].by # x
  BY <1>1 DEF Longer, Unlanded
<1>3. \A n \in 1 .. N + 1 : n \in 1 .. N \/ n = N + 1
  OBVIOUS
<1>4. \A n \in 1 .. N + 1 : ds[n].by = x => n = N + 1
  BY <1>2, <1>3
<1>5. N + 1 \in 1 .. N + 1 /\ ds[N + 1].by = x
  BY <1>1 DEF Longer
<1> QED
  BY <1>1, <1>4, <1>5 DEF LandedOnce, Unlanded

\* What holds of the other writers when x alone moves and lands nothing.
LEMMA LandInvMoves ==
    ASSUME LandInv, WritersInv, NEW x \in Writer, NEW r, Moves(x, r), commits' = commits,
           LandOK(commits, x, r)
    PROVE  LandInv'
<1>1. \A y \in Writer : w'[y] = IF y = x THEN r ELSE w[y]
  BY DEF Moves, WritersInv
<1>2. ASSUME NEW y \in Writer PROVE LandOK(commits', y, w'[y])
  <2>1. CASE y = x
    BY <1>1, <2>1
  <2>2. CASE y # x
    BY <1>1, <2>2 DEF LandInv
  <2> QED
    BY <2>1, <2>2
<1> QED
  BY <1>2 DEF LandInv

\* The same, for the writers that do not move.
LEMMA LandKeepsOthers ==
    ASSUME LandInv, NEW y, Longer(commits', commits, y), NEW x \in Writer, x # y, w'[x] = w[x]
    PROVE  LandOK(commits', x, w'[x])
<1>1. PICK cs, ds, r : cs = commits /\ ds = commits' /\ r = w[x]
  OBVIOUS
<1>2. Longer(ds, cs, y) /\ LandOK(cs, x, r)
  BY <1>1 DEF LandInv
<1>3. LandOK(ds, x, r)
  BY <1>2, OtherLands
<1> QED
  BY <1>1, <1>3

\* Landing adds one commit, by the writer that lands.
LEMMA LandIsLonger ==
    ASSUME HistoryInv, WritersInv, NEW x \in Writer, Land(x)
    PROVE  Longer(commits', commits, x)
  BY LandStep, CurrentHistory DEF Longer

\* A publish, and one that fails with the head moved or not.
LEMMA PublishLands ==
    ASSUME HistoryInv, WritersInv, LandInv, NEW x \in Writer, Publish(x) \/ PublishFails(x)
    PROVE  LandInv'
<1>1. LandOK(commits, x, w[x]) /\ w[x].pc = "publish"
  BY DEF LandInv, Publish, PublishFails
<1>2. Unlanded(commits, x) /\ w[x].res = "none"
  BY <1>1 DEF LandOK, BeforeLanding
<1>3. PICK r : /\ w' = [w EXCEPT ![x] = r] /\ r.res = "none"
               /\ \/ Publish(x) /\ r.pc = "install"
                  \/ PublishFails(x) /\ r.pc = "recover" /\ r.err = "error"
  <2>1. CASE Publish(x)
    BY <1>2, <2>1, PublishMoves
  <2>2. CASE PublishFails(x)
    BY <1>2, <2>2, PublishFailsMoves DEF Moves
  <2> QED
    BY <2>1, <2>2
<1>4. \A y \in Writer : w'[y] = IF y = x THEN r ELSE w[y]
  BY <1>3 DEF WritersInv
<1>5. CASE Land(x)
  <2>1. Longer(commits', commits, x)
    BY <1>5, LandIsLonger
  <2>2. LandedOnce(commits', x) /\ ~ Unlanded(commits', x)
    <3>1. PICK cs, ds : cs = commits /\ ds = commits'
      OBVIOUS
    <3>2. Longer(ds, cs, x) /\ Unlanded(cs, x)
      BY <1>2, <2>1, <3>1
    <3>3. LandedOnce(ds, x) /\ ~ Unlanded(ds, x)
      BY <3>2, OwnLands
    <3> QED
      BY <3>1, <3>3
  <2>3. LandOK(commits', x, r)
    BY <1>3, <2>2 DEF LandOK, BeforeLanding, AfterFailure
  <2>4. ASSUME NEW y \in Writer PROVE LandOK(commits', y, w'[y])
    <3>1. CASE y = x
      BY <1>4, <2>3, <3>1
    <3>2. CASE y # x
      BY <1>4, <2>1, <3>2, LandKeepsOthers
    <3> QED
      BY <3>1, <3>2
  <2> QED
    BY <2>4 DEF LandInv
<1>6. CASE ~ Land(x)
  <2>1. PublishFails(x) /\ commits' = commits
    BY <1>6 DEF Publish, PublishFails, durable
  <2>2. r.pc = "recover" /\ r.err = "error"
    BY <1>3, <1>6 DEF Publish
  <2>3. LandedOnce(commits, x)
    BY <1>1 DEF LandOK
  <2>4. LandOK(commits, x, r)
    BY <1>3, <2>2, <2>3 DEF LandOK, BeforeLanding, AfterFailure
  <2>5. ASSUME NEW y \in Writer PROVE LandOK(commits', y, w'[y])
    <3>1. CASE y = x
      BY <1>4, <2>1, <2>4, <3>1
    <3>2. CASE y # x
      BY <1>4, <2>1, <3>2 DEF LandInv
    <3> QED
      BY <3>1, <3>2
  <2> QED
    BY <2>5 DEF LandInv
<1> QED
  BY <1>5, <1>6

\* The commit of another process is by none of the writers.
LEMMA ForeignLands ==
    ASSUME HistoryInv, LandInv, NEW q \in Foreign, ForeignCommit(q)
    PROVE  LandInv'
<1>1. Longer(commits', commits, NoOne)
  BY ForeignStep, CurrentHistory DEF Longer
<1>2. w' = w
  BY DEF ForeignCommit
<1>3. ASSUME NEW y \in Writer PROVE LandOK(commits', y, w'[y])
  <2>1. y # NoOne
    BY NameAssumption
  <2> QED
    BY <1>1, <1>2, <2>1, LandKeepsOthers
<1> QED
  BY <1>3 DEF LandInv

\* From a writer that has landed nothing to one that still waits to.
LEMMA StaysUnlanded ==
    ASSUME LandInv, NEW x \in Writer, NEW r, r.res = w[x].res, w[x].pc # "done",
           w[x].pc \in BeforeLanding \/ (w[x].pc \in AfterFailure /\ w[x].err # "error"),
           r.pc \in BeforeLanding \cup AfterFailure
    PROVE  LandOK(commits, x, r)
<1>1. LandOK(commits, x, w[x])
  BY DEF LandInv
<1>2. Unlanded(commits, x) /\ LandedOnce(commits, x) /\ r.res = "none"
  BY <1>1 DEF LandOK
<1> QED
  BY <1>2 DEF LandOK, BeforeLanding, AfterFailure

\* A step of a writer.
LEMMA LandInvSteps ==
    ASSUME HistoryInv, CacheInv, WritersInv, LandInv, NEW x \in Writer, Step(x) \/ Failure(x)
    PROVE  LandInv'
<1>0. LandOK(commits, x, w[x])
  BY DEF LandInv
<1>1. CASE Publish(x) \/ PublishFails(x)
  BY <1>1, PublishLands
<1>2. CASE StageSnapshot(x) \/ LockStaged(x) \/ LockAndStage(x)
  <2>1. PICK r : Moves(x, r) /\ r.pc \in {"staged", "locked"} /\ r.res = w[x].res
    BY <1>2, StagingMoves
  <2>2. w[x].pc \in {"begin", "staged"} /\ commits' = commits
    BY <1>2 DEF StageSnapshot, LockStaged, LockAndStage, durable
  <2>3. LandOK(commits, x, r)
    BY <2>1, <2>2, StaysUnlanded DEF BeforeLanding
  <2> QED
    BY <2>1, <2>2, <2>3, LandInvMoves
<1>3. CASE Detach(x)
  <2>1. PICK r : Moves(x, r) /\ r.pc \in {"publish", "recover"} /\ r.res = w[x].res
    BY <1>3, DetachMoves
  <2>2. w[x].pc = "locked" /\ commits' = commits
    BY <1>3 DEF Detach, durable
  <2>3. LandOK(commits, x, r)
    BY <2>1, <2>2, StaysUnlanded DEF BeforeLanding, AfterFailure
  <2> QED
    BY <2>1, <2>2, <2>3, LandInvMoves
<1>4. CASE LoseRace(x)
  <2>1. PICK r : Moves(x, r) /\ r.pc = "recover" /\ r.res = w[x].res
    BY <1>4, FailingMoves
  <2>2. w[x].pc = "publish" /\ commits' = commits
    BY <1>4 DEF LoseRace, durable
  <2>3. LandOK(commits, x, r)
    BY <2>1, <2>2, StaysUnlanded DEF BeforeLanding, AfterFailure
  <2> QED
    BY <2>1, <2>2, <2>3, LandInvMoves
<1>5. CASE ~ LoseRace(x) /\ (Recover(x) \/ RecoverFails(x) \/ Disconnect(x))
  <2>1. PICK r : Moves(x, r) /\ r.pc \in {"disconnect", "failed"} /\ r.err = w[x].err /\ r.res = w[x].res
    BY <1>5, FailingMoves
  <2>2. w[x].pc \in {"recover", "disconnect"} /\ commits' = commits
    BY <1>5 DEF Recover, RecoverFails, Disconnect, durable
  <2>3. LandOK(commits, x, r)
    BY <1>0, <2>1, <2>2 DEF LandOK, BeforeLanding, AfterFailure
  <2> QED
    BY <2>1, <2>2, <2>3, LandInvMoves
<1>6. CASE Cancel(x)
  <2>1. PICK r : Moves(x, r) /\ r.pc = w[x].pc /\ r.err = w[x].err /\ r.res = w[x].res
    BY <1>6, CancelMoves
  <2>2. commits' = commits
    BY <1>6 DEF Cancel, durable
  <2>3. LandOK(commits, x, r)
    BY <1>0, <2>1 DEF LandOK
  <2> QED
    BY <2>1, <2>2, <2>3, LandInvMoves
<1>7. CASE RetryInner(x) \/ RetryOuter(x)
  <2>1. PICK r : Moves(x, r) /\ r.pc = "notify" /\ r.res = w[x].res
    BY <1>7, RetryMoves
  <2>2. w[x].pc = "failed" /\ w[x].err # "error" /\ commits' = commits
    BY <1>7 DEF RetryInner, RetryOuter, Retryable, durable
  <2>3. LandOK(commits, x, r)
    BY <2>1, <2>2, StaysUnlanded DEF BeforeLanding, AfterFailure
  <2> QED
    BY <2>1, <2>2, <2>3, LandInvMoves
<1>8. CASE Notify(x) \/ CatchUp(x) \/ CatchUpTooLate(x) \/ AwaitReload(x) \/ RefreshFails(x)
  <2>1. PICK r : Moves(x, r) /\ r.pc \in {"failed", "begin", "catchup", "reload"} /\ r.res = w[x].res
    BY <1>8, RefreshMoves
  <2>2. w[x].pc \in {"notify", "catchup", "reload"}
    BY <1>8 DEF Notify, CatchUp, CatchUpTooLate, AwaitReload, RefreshFails
  <2>3. commits' = commits
    BY <1>8 DEF Notify, CatchUp, CatchUpTooLate, AwaitReload, RefreshFails, StartReload, durable
  <2>4. LandOK(commits, x, r)
    BY <2>1, <2>2, StaysUnlanded DEF BeforeLanding, AfterFailure
  <2> QED
    BY <2>1, <2>3, <2>4, LandInvMoves
<1>9. CASE Noop(x) \/ Abandon(x) \/ Install(x) \/ Panic(x) \/ GiveUp(x)
  <2>1. PICK r : /\ Moves(x, r) /\ r.pc = "done"
                 /\ r.res \in {IF Noop(x) THEN "noop" ELSE IF Abandon(x) THEN "refused"
                               ELSE IF Install(x) THEN "ok" ELSE IF Panic(x) THEN "error"
                               ELSE w[x].err, "gone"}
    BY <1>9, AnsweringMoves
  <2>2. commits' = commits
    BY <1>9 DEF Noop, Abandon, Install, Panic, GiveUp, durable
  <2>3. LandedOnce(commits, x)
    BY <1>0 DEF LandOK
  <2>4. CASE Noop(x) \/ Abandon(x)
    <3>1. Unlanded(commits, x) /\ r.res # "ok"
      BY <1>0, <2>1, <2>4 DEF LandOK, BeforeLanding, Noop, Abandon
    <3>2. LandOK(commits, x, r)
      BY <2>1, <2>3, <3>1 DEF LandOK, BeforeLanding, AfterFailure
    <3> QED
      BY <2>1, <2>2, <3>2, LandInvMoves
  <2>5. CASE ~ Noop(x) /\ ~ Abandon(x) /\ Install(x)
    <3>1. ~ Unlanded(commits, x) /\ r.res \in {"ok", "gone"}
      BY <1>0, <2>1, <2>5 DEF LandOK, Install
    <3>2. LandOK(commits, x, r)
      BY <2>1, <2>3, <3>1 DEF LandOK, BeforeLanding, AfterFailure
    <3> QED
      BY <2>1, <2>2, <3>2, LandInvMoves
  <2>6. CASE ~ Noop(x) /\ ~ Abandon(x) /\ ~ Install(x) /\ Panic(x)
    <3>1. r.res \in {"error", "gone"}
      BY <2>1, <2>6
    <3>2. LandOK(commits, x, r)
      BY <2>1, <2>3, <3>1 DEF LandOK, BeforeLanding, AfterFailure
    <3> QED
      BY <2>1, <2>2, <3>2, LandInvMoves
  <2>7. CASE ~ Noop(x) /\ ~ Abandon(x) /\ ~ Install(x) /\ ~ Panic(x)
    <3>1. w[x].pc = "failed" /\ w[x].err \in Err /\ r.res \in {w[x].err, "gone"}
      BY <1>9, <2>1, <2>7 DEF GiveUp, WritersInv, WriterType
    <3>2. r.res # "ok" /\ (r.res \in {"conflict", "race", "noop", "refused"} => Unlanded(commits, x))
      BY <1>0, <3>1 DEF LandOK, AfterFailure, Err
    <3>3. LandOK(commits, x, r)
      BY <2>1, <2>3, <3>2 DEF LandOK, BeforeLanding, AfterFailure
    <3> QED
      BY <2>1, <2>2, <3>3, LandInvMoves
  <2> QED
    BY <1>9, <2>4, <2>5, <2>6, <2>7
<1> QED
  BY <1>1, <1>2, <1>3, <1>4, <1>5, <1>6, <1>7, <1>8, <1>9 DEF Step, Failure

\* Every step.
LEMMA LandInvKept ==
    ASSUME WriteInv, LandInv, [WriteNext]_vars
    PROVE  LandInv'
<1>0. HistoryInv /\ CacheInv /\ WritersInv
  BY DEF WriteInv
<1>1. CASE UNCHANGED vars \/ Background \/ SweepIdle \/ Finished
  <2>1. w' = w /\ commits' = commits
    BY <1>1 DEF vars, Background, Repair, FinishReload, SweepIdle, Finished, durable
  <2> QED
    BY <2>1 DEF LandInv
<1>2. ASSUME NEW x \in Writer, NEW q \in Request, Begin(x, q) PROVE LandInv'
  <2>1. PICK r : Moves(x, r) /\ r.pc = "begin" /\ r.res = w[x].res
    BY <1>0, <1>2, BeginMoves
  <2>2. w[x].pc = "new" /\ commits' = commits
    BY <1>2 DEF Begin, durable
  <2>3. LandOK(commits, x, r)
    BY <2>1, <2>2, StaysUnlanded DEF BeforeLanding
  <2> QED
    BY <1>0, <2>1, <2>2, <2>3, LandInvMoves
<1>3. ASSUME NEW x \in Writer, Step(x) \/ Failure(x) PROVE LandInv'
  BY <1>0, <1>3, LandInvSteps
<1>4. ASSUME NEW q \in Foreign, ForeignCommit(q) PROVE LandInv'
  BY <1>0, <1>4, ForeignLands
<1> QED
  BY <1>1, <1>2, <1>3, <1>4 DEF WriteNext

\* Initially nothing has landed ...
LEMMA LandInvInit ==
    ASSUME WriteInit
    PROVE  LandInv
<1>1. commits = <<>> /\ Len(<<>>) = 0 /\ \A n : n \notin 1 .. 0
  BY DEF WriteInit
<1>2. \A x \in Writer : w[x].pc = "new" /\ w[x].res = "none"
  BY NewWriterFields DEF WriteInit
<1>3. \A x : Unlanded(commits, x) /\ LandedOnce(commits, x)
  BY <1>1 DEF Unlanded, LandedOnce
<1> QED
  BY <1>2, <1>3 DEF LandInv, LandOK, AfterFailure

\* ... and ever after the answers and the commits agree.
LEMMA LandInvHolds == WriteSpec => []LandInv
<1>1. WriteInv /\ LandInv /\ [WriteNext]_vars => LandInv'
  BY LandInvKept
<1> QED
  BY <1>1, LandInvInit, WriteInvHolds, PTL DEF WriteSpec

\* A set whose elements are all the same has at most one.
LEMMA AtMostOneElement ==
    ASSUME NEW S, \A i, j \in S : i = j
    PROVE  Cardinality(S) <= 1
<1>1. CASE S = {}
  BY <1>1, FS_EmptySet
<1>2. CASE S # {}
  <2>1. PICK i \in S : TRUE
    BY <1>2
  <2>2. S = {i}
    BY <2>1
  <2>3. Cardinality({i}) = 1
    BY FS_Singleton
  <2> QED
    BY <2>2, <2>3
<1> QED
  BY <1>1, <1>2

\* A request lands at most once through all its retries, an acknowledged one has landed,
\* and one answered with a conflict, a lost race, no change or a refusal has not
\* (is_retryable_commit_conflict in the builder's loop, is_retryable_txn_conflict in the
\* committer's around it).
THEOREM LandingsMatchAnswers == WriteSpec => []LandsAsAnswered
<1>1. WriteInv /\ LandInv => LandsAsAnswered
  <2> SUFFICES ASSUME WriteInv, LandInv, NEW x \in Writer,
                      NEW landed, landed = {id \in DOMAIN commits : commits[id].by = x}
               PROVE  /\ Cardinality(landed) <= 1
                      /\ w[x].res = "ok" => landed # {}
                      /\ w[x].res \in {"conflict", "race", "noop", "refused"} => landed = {}
    BY DEF LandsAsAnswered
  <2>1. LandOK(commits, x, w[x])
    BY DEF LandInv
  <2>2. DOMAIN commits = 1 .. Len(commits)
    BY CurrentHistory DEF WriteInv, IsHistory
  <2>3. \A i, j \in landed : i = j
    BY <2>1, <2>2 DEF LandOK, LandedOnce
  <2>4. Cardinality(landed) <= 1
    BY <2>3, AtMostOneElement
  <2>5. Unlanded(commits, x) <=> landed = {}
    BY <2>2 DEF Unlanded
  <2> QED
    BY <2>1, <2>4, <2>5 DEF LandOK
<1> QED
  BY <1>1, WriteInvHolds, LandInvHolds, PTL

-----------------------------------------------------------------------------
(* Who holds a handle's lock.                                              *)

Holding == {"locked", "publish", "install", "recover"}
LockInv == \A x \in Writer, h \in Handle : lock[h] = x <=> w[x].h = h /\ w[x].pc \in Holding

\* Writer x moves; it took the lock of its handle, released it, or did neither.
LEMMA LockMoves ==
    ASSUME LockInv, WritersInv, NEW x \in Writer, NEW r, w' = [w EXCEPT ![x] = r],
           \A h \in Handle : lock'[h] = x <=> r.h = h /\ r.pc \in Holding,
           \A h \in Handle : \A y \in Writer : y # x => (lock'[h] = y <=> lock[h] = y)
    PROVE  LockInv'
<1>1. \A y \in Writer : w'[y] = IF y = x THEN r ELSE w[y]
  BY DEF WritersInv
<1>2. ASSUME NEW y \in Writer, NEW h \in Handle
      PROVE  lock'[h] = y <=> w'[y].h = h /\ w'[y].pc \in Holding
  <2>1. CASE y = x
    BY <1>1, <2>1
  <2>2. CASE y # x
    BY <1>1, <2>2 DEF LockInv
  <2> QED
    BY <2>1, <2>2
<1> QED
  BY <1>2 DEF LockInv

\* Writer x moves and leaves the locks alone.
LEMMA LockStays ==
    ASSUME LockInv, WritersInv, NEW x \in Writer, NEW r, w' = [w EXCEPT ![x] = r], lock' = lock,
           w[x].pc \in Holding <=> r.pc \in Holding, r.pc \in Holding => r.h = w[x].h
    PROVE  LockInv'
<1>1. \A h \in Handle : lock'[h] = x <=> r.h = h /\ r.pc \in Holding
  BY DEF LockInv
<1> QED
  BY <1>1, LockMoves

\* Writer x takes the free lock of its handle.
Takes(x) == lock[w[x].h] = NoOne /\ lock' = [lock EXCEPT ![w[x].h] = x]
Releases(x) == w[x].pc \in Holding /\ lock' = [lock EXCEPT ![w[x].h] = NoOne]

\* Writer x takes a lock that is free.
LEMMA LockTaken ==
    ASSUME LockInv, CacheInv, WritersInv, NEW x \in Writer, NEW r, w' = [w EXCEPT ![x] = r],
           Takes(x), w[x].h \in Handle, r.h = w[x].h, r.pc \in Holding
    PROVE  LockInv'
<1>1. PICK g \in Handle : g = w[x].h
  OBVIOUS
<1>2. \A h \in Handle : lock'[h] = IF h = g THEN x ELSE lock[h]
  BY <1>1 DEF Takes, CacheInv
<1>3. lock[g] = NoOne /\ NoOne \notin Writer
  BY <1>1, NameAssumption DEF Takes
<1>4. \A h \in Handle : h # g => lock[h] # x
  BY <1>1 DEF LockInv
<1>5. \A h \in Handle : lock'[h] = x <=> r.h = h /\ r.pc \in Holding
  BY <1>1, <1>2, <1>4
<1>6. \A h \in Handle : \A y \in Writer : y # x => (lock'[h] = y <=> lock[h] = y)
  BY <1>2, <1>3
<1> QED
  BY <1>5, <1>6, LockMoves

\* Writer x releases the lock it has.
LEMMA LockReleased ==
    ASSUME LockInv, CacheInv, WritersInv, NEW x \in Writer, NEW r, w' = [w EXCEPT ![x] = r],
           Releases(x), w[x].h \in Handle, r.pc \notin Holding
    PROVE  LockInv'
<1>1. PICK g \in Handle : g = w[x].h
  OBVIOUS
<1>2. \A h \in Handle : lock'[h] = IF h = g THEN NoOne ELSE lock[h]
  BY <1>1 DEF Releases, CacheInv
<1>3. lock[g] = x /\ NoOne \notin Writer
  BY <1>1, NameAssumption DEF Releases, LockInv
<1>4. \A h \in Handle : h # g => lock[h] # x
  BY <1>1 DEF LockInv
<1>5. \A h \in Handle : lock'[h] = x <=> r.h = h /\ r.pc \in Holding
  BY <1>2, <1>3, <1>4
<1>6. \A h \in Handle : \A y \in Writer : y # x => (lock'[h] = y <=> lock[h] = y)
  BY <1>2, <1>3
<1> QED
  BY <1>5, <1>6, LockMoves

\* A step of a writer.
LEMMA LockInvSteps ==
    ASSUME HistoryInv, CacheInv, WritersInv, LockInv, NEW x \in Writer, Step(x) \/ Failure(x)
    PROVE  LockInv'
<1>1. w[x].pc \notin {"new", "done"} => w[x].h \in Handle
  BY DEF WritersInv, WriterInv
<1>2. CASE StageSnapshot(x)
  <2>1. PICK r : w' = [w EXCEPT ![x] = r] /\ r.pc = "staged"
    BY <1>2, StagingMoves DEF Moves
  <2>2. w[x].pc = "begin" /\ lock' = lock
    BY <1>2 DEF StageSnapshot, cache
  <2> QED
    BY <2>1, <2>2, LockStays DEF Holding
<1>3. CASE LockStaged(x) \/ LockAndStage(x)
  <2>1. w[x].pc \in {"begin", "staged"} /\ Takes(x) /\ w'[x].pc = "locked"
    BY <1>3 DEF LockStaged, LockAndStage, Takes, WritersInv, WriterType
  <2>2. PICK r : w' = [w EXCEPT ![x] = r] /\ r.h = w[x].h
    BY <1>3, StagingMoves DEF Moves
  <2>3. r = w'[x]
    BY <2>2 DEF WritersInv
  <2>4. w[x].h \in Handle /\ r.pc \in Holding
    BY <1>1, <2>1, <2>3 DEF Holding
  <2> QED
    BY <2>1, <2>2, <2>4, LockTaken
<1>4. CASE Detach(x)
  <2>1. PICK r : w' = [w EXCEPT ![x] = r] /\ r.pc \in {"publish", "recover"} /\ r.h = w[x].h
    BY <1>4, DetachMoves DEF Moves
  <2>2. w[x].pc = "locked" /\ lock' = lock
    BY <1>4 DEF Detach
  <2> QED
    BY <2>1, <2>2, LockStays DEF Holding
<1>5. CASE Publish(x) \/ PublishFails(x) \/ LoseRace(x)
  <2>1. PICK r : w' = [w EXCEPT ![x] = r] /\ r.pc \in {"install", "recover"} /\ r.h = w[x].h
    <3>1. CASE Publish(x)
      BY <3>1, PublishMoves
    <3>2. CASE PublishFails(x)
      BY <3>2, PublishFailsMoves DEF Moves
    <3>3. CASE LoseRace(x)
      BY <3>3, FailingMoves DEF Moves
    <3> QED
      BY <1>5, <3>1, <3>2, <3>3
  <2>2. w[x].pc = "publish" /\ lock' = lock
    BY <1>5 DEF Publish, PublishFails, LoseRace, cache
  <2> QED
    BY <2>1, <2>2, LockStays DEF Holding
<1>6. CASE Recover(x) \/ RecoverFails(x)
  <2>1. w[x].pc = "recover" /\ lock' = [lock EXCEPT ![w[x].h] = NoOne]
    BY <1>6 DEF Recover, RecoverFails
  <2>2. ~ LoseRace(x) /\ Releases(x) /\ w[x].h \in Handle
    BY <1>1, <2>1 DEF LoseRace, Releases, Holding
  <2>3. PICK r : w' = [w EXCEPT ![x] = r] /\ r.pc \in {"disconnect", "failed"}
    BY <1>6, <2>2, FailingMoves DEF Moves
  <2>4. r.pc \notin Holding
    BY <2>3 DEF Holding
  <2> QED
    BY <2>2, <2>3, <2>4, LockReleased
<1>7. CASE Disconnect(x)
  <2>1. w[x].pc = "disconnect" /\ lock' = lock
    BY <1>7 DEF Disconnect
  <2>2. ~ LoseRace(x)
    BY <2>1 DEF LoseRace
  <2>3. PICK r : w' = [w EXCEPT ![x] = r] /\ r.pc \in {"disconnect", "failed"}
    BY <1>7, <2>2, FailingMoves DEF Moves
  <2> QED
    BY <2>1, <2>3, LockStays DEF Holding
<1>8. CASE Cancel(x)
  <2>1. PICK r : w' = [w EXCEPT ![x] = r] /\ r.pc = w[x].pc /\ r.h = w[x].h
    BY <1>8, CancelMoves DEF Moves
  <2>2. lock' = lock
    BY <1>8 DEF Cancel, cache
  <2> QED
    BY <2>1, <2>2, LockStays
<1>9. CASE RetryInner(x) \/ RetryOuter(x)
  <2>1. PICK r : w' = [w EXCEPT ![x] = r] /\ r.pc = "notify"
    BY <1>9, RetryMoves DEF Moves
  <2>2. w[x].pc = "failed" /\ lock' = lock
    BY <1>9 DEF RetryInner, RetryOuter, cache
  <2> QED
    BY <2>1, <2>2, LockStays DEF Holding
<1>10. CASE Notify(x) \/ CatchUp(x) \/ CatchUpTooLate(x) \/ AwaitReload(x) \/ RefreshFails(x)
  <2>1. PICK r : w' = [w EXCEPT ![x] = r] /\ r.pc \in {"failed", "begin", "catchup", "reload"}
    BY <1>10, RefreshMoves DEF Moves
  <2>2. w[x].pc \in {"notify", "catchup", "reload"}
    BY <1>10 DEF Notify, CatchUp, CatchUpTooLate, AwaitReload, RefreshFails
  <2>3. lock' = lock
    BY <1>10 DEF Notify, CatchUp, CatchUpTooLate, AwaitReload, RefreshFails, StartReload, cache
  <2> QED
    BY <2>1, <2>2, <2>3, LockStays DEF Holding
<1>11. CASE Noop(x) \/ Install(x) \/ Panic(x)
  <2>1. PICK r : w' = [w EXCEPT ![x] = r] /\ r.pc = "done"
    BY <1>11, AnsweringMoves DEF Moves
  <2>2. w[x].pc \in Holding /\ lock' = [lock EXCEPT ![w[x].h] = NoOne]
    BY <1>11 DEF Noop, Install, Panic, Holding
  <2>3. Releases(x) /\ w[x].h \in Handle /\ r.pc \notin Holding
    BY <1>1, <2>1, <2>2 DEF Releases, Holding
  <2> QED
    BY <2>1, <2>3, LockReleased
<1>12. CASE Abandon(x)
  <2>1. PICK r : w' = [w EXCEPT ![x] = r] /\ r.pc = "done"
    BY <1>12, AnsweringMoves DEF Moves
  <2>2. \A h \in Handle : lock'[h] = IF lock[h] = x THEN NoOne ELSE lock[h]
    BY <1>12 DEF Abandon
  <2>3. NoOne \notin Writer /\ r.pc \notin Holding
    BY <2>1, NameAssumption DEF Holding
  <2>4. \A h \in Handle : lock'[h] = x <=> r.h = h /\ r.pc \in Holding
    BY <2>2, <2>3
  <2>5. \A h \in Handle : \A y \in Writer : y # x => (lock'[h] = y <=> lock[h] = y)
    BY <2>2, <2>3
  <2> QED
    BY <2>1, <2>4, <2>5, LockMoves
<1>13. CASE GiveUp(x)
  <2>1. PICK r : w' = [w EXCEPT ![x] = r] /\ r.pc = "done"
    BY <1>13, AnsweringMoves DEF Moves
  <2>2. w[x].pc = "failed" /\ lock' = lock
    BY <1>13 DEF GiveUp, cache
  <2> QED
    BY <2>1, <2>2, LockStays DEF Holding
<1> QED
  BY <1>2, <1>3, <1>4, <1>5, <1>6, <1>7, <1>8, <1>9, <1>10, <1>11, <1>12, <1>13 DEF Step, Failure

\* Every step.
LEMMA LockInvKept ==
    ASSUME WriteInv, LockInv, [WriteNext]_vars
    PROVE  LockInv'
<1>0. HistoryInv /\ CacheInv /\ WritersInv
  BY DEF WriteInv
<1>1. CASE UNCHANGED vars \/ Background \/ SweepIdle \/ Finished \/ \E q \in Foreign : ForeignCommit(q)
  <2>1. w' = w /\ lock' = lock
    BY <1>1 DEF vars, Background, Repair, FinishReload, SweepIdle, Finished, ForeignCommit, cache
  <2> QED
    BY <2>1 DEF LockInv
<1>2. ASSUME NEW x \in Writer, NEW q \in Request, Begin(x, q) PROVE LockInv'
  <2>1. PICK r : w' = [w EXCEPT ![x] = r] /\ r.pc = "begin"
    BY <1>0, <1>2, BeginMoves DEF Moves
  <2>2. w[x].pc = "new" /\ lock' = lock
    BY <1>2 DEF Begin, GetOrLoad, cache
  <2> QED
    BY <1>0, <2>1, <2>2, LockStays DEF Holding
<1>3. ASSUME NEW x \in Writer, Step(x) \/ Failure(x) PROVE LockInv'
  BY <1>0, <1>3, LockInvSteps
<1> QED
  BY <1>1, <1>2, <1>3 DEF WriteNext

\* Initially every lock is free ...
LEMMA LockInvInit ==
    ASSUME WriteInit
    PROVE  LockInv
<1>1. \A x \in Writer : w[x].pc = "new"
  BY NewWriterFields DEF WriteInit
<1>2. \A h \in Handle : lock[h] = NoOne
  BY DEF WriteInit
<1> QED
  BY <1>1, <1>2, NameAssumption DEF LockInv, Holding

\* ... and ever after a lock is with the writer that took it.
LEMMA LockInvHolds == WriteSpec => []LockInv
<1>1. WriteInv /\ LockInv /\ [WriteNext]_vars => LockInv'
  BY LockInvKept
<1> QED
  BY <1>1, LockInvInit, WriteInvHolds, PTL DEF WriteSpec

-----------------------------------------------------------------------------
(* The ring never outgrows its bound.                                      *)

RingInv == \A h \in Handle : Len(ring[h]) <= RECENT_COMMITS

\* A full ring drops its oldest entry for the new one.
LEMMA PushLength ==
    ASSUME NEW r \in Seq(FootprintType), NEW f \in FootprintType, Len(r) <= RECENT_COMMITS
    PROVE  Len(PushFootprint(r, f)) <= RECENT_COMMITS
<1>1. RECENT_COMMITS \in Nat \ {0}
  BY BoundAssumption
<1>2. PICK kept \in Seq(FootprintType) : /\ kept = IF Extends(r, f) THEN r ELSE <<>>
                                         /\ Len(kept) <= RECENT_COMMITS
  <2>1. <<>> \in Seq(FootprintType) /\ Len(<<>>) <= RECENT_COMMITS
    BY <1>1
  <2>2. CASE Extends(r, f)
    BY <2>2
  <2>3. CASE ~ Extends(r, f)
    BY <2>1, <2>3
  <2> QED
    BY <2>2, <2>3
<1>3. CASE Len(kept) = RECENT_COMMITS
  <2>1. PushFootprint(r, f) = Append(Tail(kept), f)
    BY <1>2, <1>3 DEF PushFootprint
  <2>2. kept # <<>>
    BY <1>1, <1>3
  <2>3. PICK t \in Seq(FootprintType) : t = Tail(kept) /\ Len(t) = Len(kept) - 1
    <3>1. Tail(kept) \in Seq(FootprintType) /\ Len(Tail(kept)) = Len(kept) - 1
      BY <2>2
    <3> QED
      BY <3>1
  <2>4. Len(Append(t, f)) = Len(t) + 1 /\ Len(t) \in Nat
    OBVIOUS
  <2> QED
    BY <1>1, <1>3, <2>1, <2>3, <2>4
<1>4. CASE Len(kept) # RECENT_COMMITS
  <2>1. PushFootprint(r, f) = Append(kept, f)
    BY <1>2, <1>4 DEF PushFootprint
  <2>2. Len(Append(kept, f)) = Len(kept) + 1 /\ Len(kept) \in Nat
    OBVIOUS
  <2> QED
    BY <1>1, <1>2, <1>4, <2>1, <2>2
<1> QED
  BY <1>3, <1>4

\* The footprint of a good stage is a footprint.
LEMMA FootprintTyped ==
    ASSUME NEW cs, NEW st, GoodStage(cs, st), NEW id \in Nat
    PROVE  Footprint(st, id) \in FootprintType
<1>1. st.base.t \in Nat /\ st.base.head \in Nat /\ st.schema \in BOOLEAN /\ st.wrote \in SUBSET Sid
  BY DEF GoodStage, StageType, LedgerState
<1>2. st.base.t + 1 \in Nat
  BY <1>1
<1> QED
  BY <1>1, <1>2 DEF Footprint, FootprintType

\* Every step keeps the rings within their bound ...
LEMMA RingInvKept ==
    ASSUME WriteInv, RingInv, [WriteNext]_vars
    PROVE  RingInv'
<1>0. ring \in [Handle -> Seq(FootprintType)] /\ WritersInv
  BY DEF WriteInv, CacheInv
<1>1. ASSUME NEW x \in Writer, Install(x) PROVE RingInv'
  <2>1. PICK o \in WriterType : o = w[x] /\ WriterInv(commits, o) /\ o.pc = "install"
    BY <1>0, <1>1 DEF WritersInv, Install
  <2>2. PICK f : f = Footprint(o.stage, o.id)
    OBVIOUS
  <2>3. f \in FootprintType
    <3>1. GoodStage(commits, o.stage) /\ o.id \in Nat
      BY <2>1 DEF WriterInv, WriterType
    <3> QED
      BY <2>2, <3>1, FootprintTyped
  <2>4. o.h \in Handle
    BY <2>1 DEF WriterInv
  <2>5. ring[o.h] \in Seq(FootprintType) /\ Len(ring[o.h]) <= RECENT_COMMITS
    BY <1>0, <2>4 DEF RingInv
  <2>6. PICK p : p = PushFootprint(ring[o.h], f) /\ Len(p) <= RECENT_COMMITS
    BY <2>3, <2>5, PushLength
  <2>7. ring' = [ring EXCEPT ![o.h] = p]
    BY <1>1, <2>1, <2>2, <2>6 DEF Install
  <2> QED
    BY <1>0, <2>6, <2>7 DEF RingInv
<1>2. ASSUME NEW h \in Handle, GetOrLoad(h) PROVE RingInv'
  <2>1. ring' = ring \/ ring' = [ring EXCEPT ![h] = <<>>]
    BY <1>2 DEF GetOrLoad, cache
  <2>2. Len(<<>>) <= RECENT_COMMITS
    BY BoundAssumption
  <2> QED
    BY <1>0, <2>1, <2>2 DEF RingInv
<1>3. ASSUME NEW x \in Writer, Step(x) \/ Failure(x), ~ Install(x) PROVE RingInv'
  <2>1. ring' = ring
    BY <1>3 DEF Step, Failure, StageSnapshot, LockStaged, LockAndStage, Noop, Detach, Publish, LoseRace,
       Recover, Disconnect, RetryInner, RetryOuter, GiveUp, Notify, CatchUp, CatchUpTooLate, AwaitReload,
       Abandon, PublishFails, RecoverFails, Panic, Cancel, RefreshFails, StartReload, cache
  <2> QED
    BY <2>1 DEF RingInv
<1>4. CASE UNCHANGED vars \/ Background \/ SweepIdle \/ Finished \/ \E q \in Foreign : ForeignCommit(q)
  <2>1. ring' = ring
    BY <1>4 DEF vars, Background, Repair, FinishReload, SweepIdle, Finished, ForeignCommit, cache
  <2> QED
    BY <2>1 DEF RingInv
<1> QED
  BY <1>1, <1>2, <1>3, <1>4 DEF WriteNext, Begin

\* ... so they always are.
LEMMA RingInvHolds == WriteSpec => []RingInv
<1>1. WriteInit => RingInv
  <2>1. Len(<<>>) <= RECENT_COMMITS
    BY BoundAssumption
  <2> QED
    BY <2>1 DEF WriteInit, RingInv
<1>2. WriteInv /\ RingInv /\ [WriteNext]_vars => RingInv'
  BY RingInvKept
<1> QED
  BY <1>1, <1>2, WriteInvHolds, PTL DEF WriteSpec

\* The write path keeps its shape: the head and the states name commits there are, a ring
\* stays within RECENT_COMMITS, and a lock is held exactly by the writer between taking
\* and releasing it (lock_for_write, LedgerWriteGuard).
THEOREM WriteTypes == WriteSpec => []WriteTypeOK
<1>1. WriteInv /\ LockInv /\ RingInv => WriteTypeOK
  <2> SUFFICES ASSUME WriteInv, LockInv, RingInv PROVE WriteTypeOK
    OBVIOUS
  <2>1. head \in 0 .. Len(commits) /\ CacheInv
    BY CurrentHistory DEF WriteInv
  <2>2. \A h \in Handle : state[h].t \in 0 .. Len(commits)
    BY <2>1 DEF CacheInv, Faithful
  <2>3. \A h \in Handle : lock[h] \in {NoOne} \cup Writer
    BY <2>1 DEF CacheInv
  <2>4. cur \in {NoHandle} \cup Handle
    BY <2>1 DEF CacheInv
  <2> QED
    BY <2>1, <2>2, <2>3, <2>4 DEF WriteTypeOK, RingInv, LockInv, Holding
<1> QED
  BY <1>1, WriteInvHolds, LockInvHolds, RingInvHolds, PTL

-----------------------------------------------------------------------------
(* A slot that a commit emptied does not stay empty.                       *)

FreshPlaceholders == \A h \in Handle : state[h].placeholder => state[h].t = 0

\* The manager's slot is empty and nobody who holds its lock is past the detach.
Exposed ==
    /\ cur # NoHandle /\ state[cur].placeholder
    /\ \A x \in Writer : lock[cur] = x => w[x].pc = "locked"
Due ==
    \/ repairs > 0 \/ \E l \in reloads : l.h = cur
    \/ \E x \in Writer : w[x].pc = "disconnect"
SlotInv == FreshPlaceholders /\ (Exposed => Due)

\* Filling a slot with a loaded state, or emptying it.
LEMMA FreshStays ==
    ASSUME CacheInv, FreshPlaceholders, NEW h, NEW s, s.placeholder = FALSE \/ s.t = 0,
           state' = [state EXCEPT ![h] = s]
    PROVE  FreshPlaceholders'
<1>1. state \in [Handle -> LedgerState]
  BY DEF CacheInv
<1>2. \A g \in Handle : state'[g] = s \/ state'[g] = state[g]
  BY <1>1
<1> QED
  BY <1>2 DEF FreshPlaceholders

\* Every step: an empty slot has t 0, so no reload takes it for a later state.
LEMMA FreshKept ==
    ASSUME WriteInv, FreshPlaceholders, [WriteNext]_vars
    PROVE  FreshPlaceholders'
<1>0. HistoryInv /\ CacheInv /\ WritersInv /\ head \in 0 .. Len(commits)
  BY CurrentHistory DEF WriteInv
<1>1. CASE state' = state
  BY <1>1 DEF FreshPlaceholders
<1>2. LoadedState(head).placeholder = FALSE /\ Placeholder.t = 0
  BY <1>0, LoadIsFaithful DEF Placeholder, Genesis
<1>3. ASSUME NEW h \in Handle, GetOrLoad(h) PROVE FreshPlaceholders'
  <2>1. state' = state \/ state' = [state EXCEPT ![h] = LoadedState(head)]
    BY <1>3 DEF GetOrLoad, cache
  <2> QED
    BY <1>0, <1>1, <1>2, <2>1, FreshStays
<1>4. ASSUME NEW x \in Writer, Step(x) \/ Failure(x) PROVE FreshPlaceholders'
  <2>1. CASE Install(x)
    <3>1. PICK s : s = ApplySingleCommit(w[x].stage.base, w[x].id, commits[w[x].id])
      OBVIOUS
    <3>2. s.placeholder = FALSE
      BY <3>1 DEF ApplySingleCommit
    <3>3. state' = [state EXCEPT ![w[x].h] = s]
      BY <2>1, <3>1 DEF Install
    <3> QED
      BY <1>0, <3>2, <3>3, FreshStays
  <2>2. CASE CatchUp(x)
    BY <1>0, <2>2, CatchUpFaithful, FreshStays
  <2>3. CASE Detach(x)
    BY <1>0, <1>2, <2>3, FreshStays DEF Detach
  <2>4. CASE Recover(x)
    BY <1>0, <1>2, <2>4, FreshStays DEF Recover
  <2>5. CASE ~ Install(x) /\ ~ CatchUp(x) /\ ~ Detach(x) /\ ~ Recover(x)
    <3>1. state' = state
      BY <1>4, <2>5 DEF Step, Failure, StageSnapshot, LockStaged, LockAndStage, Noop, Publish, LoseRace,
         Disconnect, RetryInner, RetryOuter, GiveUp, Notify, CatchUpTooLate, AwaitReload, Abandon,
         PublishFails, RecoverFails, Panic, Cancel, RefreshFails, StartReload, cache
    <3> QED
      BY <1>1, <3>1
  <2> QED
    BY <2>1, <2>2, <2>3, <2>4, <2>5
<1>5. ASSUME NEW l \in reloads, FinishReload(l) PROVE FreshPlaceholders'
  <2>1. l.h \in Handle /\ l.id \in 0 .. Len(commits)
    BY <1>0 DEF CacheInv
  <2>2. LoadedState(l.id).placeholder = FALSE
    BY <1>0, <2>1, LoadIsFaithful
  <2>3. state' = [state EXCEPT ![l.h] = LoadedState(l.id)] \/ state' = [state EXCEPT ![l.h] = state[l.h]]
    BY <1>5 DEF FinishReload
  <2>4. CASE state' = [state EXCEPT ![l.h] = LoadedState(l.id)]
    BY <1>0, <2>2, <2>4, FreshStays
  <2>5. CASE state' = [state EXCEPT ![l.h] = state[l.h]]
    BY <1>0, <1>1, <2>5 DEF CacheInv
  <2> QED
    BY <2>3, <2>4, <2>5
<1>6. CASE UNCHANGED vars \/ Repair \/ SweepIdle \/ Finished \/ \E q \in Foreign : ForeignCommit(q)
  <2>1. state' = state
    BY <1>6 DEF vars, Repair, SweepIdle, Finished, ForeignCommit, cache
  <2> QED
    BY <1>1, <2>1
<1> QED
  BY <1>3, <1>4, <1>5, <1>6 DEF WriteNext, Begin, Background

\* Whoever is between detach and refill keeps the slot from being exposed, and no step of
\* another takes away what is due.
LEMMA ExposureKept ==
    ASSUME SlotInv, WritersInv, NEW x \in Writer, NEW r, w' = [w EXCEPT ![x] = r],
           cur' = cur, state'[cur] = state[cur],
           \A y \in Writer : y # x /\ lock[cur] = y => lock'[cur] = y,
           lock[cur] = x => (w[x].pc = "locked" \/ (lock'[cur] = x /\ r.pc # "locked")),
           w[x].pc = "disconnect" => r.pc = "disconnect",
           repairs' \in Nat, repairs \in Nat, repairs <= repairs', reloads \subseteq reloads'
    PROVE  Exposed' => Due'
<1> SUFFICES ASSUME Exposed' PROVE Due'
  OBVIOUS
<1>1. \A y \in Writer : w'[y] = IF y = x THEN r ELSE w[y]
  BY DEF WritersInv
<1>2. cur # NoHandle /\ state[cur].placeholder
  BY DEF Exposed
<1>3. \A y \in Writer : lock'[cur] = y => w'[y].pc = "locked"
  BY DEF Exposed
<1>4. \A y \in Writer : lock[cur] = y => w[y].pc = "locked"
  BY <1>1, <1>3
<1>5. Due
  BY <1>2, <1>4 DEF SlotInv, Exposed
<1>6. CASE repairs > 0
  <2>1. repairs' > 0
    BY <1>6
  <2> QED
    BY <2>1 DEF Due
<1>7. CASE \E l \in reloads : l.h = cur
  BY <1>7 DEF Due
<1>8. CASE \E y \in Writer : w[y].pc = "disconnect"
  BY <1>1, <1>8 DEF Due
<1> QED
  BY <1>5, <1>6, <1>7, <1>8 DEF Due

\* A step of a writer that leaves the cache alone and does not hold the lock past detach.
LEMMA IdleExposure ==
    ASSUME SlotInv, CacheInv, LockInv, WritersInv, NEW x \in Writer, NEW r, w' = [w EXCEPT ![x] = r],
           UNCHANGED cache, w[x].pc \notin {"disconnect", "install", "recover"},
           w[x].pc = "publish" => r.pc # "locked",
           repairs' = repairs, reloads \subseteq reloads'
    PROVE  Exposed' => Due'
<1>1. CASE cur = NoHandle
  BY <1>1 DEF Exposed, cache
<1>2. CASE cur # NoHandle
  <2>1. cur \in Handle /\ repairs \in Nat
    BY <1>2 DEF CacheInv
  <2>2. lock[cur] = x => w[x].pc \in {"locked", "publish"}
    BY <2>1 DEF LockInv, Holding
  <2>3. repairs' \in Nat /\ repairs <= repairs'
    BY <2>1
  <2>4. /\ cur' = cur /\ state'[cur] = state[cur] /\ lock'[cur] = lock[cur]
    BY DEF cache
  <2>5. lock[cur] = x => (w[x].pc = "locked" \/ (lock'[cur] = x /\ r.pc # "locked"))
    BY <2>2, <2>4
  <2>6. \A y \in Writer : y # x /\ lock[cur] = y => lock'[cur] = y
    BY <2>4
  <2> QED
    BY <2>1, <2>3, <2>4, <2>5, <2>6, ExposureKept
<1> QED
  BY <1>1, <1>2

\* The writer that holds the lock of the manager's handle fills its slot as it unlocks.
LEMMA FillExposure ==
    ASSUME SlotInv, CacheInv, LockInv, WritersInv, NEW x \in Writer, NEW r, w' = [w EXCEPT ![x] = r],
           Releases(x), w[x].h \in Handle, cur' = cur, UNCHANGED background,
           NEW s, state' = [state EXCEPT ![w[x].h] = s],
           s.placeholder = FALSE \/ (s = state[w[x].h] /\ w[x].pc = "locked")
    PROVE  Exposed' => Due'
<1>0. cur = NoHandle \/ cur \in Handle
  BY DEF CacheInv
<1>1. CASE cur = NoHandle
  BY <1>1 DEF Exposed
<1>2. CASE cur = w[x].h /\ s.placeholder = FALSE
  <2>1. state'[cur'] = s
    BY <1>2 DEF CacheInv
  <2> QED
    BY <1>2, <2>1 DEF Exposed
<1>3. CASE cur \in Handle /\ ~ (cur = w[x].h /\ s.placeholder = FALSE)
  <2>1. state'[cur] = state[cur]
    BY <1>3 DEF CacheInv
  <2>2. lock'[cur] = IF cur = w[x].h THEN NoOne ELSE lock[cur]
    BY <1>3 DEF Releases, CacheInv
  <2>3. lock[w[x].h] = x
    BY DEF Releases, LockInv
  <2>4. lock[cur] = x => cur = w[x].h /\ w[x].pc = "locked"
    BY <1>3 DEF LockInv
  <2>5. \A y \in Writer : y # x /\ lock[cur] = y => lock'[cur] = y
    BY <2>2, <2>3
  <2>6. w[x].pc # "disconnect"
    BY DEF Releases, Holding
  <2>7. repairs' = repairs /\ repairs \in Nat /\ reloads' = reloads
    BY DEF background, CacheInv
  <2>8. repairs' \in Nat /\ repairs <= repairs' /\ reloads \subseteq reloads'
    BY <2>7
  <2> QED
    BY <2>1, <2>4, <2>5, <2>6, <2>7, <2>8, ExposureKept
<1> QED
  BY <1>0, <1>1, <1>2, <1>3

\* A step of a writer.
LEMMA ExposureSteps ==
    ASSUME HistoryInv, CacheInv, WritersInv, LockInv, SlotInv, NEW x \in Writer, Step(x) \/ Failure(x)
    PROVE  Exposed' => Due'
<1>0. /\ w[x].pc \notin {"new", "done"} => w[x].h \in Handle
      /\ cur = NoHandle \/ cur \in Handle
      /\ repairs \in Nat /\ NoOne \notin Writer
  BY NameAssumption DEF WritersInv, WriterInv, CacheInv
<1>1. CASE StageSnapshot(x)
  <2>1. PICK r : w' = [w EXCEPT ![x] = r]
    BY <1>1, StagingMoves DEF Moves
  <2>2. w[x].pc = "begin" /\ UNCHANGED <<cache, background>>
    BY <1>1 DEF StageSnapshot
  <2> QED
    BY <2>1, <2>2, IdleExposure DEF background
<1>2. CASE LockStaged(x) \/ LockAndStage(x)
  <2>1. PICK r : w' = [w EXCEPT ![x] = r]
    BY <1>2, StagingMoves DEF Moves
  <2>2. /\ w[x].pc \in {"begin", "staged"} /\ Takes(x)
        /\ cur' = cur /\ state' = state /\ UNCHANGED background
    BY <1>2 DEF LockStaged, LockAndStage, Takes
  <2>3. CASE cur = NoHandle
    BY <2>2, <2>3 DEF Exposed
  <2>4. CASE cur \in Handle
    <3>1. lock'[cur] = IF cur = w[x].h THEN x ELSE lock[cur]
      BY <2>2, <2>4 DEF Takes, CacheInv
    <3>2. lock[w[x].h] = NoOne /\ lock[cur] # x
      BY <2>2, <2>4 DEF Takes, LockInv, Holding
    <3>3. \A y \in Writer : y # x /\ lock[cur] = y => lock'[cur] = y
      BY <1>0, <3>1, <3>2
    <3>4. repairs' = repairs /\ reloads \subseteq reloads'
      BY <2>2 DEF background
    <3>5. repairs' \in Nat /\ repairs <= repairs'
      BY <1>0, <3>4
    <3> QED
      BY <1>0, <2>1, <2>2, <3>2, <3>3, <3>4, <3>5, ExposureKept
  <2> QED
    BY <1>0, <2>3, <2>4
<1>3. CASE Noop(x)
  <2>1. PICK r : w' = [w EXCEPT ![x] = r]
    BY <1>3, AnsweringMoves DEF Moves
  <2>2. w[x].pc = "locked" /\ Releases(x) /\ cur' = cur /\ state' = state /\ UNCHANGED background
    BY <1>3 DEF Noop, Releases, Holding
  <2>3. w[x].h \in Handle
    BY <1>0, <2>2
  <2>4. PICK s : s = state[w[x].h] /\ state' = [state EXCEPT ![w[x].h] = s]
    BY <2>2 DEF CacheInv
  <2> QED
    BY <2>1, <2>2, <2>3, <2>4, FillExposure
<1>4. CASE Abandon(x)
  <2>1. PICK r : w' = [w EXCEPT ![x] = r]
    BY <1>4, AnsweringMoves DEF Moves
  <2>2. /\ w[x].pc \in {"begin", "staged", "locked"}
        /\ lock' = [h \in Handle |-> IF lock[h] = x THEN NoOne ELSE lock[h]]
        /\ cur' = cur /\ state' = state /\ UNCHANGED background
    BY <1>4 DEF Abandon
  <2>3. CASE cur = NoHandle
    BY <2>2, <2>3 DEF Exposed
  <2>4. CASE cur \in Handle
    <3>1. lock[cur] = x => w[x].pc = "locked"
      BY <2>2, <2>4 DEF LockInv, Holding
    <3>2. \A y \in Writer : y # x /\ lock[cur] = y => lock'[cur] = y
      BY <2>2, <2>4
    <3>3. repairs' = repairs /\ reloads \subseteq reloads'
      BY <2>2 DEF background
    <3>4. repairs' \in Nat /\ repairs <= repairs'
      BY <1>0, <3>3
    <3> QED
      BY <1>0, <2>1, <2>2, <3>1, <3>2, <3>3, <3>4, ExposureKept
  <2> QED
    BY <1>0, <2>3, <2>4
<1>5. CASE Detach(x)
  <2>1. PICK r : w' = [w EXCEPT ![x] = r] /\ r.pc \in {"publish", "recover"}
    BY <1>5, DetachMoves DEF Moves
  <2>2. /\ w[x].pc = "locked" /\ state' = [state EXCEPT ![w[x].h] = Placeholder]
        /\ cur' = cur /\ lock' = lock /\ UNCHANGED background
    BY <1>5 DEF Detach
  <2>3. CASE cur = NoHandle
    BY <2>2, <2>3 DEF Exposed
  <2>4. CASE cur \in Handle /\ lock[cur] = x
    <3>1. w'[x].pc # "locked"
      BY <2>1 DEF WritersInv
    <3> QED
      BY <2>2, <2>4, <3>1 DEF Exposed
  <2>5. CASE cur \in Handle /\ lock[cur] # x
    <3>1. cur # w[x].h
      BY <2>2, <2>5 DEF LockInv, Holding
    <3>2. state'[cur] = state[cur]
      BY <2>2, <2>5, <3>1 DEF CacheInv
    <3>3. repairs' = repairs /\ reloads \subseteq reloads'
      BY <2>2 DEF background
    <3>4. repairs' \in Nat /\ repairs <= repairs'
      BY <1>0, <3>3
    <3> QED
      BY <1>0, <2>1, <2>2, <2>5, <3>2, <3>3, <3>4, ExposureKept
  <2> QED
    BY <1>0, <2>3, <2>4, <2>5
<1>6. CASE Publish(x) \/ PublishFails(x) \/ LoseRace(x)
  <2>1. PICK r : w' = [w EXCEPT ![x] = r] /\ r.pc \in {"install", "recover"}
    <3>1. CASE Publish(x)
      BY <3>1, PublishMoves
    <3>2. CASE PublishFails(x)
      BY <3>2, PublishFailsMoves DEF Moves
    <3>3. CASE LoseRace(x)
      BY <3>3, FailingMoves DEF Moves
    <3> QED
      BY <1>6, <3>1, <3>2, <3>3
  <2>2. w[x].pc = "publish" /\ UNCHANGED <<cache, background>>
    BY <1>6 DEF Publish, PublishFails, LoseRace
  <2> QED
    BY <2>1, <2>2, IdleExposure DEF background
<1>7. CASE Install(x)
  <2>1. PICK r : w' = [w EXCEPT ![x] = r]
    BY <1>7, AnsweringMoves DEF Moves
  <2>2. w[x].pc = "install" /\ Releases(x) /\ cur' = cur /\ UNCHANGED background
    BY <1>7 DEF Install, Releases, Holding
  <2>3. PICK s : s = ApplySingleCommit(w[x].stage.base, w[x].id, commits[w[x].id])
    OBVIOUS
  <2>4. s.placeholder = FALSE /\ state' = [state EXCEPT ![w[x].h] = s]
    BY <1>7, <2>3 DEF Install, ApplySingleCommit
  <2>5. w[x].h \in Handle
    BY <1>0, <2>2
  <2> QED
    BY <2>1, <2>2, <2>4, <2>5, FillExposure
<1>8. CASE Recover(x)
  <2>1. PICK r : w' = [w EXCEPT ![x] = r]
    BY <1>8, FailingMoves DEF Moves
  <2>2. w[x].pc = "recover" /\ Releases(x) /\ cur' = cur /\ UNCHANGED background
    BY <1>8 DEF Recover, Releases, Holding
  <2>3. PICK s : s = LoadedState(head) /\ s.placeholder = FALSE
    BY CurrentHistory, LoadIsFaithful
  <2>4. state' = [state EXCEPT ![w[x].h] = s]
    BY <1>8, <2>3 DEF Recover
  <2>5. w[x].h \in Handle
    BY <1>0, <2>2
  <2> QED
    BY <2>1, <2>2, <2>3, <2>4, <2>5, FillExposure
<1>9. CASE RecoverFails(x)
  <2>1. w'[x].pc = "disconnect"
    BY <1>9 DEF RecoverFails, Goto, WritersInv, WriterType
  <2> QED
    BY <2>1 DEF Due
<1>10. CASE Disconnect(x)
  BY <1>10 DEF Disconnect, Exposed
<1>11. CASE Panic(x)
  <2>1. repairs' > 0
    BY <1>0, <1>11 DEF Panic
  <2> QED
    BY <2>1 DEF Due
<1>12. CASE Cancel(x)
  <2>1. PICK r : w' = [w EXCEPT ![x] = r] /\ r.pc = w[x].pc
    BY <1>12, CancelMoves DEF Moves
  <2>2. UNCHANGED <<cache, background>>
    BY <1>12 DEF Cancel
  <2>3. repairs' = repairs /\ reloads \subseteq reloads'
    BY <2>2 DEF background
  <2>4. repairs' \in Nat /\ repairs <= repairs'
    BY <1>0, <2>3
  <2>5. cur' = cur /\ state' = state /\ lock' = lock
    BY <2>2 DEF cache
  <2> QED
    BY <1>0, <2>1, <2>3, <2>4, <2>5, ExposureKept
<1>13. CASE RetryInner(x) \/ RetryOuter(x)
  <2>1. PICK r : w' = [w EXCEPT ![x] = r]
    BY <1>13, RetryMoves DEF Moves
  <2>2. w[x].pc = "failed" /\ UNCHANGED <<cache, background>>
    BY <1>13 DEF RetryInner, RetryOuter
  <2> QED
    BY <2>1, <2>2, IdleExposure DEF background
<1>14. CASE GiveUp(x)
  <2>1. PICK r : w' = [w EXCEPT ![x] = r]
    BY <1>14, AnsweringMoves DEF Moves
  <2>2. w[x].pc = "failed" /\ UNCHANGED <<cache, background>>
    BY <1>14 DEF GiveUp
  <2> QED
    BY <2>1, <2>2, IdleExposure DEF background
<1>15. CASE Notify(x) \/ CatchUpTooLate(x) \/ AwaitReload(x) \/ RefreshFails(x)
  <2>1. PICK r : w' = [w EXCEPT ![x] = r]
    BY <1>15, RefreshMoves DEF Moves
  <2>2. w[x].pc \in {"notify", "catchup", "reload"}
    BY <1>15 DEF Notify, CatchUpTooLate, AwaitReload, RefreshFails
  <2>3. UNCHANGED cache /\ repairs' = repairs /\ reloads \subseteq reloads'
    BY <1>15 DEF Notify, CatchUpTooLate, AwaitReload, RefreshFails, StartReload, background
  <2> QED
    BY <2>1, <2>2, <2>3, IdleExposure
<1>16. CASE CatchUp(x)
  <2>1. PICK r : w' = [w EXCEPT ![x] = r]
    BY <1>16, RefreshMoves DEF Moves
  <2>2. w[x].pc = "catchup" /\ cur' = cur /\ lock' = lock /\ UNCHANGED background
    BY <1>16 DEF CatchUp
  <2>3. PICK s : s.placeholder = FALSE /\ w[x].rh \in Handle /\ state' = [state EXCEPT ![w[x].rh] = s]
    BY <1>16, CatchUpFaithful
  <2>4. CASE cur = NoHandle
    BY <2>2, <2>4 DEF Exposed
  <2>5. CASE cur = w[x].rh
    <3>1. state'[cur'] = s
      BY <2>2, <2>3, <2>5 DEF CacheInv
    <3> QED
      BY <2>3, <3>1 DEF Exposed
  <2>6. CASE cur \in Handle /\ cur # w[x].rh
    <3>1. state'[cur] = state[cur]
      BY <2>3, <2>6 DEF CacheInv
    <3>2. lock[cur] # x
      BY <2>2, <2>6 DEF LockInv, Holding
    <3>3. repairs' = repairs /\ reloads \subseteq reloads'
      BY <2>2 DEF background
    <3>4. repairs' \in Nat /\ repairs <= repairs'
      BY <1>0, <3>3
    <3> QED
      BY <1>0, <2>1, <2>2, <3>1, <3>2, <3>3, <3>4, ExposureKept
  <2> QED
    BY <1>0, <2>4, <2>5, <2>6
<1> QED
  BY <1>1, <1>2, <1>3, <1>4, <1>5, <1>6, <1>7, <1>8, <1>9, <1>10, <1>11, <1>12, <1>13, <1>14, <1>15,
     <1>16 DEF Step, Failure

\* A reload fills the slot it was for, an empty one always.
LEMMA ExposureReloads ==
    ASSUME HistoryInv, CacheInv, SlotInv, NEW l \in reloads, FinishReload(l)
    PROVE  Exposed' => Due'
<1>0. l.h \in Handle /\ l.id \in 0 .. Len(commits) /\ state \in [Handle -> LedgerState]
  BY DEF CacheInv
<1>1. LoadedState(l.id).placeholder = FALSE /\ TOf(l.id) >= 0
  <2>1. TOf(l.id) = l.id /\ Len(commits) \in Nat
    BY <1>0, CurrentHistory
  <2>2. TOf(l.id) >= 0
    BY <1>0, <2>1
  <2> QED
    BY <1>0, <2>2, LoadIsFaithful
<1>2. cur' = cur /\ lock' = lock /\ w' = w /\ repairs' = repairs /\ reloads' = reloads \ {l}
  BY DEF FinishReload
<1>3. CASE l.h = cur
  <2>1. PICK s : s = state[cur] /\ s \in LedgerState
    BY <1>0, <1>3
  <2>2. state'[cur] = IF TOf(l.id) >= s.t THEN LoadedState(l.id) ELSE s
    BY <1>0, <1>3, <2>1 DEF FinishReload
  <2>3. s.placeholder => s.t = 0
    BY <1>0, <1>3, <2>1 DEF SlotInv, FreshPlaceholders
  <2>4. ~ state'[cur].placeholder
    <3>1. CASE s.placeholder
      BY <1>1, <2>2, <2>3, <3>1
    <3>2. CASE ~ s.placeholder
      BY <1>1, <2>2, <3>2
    <3> QED
      BY <3>1, <3>2
  <2> QED
    BY <1>2, <2>4 DEF Exposed
<1>4. CASE l.h # cur
  <2>1. cur \in Handle => state'[cur] = state[cur]
    BY <1>0, <1>4 DEF FinishReload
  <2>2. Exposed' => Exposed
    BY <1>2, <2>1 DEF Exposed, CacheInv
  <2>3. Due => Due'
    BY <1>2, <1>4 DEF Due
  <2> QED
    BY <2>2, <2>3 DEF SlotInv
<1> QED
  BY <1>3, <1>4

\* Every step.
LEMMA SlotInvKept ==
    ASSUME WriteInv, LockInv, SlotInv, [WriteNext]_vars
    PROVE  SlotInv'
<1>0. HistoryInv /\ CacheInv /\ WritersInv /\ head \in 0 .. Len(commits)
  BY CurrentHistory DEF WriteInv
<1>1. FreshPlaceholders'
  BY FreshKept DEF SlotInv
<1>2. CASE UNCHANGED vars \/ Finished \/ \E q \in Foreign : ForeignCommit(q)
  <2>1. cur' = cur /\ state' = state /\ lock' = lock /\ w' = w /\ repairs' = repairs /\ reloads' = reloads
    BY <1>2 DEF vars, Finished, ForeignCommit, cache, background
  <2>2. Exposed' => Due'
    BY <2>1 DEF SlotInv, Exposed, Due
  <2> QED
    BY <1>1, <2>2 DEF SlotInv
<1>3. ASSUME NEW x \in Writer, NEW q \in Request, Begin(x, q) PROVE Exposed' => Due'
  <2>1. PICK r : w' = [w EXCEPT ![x] = r] /\ r.pc = "begin"
    BY <1>0, <1>3, BeginMoves DEF Moves
  <2>2. PICK h \in Handle : GetOrLoad(h)
    BY <1>3 DEF Begin
  <2>3. w[x].pc = "new" /\ UNCHANGED background
    BY <1>3 DEF Begin
  <2>4. CASE UNCHANGED cache
    BY <1>0, <2>1, <2>3, <2>4, IdleExposure DEF background
  <2>5. CASE ~ UNCHANGED cache
    <3>1. cur' = h /\ state' = [state EXCEPT ![h] = LoadedState(head)]
      BY <2>2, <2>5 DEF GetOrLoad
    <3>2. PICK s : s = LoadedState(head) /\ s.placeholder = FALSE
      BY <1>0, LoadIsFaithful
    <3>3. state'[cur'] = s
      BY <1>0, <3>1, <3>2 DEF CacheInv
    <3> QED
      BY <3>2, <3>3 DEF Exposed
  <2> QED
    BY <2>4, <2>5
<1>4. ASSUME NEW x \in Writer, Step(x) \/ Failure(x) PROVE Exposed' => Due'
  BY <1>0, <1>4, ExposureSteps
<1>5. CASE Repair
  <2>1. cur' = cur /\ (cur # NoHandle => \E l \in reloads' : l.h = cur)
    <3>1. [h |-> cur, id |-> head].h = cur
      OBVIOUS
    <3> QED
      BY <1>5, <3>1 DEF Repair, cache
  <2> QED
    BY <1>1, <2>1 DEF SlotInv, Exposed, Due
<1>6. ASSUME NEW l \in reloads, FinishReload(l) PROVE Exposed' => Due'
  BY <1>0, <1>6, ExposureReloads
<1>7. CASE SweepIdle
  BY <1>1, <1>7 DEF SweepIdle, SlotInv, Exposed
<1> QED
  BY <1>1, <1>2, <1>3, <1>4, <1>5, <1>6, <1>7 DEF WriteNext, Background, SlotInv

\* An exposed slot is always due to be filled or dropped.
LEMMA SlotInvHolds == WriteSpec => []SlotInv
<1>1. WriteInit => SlotInv
  <2> SUFFICES ASSUME WriteInit PROVE SlotInv
    OBVIOUS
  <2>1. \A h \in Handle : state[h].t = 0
    BY DEF WriteInit, Genesis
  <2>2. cur = NoHandle
    BY DEF WriteInit
  <2> QED
    BY <2>1, <2>2 DEF SlotInv, FreshPlaceholders, Exposed
<1>2. WriteInv /\ LockInv /\ SlotInv /\ [WriteNext]_vars => SlotInv'
  BY SlotInvKept
<1> QED
  BY <1>1, <1>2, WriteInvHolds, LockInvHolds, PTL DEF WriteSpec

\* A reader is never left with the slot a commit has emptied (DetachedCacheSlot, its
\* recovery and its Drop): while the manager's handle is unlocked and holds
\* the placeholder, a reload of it or its eviction is due.
THEOREM EmptySlotIsTemporary == WriteSpec => []PlaceholderIsTemporary
<1>1. WriteInv /\ SlotInv => PlaceholderIsTemporary
  <2>1. ASSUME WriteInv, SlotInv, cur # NoHandle, lock[cur] = NoOne, state[cur].placeholder PROVE Due
    <3>1. \A x \in Writer : lock[cur] # x
      BY <2>1, NameAssumption
    <3> QED
      BY <2>1, <3>1 DEF SlotInv, Exposed
  <2> QED
    BY <2>1 DEF PlaceholderIsTemporary, Due
<1> QED
  BY <1>1, WriteInvHolds, SlotInvHolds, PTL
=============================================================================
