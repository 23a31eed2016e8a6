------------------------ MODULE BackpressureProofs ------------------------
(***************************************************************************)
(* Theorems about Backpressure, for every set of writers and blocks, every *)
(* watermark, request size and number of faults: pendingBytes counts what  *)
(* is buffered, and the buffer stays within its bound.                     *)
(*                                                                         *)
(* The first part is about Total, the sum of a function over a finite set: *)
(* the fold is a recursive function, so that it exists, that it is unique  *)
(* and that the order of the elements is irrelevant are shown by looking   *)
(* at a smallest set for which they fail.                                  *)
(***************************************************************************)
EXTENDS Backpressure, FiniteSetTheorems, WellFoundedInduction, TLAPS

\* A set of natural numbers has a least element, which Min chooses.
LEMMA LeastNumber ==
    ASSUME NEW S \in SUBSET Nat, S # {}
    PROVE  Min(S) \in S /\ \A y \in S : Min(S) <= y
<1>1. PICK x \in S : \A y \in S : ~(<<y, x>> \in OpToRel(<, Nat))
  BY NatLessThanWellFounded, WFMin
<1>2. \A y \in S : ~(y < x)
  BY <1>1 DEF OpToRel
<1>3. \E m \in S : \A y \in S : m =< y
  BY <1>2
<1>4. QED BY <1>3 DEF Min

\* Among subsets of a finite set one has no other below it.
LEMMA Smallest ==
    ASSUME NEW D, IsFiniteSet(D), NEW T \in SUBSET (SUBSET D), T # {}
    PROVE  \E s \in T : \A t \in T : t \subseteq s => t = s
<1>1. \A t \in T : IsFiniteSet(t) /\ Cardinality(t) \in Nat
  BY FS_Subset, FS_CardinalityType
<1> DEFINE Sizes == {Cardinality(t) : t \in T}
<1>2. Sizes \in SUBSET Nat /\ Sizes # {}
  BY <1>1
<1>3. Min(Sizes) \in Sizes /\ \A n \in Sizes : Min(Sizes) <= n
  BY <1>2, LeastNumber
<1>4. PICK s \in T : \A t \in T : Cardinality(s) <= Cardinality(t)
  BY <1>3
<1>5. ASSUME NEW t \in T, t \subseteq s PROVE t = s
  <2>1. Cardinality(t) <= Cardinality(s) /\ (Cardinality(s) = Cardinality(t) => s = t)
    BY <1>1, <1>5, FS_Subset
  <2>2. QED BY <1>1, <1>4, <2>1
<1>6. QED BY <1>5

-----------------------------------------------------------------------------
(* The recursion behind Total.                                             *)

Pick(s) == CHOOSE x \in s : TRUE
Summing(g, f, D) ==
    g = [s \in SUBSET D |-> IF s = {} THEN 0 ELSE f[Pick(s)] + g[s \ {Pick(s)}]]

\* What the recursion says of one set.
LEMMA SummingAt ==
    ASSUME NEW f, NEW D, NEW g, Summing(g, f, D), NEW s \in SUBSET D
    PROVE  /\ s = {} => g[s] = 0
           /\ s # {} => /\ Pick(s) \in s
                        /\ g[s] = f[Pick(s)] + g[s \ {Pick(s)}]
<1>1. s # {} => Pick(s) \in s
  BY DEF Pick
<1> DEFINE R == [t \in SUBSET D |-> IF t = {} THEN 0 ELSE f[Pick(t)] + g[t \ {Pick(t)}]]
<1>2. R[s] = IF s = {} THEN 0 ELSE f[Pick(s)] + g[s \ {Pick(s)}]
  OBVIOUS
<1>3. g = R
  BY DEF Summing
<1>4. g[s] = R[s]
  BY <1>3
<1>5. QED BY <1>1, <1>2, <1>4

\* Two functions that satisfy it agree where both are defined.
LEMMA SummingAgree ==
    ASSUME NEW f, NEW D, IsFiniteSet(D), NEW E, NEW g, NEW h,
           Summing(g, f, D), Summing(h, f, E)
    PROVE  \A s \in SUBSET (D \cap E) : g[s] = h[s]
<1> DEFINE T == {s \in SUBSET (D \cap E) : g[s] # h[s]}
<1> SUFFICES ASSUME T # {} PROVE FALSE
  OBVIOUS
<1>1. T \in SUBSET (SUBSET D)
  OBVIOUS
<1>2. PICK s \in T : \A t \in T : t \subseteq s => t = s
  <2> HIDE DEF T
  <2>1. QED BY <1>1, Smallest
<1>3. s \in SUBSET D /\ s \in SUBSET E /\ g[s] # h[s]
  OBVIOUS
<1>4. s # {} /\ Pick(s) \in s /\ g[s] = f[Pick(s)] + g[s \ {Pick(s)}]
              /\ h[s] = f[Pick(s)] + h[s \ {Pick(s)}]
  <2>1. /\ s = {} => g[s] = 0
        /\ s # {} => Pick(s) \in s /\ g[s] = f[Pick(s)] + g[s \ {Pick(s)}]
    BY <1>3, SummingAt
  <2>2. /\ s = {} => h[s] = 0
        /\ s # {} => Pick(s) \in s /\ h[s] = f[Pick(s)] + h[s \ {Pick(s)}]
    BY <1>3, SummingAt
  <2>3. QED BY <1>3, <2>1, <2>2
<1>5. s \ {Pick(s)} \in SUBSET (D \cap E) /\ s \ {Pick(s)} \subseteq s
      /\ s \ {Pick(s)} # s
  BY <1>4
<1>6. s \ {Pick(s)} \notin T
  BY <1>2, <1>5
<1>7. g[s \ {Pick(s)}] = h[s \ {Pick(s)}]
  BY <1>5, <1>6
<1>8. QED BY <1>3, <1>4, <1>7

\* The one the definition chooses.
Sums(f, D) == CHOOSE g : Summing(g, f, D)

\* For a finite set there is one.
LEMMA SummingExists ==
    ASSUME NEW f, NEW D, IsFiniteSet(D)
    PROVE  \A s \in SUBSET D : Summing(Sums(f, s), f, s)
<1> DEFINE T == {s \in SUBSET D : ~\E g : Summing(g, f, s)}
<1>1. ASSUME T # {} PROVE FALSE
  <2>1. T \in SUBSET (SUBSET D)
    OBVIOUS
  <2>2. PICK s \in T : \A t \in T : t \subseteq s => t = s
    <3> HIDE DEF T
    <3>1. QED BY <1>1, <2>1, Smallest
  <2> DEFINE V(t) == Sums(f, t)[t]
             h == [t \in SUBSET s |-> IF t = {} THEN 0 ELSE f[Pick(t)] + V(t \ {Pick(t)})]
  <2>3. ASSUME NEW t \in SUBSET s, t # s PROVE Summing(Sums(f, t), f, t)
    <3>1. t \in SUBSET D /\ t \notin T
      BY <2>2, <2>3
    <3>2. \E g : Summing(g, f, t)
      BY <3>1
    <3>3. QED BY <3>2 DEF Sums
  <2>4. ASSUME NEW t \in SUBSET s, t # s PROVE h[t] = V(t)
    <3>1. Summing(Sums(f, t), f, t)
      BY <2>3, <2>4
    <3>2. /\ t = {} => Sums(f, t)[t] = 0
          /\ t # {} => /\ Pick(t) \in t
                       /\ Sums(f, t)[t] = f[Pick(t)] + Sums(f, t)[t \ {Pick(t)}]
      BY <3>1, SummingAt
    <3>3. h[t] = IF t = {} THEN 0 ELSE f[Pick(t)] + V(t \ {Pick(t)})
      OBVIOUS
    <3>4. ASSUME t # {} PROVE Sums(f, t)[t \ {Pick(t)}] = V(t \ {Pick(t)})
      <4> DEFINE u == t \ {Pick(t)}
      <4>1. u \in SUBSET s /\ u # s /\ u \in SUBSET (t \cap u)
        BY <2>4, <3>2, <3>4
      <4>2. Summing(Sums(f, u), f, u)
        BY <4>1, <2>3
      <4>3. IsFiniteSet(t)
        BY FS_Subset
      <4> HIDE DEF u
      <4>4. Sums(f, t)[u] = Sums(f, u)[u]
        BY <3>1, <4>1, <4>2, <4>3, SummingAgree
      <4>5. QED BY <4>4 DEF u
    <3> HIDE DEF h
    <3>5. QED BY <3>2, <3>3, <3>4
  <2>5. \A t \in SUBSET s : t # {} => (t \ {Pick(t)}) \in SUBSET s /\ t \ {Pick(t)} # s
    <3>1. ASSUME NEW t \in SUBSET s, t # {} PROVE Pick(t) \in t
      BY <3>1 DEF Pick
    <3>2. QED BY <3>1
  <2>6. \A t \in SUBSET s : t # {} => V(t \ {Pick(t)}) = h[t \ {Pick(t)}]
    <3> HIDE DEF V, h
    <3>1. QED BY <2>4, <2>5
  <2>7. h = [t \in SUBSET s |-> IF t = {} THEN 0 ELSE f[Pick(t)] + h[t \ {Pick(t)}]]
    <3> DEFINE k == [t \in SUBSET s |-> IF t = {} THEN 0 ELSE f[Pick(t)] + h[t \ {Pick(t)}]]
    <3>1. ASSUME NEW t \in SUBSET s PROVE h[t] = k[t]
      <4>1. h[t] = IF t = {} THEN 0 ELSE f[Pick(t)] + V(t \ {Pick(t)})
        OBVIOUS
      <4> HIDE DEF h, V
      <4>2. k[t] = IF t = {} THEN 0 ELSE f[Pick(t)] + h[t \ {Pick(t)}]
        OBVIOUS
      <4> HIDE DEF k
      <4>3. QED BY <4>1, <4>2, <2>6
    <3>2. DOMAIN h = SUBSET s /\ DOMAIN k = SUBSET s
      OBVIOUS
    <3>3. h = [t \in DOMAIN h |-> h[t]] /\ k = [t \in DOMAIN k |-> k[t]]
      OBVIOUS
    <3> HIDE DEF h, k
    <3>4. h = k
      BY <3>1, <3>2, <3>3
    <3>5. QED BY <3>4 DEF k
  <2> HIDE DEF h
  <2>8. Summing(h, f, s)
    BY <2>7 DEF Summing
  <2>9. QED BY <2>2, <2>8
<1>2. ASSUME NEW s \in SUBSET D PROVE Summing(Sums(f, s), f, s)
  <2>1. \E g : Summing(g, f, s)
    BY <1>1
  <2>2. QED BY <2>1 DEF Sums
<1>3. QED BY <1>2

-----------------------------------------------------------------------------
(* Total, the sum.                                                         *)

\* The fold is that recursion.
LEMMA TotalIs ==
    ASSUME NEW f, NEW D
    PROVE  Total(f, D) = Sums(f, D)[D]
BY Zenon DEF Total, FoldSet, MapThenFoldSet, Sums, Summing, Pick

\* One step of it.
LEMMA TotalStep ==
    ASSUME NEW f, NEW D, IsFiniteSet(D)
    PROVE  /\ D = {} => Total(f, D) = 0
           /\ D # {} => /\ Pick(D) \in D
                        /\ Total(f, D) = f[Pick(D)] + Total(f, D \ {Pick(D)})
<1>1. \A s \in SUBSET D : Summing(Sums(f, s), f, s)
  BY SummingExists
<1>2. /\ D = {} => Sums(f, D)[D] = 0
      /\ D # {} => /\ Pick(D) \in D
                   /\ Sums(f, D)[D] = f[Pick(D)] + Sums(f, D)[D \ {Pick(D)}]
  BY <1>1, SummingAt
<1> DEFINE u == D \ {Pick(D)}
<1>3. Sums(f, D)[u] = Sums(f, u)[u]
  <2>1. u \in SUBSET D /\ u \in SUBSET (D \cap u)
    OBVIOUS
  <2> HIDE DEF u
  <2>2. Summing(Sums(f, D), f, D) /\ Summing(Sums(f, u), f, u)
    BY <1>1, <2>1
  <2>3. QED BY <2>1, <2>2, SummingAgree
<1>4. Total(f, D) = Sums(f, D)[D] /\ Total(f, u) = Sums(f, u)[u]
  BY TotalIs
<1>5. QED BY <1>2, <1>3, <1>4

\* A sum of integers is one.
LEMMA TotalType ==
    ASSUME NEW f, NEW D, IsFiniteSet(D), \A x \in D : f[x] \in Int
    PROVE  \A s \in SUBSET D : Total(f, s) \in Int
<1> DEFINE T == {s \in SUBSET D : Total(f, s) \notin Int}
<1>1. ASSUME T # {} PROVE FALSE
  <2>1. T \in SUBSET (SUBSET D)
    OBVIOUS
  <2>2. PICK s \in T : \A t \in T : t \subseteq s => t = s
    <3> HIDE DEF T
    <3>1. QED BY <1>1, <2>1, Smallest
  <2>3. s \in SUBSET D /\ Total(f, s) \notin Int /\ IsFiniteSet(s)
    BY FS_Subset
  <2>4. /\ s = {} => Total(f, s) = 0
        /\ s # {} => Pick(s) \in s /\ Total(f, s) = f[Pick(s)] + Total(f, s \ {Pick(s)})
    BY <2>3, TotalStep
  <2>5. s # {} /\ s \ {Pick(s)} \in SUBSET D /\ s \ {Pick(s)} # s /\ s \ {Pick(s)} \subseteq s
    BY <2>3, <2>4
  <2>6. Total(f, s \ {Pick(s)}) \in Int
    BY <2>2, <2>5
  <2>7. f[Pick(s)] \in Int
    BY <2>3, <2>4, <2>5
  <2>8. QED BY <2>3, <2>4, <2>5, <2>6, <2>7
<1>2. QED BY <1>1

\* Any element may be taken off first.
LEMMA TotalTake ==
    ASSUME NEW f, NEW D, IsFiniteSet(D), \A x \in D : f[x] \in Int
    PROVE  \A s \in SUBSET D : \A x \in s : Total(f, s) = f[x] + Total(f, s \ {x})
<1> DEFINE T == {s \in SUBSET D : \E x \in s : Total(f, s) # f[x] + Total(f, s \ {x})}
<1>1. ASSUME T # {} PROVE FALSE
  <2>1. T \in SUBSET (SUBSET D)
    OBVIOUS
  <2>2. PICK s \in T : \A t \in T : t \subseteq s => t = s
    <3> HIDE DEF T
    <3>1. QED BY <1>1, <2>1, Smallest
  <2>3. PICK x \in s : Total(f, s) # f[x] + Total(f, s \ {x})
    OBVIOUS
  <2>4. s \in SUBSET D /\ IsFiniteSet(s)
    BY FS_Subset
  <2> DEFINE c == Pick(s)
  <2>5. c \in s /\ Total(f, s) = f[c] + Total(f, s \ {c})
    BY <2>4, TotalStep
  <2> HIDE DEF c
  <2>6. c # x
    BY <2>3, <2>5
  <2>7. /\ (s \ {c}) \in SUBSET D /\ (s \ {c}) # s /\ (s \ {c}) \subseteq s
        /\ (s \ {x}) \in SUBSET D /\ (s \ {x}) # s /\ (s \ {x}) \subseteq s
        /\ x \in s \ {c} /\ c \in s \ {x}
    BY <2>4, <2>5, <2>6
  <2>8. (s \ {c}) \notin T /\ (s \ {x}) \notin T
    BY <2>2, <2>7
  <2>9. /\ Total(f, s \ {c}) = f[x] + Total(f, (s \ {c}) \ {x})
        /\ Total(f, s \ {x}) = f[c] + Total(f, (s \ {x}) \ {c})
    BY <2>7, <2>8
  <2>10. (s \ {c}) \ {x} = (s \ {x}) \ {c} /\ ((s \ {c}) \ {x}) \in SUBSET D
    BY <2>4
  <2>11. Total(f, (s \ {c}) \ {x}) \in Int /\ f[x] \in Int /\ f[c] \in Int
    BY <2>4, <2>5, <2>10, TotalType
  <2>12. Total(f, (s \ {x}) \ {c}) = Total(f, (s \ {c}) \ {x})
    BY <2>10
  <2> DEFINE all == Total(f, s)
             noc == Total(f, s \ {c})
             nox == Total(f, s \ {x})
             rest == Total(f, (s \ {c}) \ {x})
  <2>13. /\ all # f[x] + nox /\ all = f[c] + noc /\ noc = f[x] + rest
         /\ nox = f[c] + rest /\ rest \in Int /\ f[x] \in Int /\ f[c] \in Int
    BY <2>3, <2>5, <2>9, <2>11, <2>12
  <2> HIDE DEF all, noc, nox, rest, T
  <2>14. QED BY <2>13
<1>2. QED BY <1>1

\* Sums add up: with g zero, functions that agree have the same sum.
LEMMA TotalAdds ==
    ASSUME NEW f, NEW g, NEW h, NEW D, IsFiniteSet(D),
           \A x \in D : f[x] \in Int /\ g[x] \in Int /\ h[x] = f[x] + g[x]
    PROVE  Total(h, D) = Total(f, D) + Total(g, D)
<1> DEFINE T == {s \in SUBSET D : Total(h, s) # Total(f, s) + Total(g, s)}
<1>1. ASSUME T # {} PROVE FALSE
  <2>1. T \in SUBSET (SUBSET D)
    OBVIOUS
  <2>2. PICK s \in T : \A t \in T : t \subseteq s => t = s
    <3> HIDE DEF T
    <3>1. QED BY <1>1, <2>1, Smallest
  <2>3. s \in SUBSET D /\ Total(h, s) # Total(f, s) + Total(g, s) /\ IsFiniteSet(s)
    BY FS_Subset
  <2> DEFINE c == Pick(s)
             u == s \ {c}
  <2>4. /\ s = {} => Total(f, s) = 0 /\ Total(g, s) = 0 /\ Total(h, s) = 0
        /\ s # {} => /\ c \in s
                     /\ Total(f, s) = f[c] + Total(f, u)
                     /\ Total(g, s) = g[c] + Total(g, u)
                     /\ Total(h, s) = h[c] + Total(h, u)
    BY <2>3, TotalStep
  <2> HIDE DEF c
  <2>5. s # {} /\ u \in SUBSET D /\ u # s /\ u \subseteq s
    BY <2>3, <2>4
  <2>6. Total(h, u) = Total(f, u) + Total(g, u)
    BY <2>2, <2>5
  <2>7. Total(f, u) \in Int /\ Total(g, u) \in Int
    <3> HIDE DEF u
    <3>1. (\A x \in D : f[x] \in Int) /\ (\A x \in D : g[x] \in Int)
      OBVIOUS
    <3>2. QED BY <2>5, <3>1, TotalType
  <2>8. f[c] \in Int /\ g[c] \in Int /\ h[c] = f[c] + g[c]
    BY <2>3, <2>4, <2>5
  <2> HIDE DEF u
  <2>9. QED BY <2>3, <2>4, <2>5, <2>6, <2>7, <2>8
<1>2. QED BY <1>1

\* Functions that agree on a set have the same sum over it.
LEMMA TotalSame ==
    ASSUME NEW f, NEW h, NEW D, IsFiniteSet(D),
           \A x \in D : f[x] \in Int /\ h[x] = f[x]
    PROVE  Total(h, D) = Total(f, D) /\ Total(f, D) \in Int
<1> DEFINE z == [x \in D |-> 0]
<1>1. \A x \in D : f[x] \in Int /\ z[x] \in Int /\ h[x] = f[x] + z[x]
  OBVIOUS
<1>2. \A x \in D : z[x] \in Int /\ z[x] \in Int /\ z[x] = z[x] + z[x]
  OBVIOUS
<1>3. (\A x \in D : f[x] \in Int) /\ (\A x \in D : z[x] \in Int)
  OBVIOUS
<1> HIDE DEF z
<1>4. Total(h, D) = Total(f, D) + Total(z, D)
  BY <1>1, TotalAdds
<1>5. Total(z, D) = Total(z, D) + Total(z, D)
  BY <1>2, TotalAdds
<1>6. Total(f, D) \in Int /\ Total(z, D) \in Int
  BY <1>3, TotalType
<1>7. Total(z, D) = 0
  <2>1. \A n \in Int : n = n + n => n = 0
    OBVIOUS
  <2>2. QED BY <1>5, <1>6, <2>1, Zenon
<1>8. QED BY <1>4, <1>6, <1>7

\* Natural numbers add up to one, and larger ones to a larger one.
LEMMA TotalMonotone ==
    ASSUME NEW f, NEW h, NEW D, IsFiniteSet(D),
           \A x \in D : f[x] \in Int /\ h[x] \in Int /\ f[x] <= h[x]
    PROVE  Total(f, D) <= Total(h, D)
<1> DEFINE T == {s \in SUBSET D : ~(Total(f, s) <= Total(h, s))}
<1>1. ASSUME T # {} PROVE FALSE
  <2>1. T \in SUBSET (SUBSET D)
    OBVIOUS
  <2>2. PICK s \in T : \A t \in T : t \subseteq s => t = s
    <3> HIDE DEF T
    <3>1. QED BY <1>1, <2>1, Smallest
  <2>3. s \in SUBSET D /\ ~(Total(f, s) <= Total(h, s)) /\ IsFiniteSet(s)
    BY FS_Subset
  <2> DEFINE c == Pick(s)
             u == s \ {c}
  <2>4. /\ s = {} => Total(f, s) = 0 /\ Total(h, s) = 0
        /\ s # {} => /\ c \in s
                     /\ Total(f, s) = f[c] + Total(f, u)
                     /\ Total(h, s) = h[c] + Total(h, u)
    BY <2>3, TotalStep
  <2> HIDE DEF c
  <2>5. s # {} /\ u \in SUBSET D /\ u # s /\ u \subseteq s
    BY <2>3, <2>4
  <2>6. Total(f, u) <= Total(h, u)
    BY <2>2, <2>5
  <2>7. Total(f, u) \in Int /\ Total(h, u) \in Int
    <3> HIDE DEF u
    <3>1. (\A x \in D : f[x] \in Int) /\ (\A x \in D : h[x] \in Int)
      OBVIOUS
    <3>2. QED BY <2>5, <3>1, TotalType
  <2>8. f[c] \in Int /\ h[c] \in Int /\ f[c] <= h[c]
    BY <2>3, <2>4, <2>5
  <2> HIDE DEF u
  <2>9. QED BY <2>3, <2>4, <2>5, <2>6, <2>7, <2>8
<1>2. QED BY <1>1

\* Zeroes add up to zero.
LEMMA TotalZero ==
    ASSUME NEW f, NEW D, IsFiniteSet(D), \A x \in D : f[x] = 0
    PROVE  Total(f, D) = 0
<1>1. \A x \in D : f[x] \in Int /\ f[x] \in Int /\ f[x] = f[x] + f[x]
  OBVIOUS
<1>2. Total(f, D) = Total(f, D) + Total(f, D)
  BY <1>1, TotalAdds
<1>3. \A x \in D : f[x] \in Int
  OBVIOUS
<1>4. Total(f, D) \in Int
  BY <1>3, TotalType
<1>5. \A n \in Int : n = n + n => n = 0
  OBVIOUS
<1>6. QED BY <1>2, <1>4, <1>5, Zenon

\* Natural numbers add up to one.
LEMMA TotalNat ==
    ASSUME NEW f, NEW D, IsFiniteSet(D), \A x \in D : f[x] \in Nat
    PROVE  Total(f, D) \in Nat
<1> DEFINE z == [x \in D |-> 0]
<1>1. \A x \in D : z[x] \in Int /\ f[x] \in Int /\ z[x] <= f[x]
  OBVIOUS
<1>2. (\A x \in D : z[x] = 0) /\ (\A x \in D : f[x] \in Int)
  OBVIOUS
<1> HIDE DEF z
<1>3. Total(z, D) <= Total(f, D) /\ Total(z, D) = 0 /\ Total(f, D) \in Int
  BY <1>1, <1>2, TotalMonotone, TotalZero, TotalType
<1>4. QED BY <1>3

\* One value changes, and the sum by as much.
LEMMA TotalPoint ==
    ASSUME NEW f, NEW h, NEW D, IsFiniteSet(D), NEW x \in D,
           \A y \in D : f[y] \in Int /\ h[y] \in Int /\ (y # x => h[y] = f[y])
    PROVE  Total(h, D) = Total(f, D) - f[x] + h[x]
           /\ Total(f, D) \in Int /\ Total(h, D) \in Int
<1> DEFINE u == D \ {x}
<1>1. (\A y \in D : f[y] \in Int) /\ (\A y \in D : h[y] \in Int)
  OBVIOUS
<1>2. Total(f, D) = f[x] + Total(f, u) /\ Total(h, D) = h[x] + Total(h, u)
  BY <1>1, TotalTake
<1>3. IsFiniteSet(u) /\ \A y \in u : f[y] \in Int /\ h[y] = f[y]
  BY FS_Subset
<1> HIDE DEF u
<1>4. Total(h, u) = Total(f, u) /\ Total(f, u) \in Int
  BY <1>3, TotalSame
<1>5. f[x] \in Int /\ h[x] \in Int
  OBVIOUS
<1>6. QED BY <1>2, <1>4, <1>5

\* The sum over a set is the one over a part of it and the one over the rest.
LEMMA TotalSplit ==
    ASSUME NEW f, NEW D, IsFiniteSet(D), \A x \in D : f[x] \in Int
    PROVE  \A J \in SUBSET D : Total(f, D) = Total(f, J) + Total(f, D \ J)
<1> DEFINE T == {J \in SUBSET D : Total(f, D) # Total(f, J) + Total(f, D \ J)}
<1>1. ASSUME T # {} PROVE FALSE
  <2>1. T \in SUBSET (SUBSET D)
    OBVIOUS
  <2>2. PICK s \in T : \A t \in T : t \subseteq s => t = s
    <3> HIDE DEF T
    <3>1. QED BY <1>1, <2>1, Smallest
  <2>3. s \in SUBSET D /\ Total(f, D) # Total(f, s) + Total(f, D \ s) /\ IsFiniteSet(s)
    BY FS_Subset
  <2>4. \A t \in SUBSET D : Total(f, t) \in Int
    BY TotalType
  <2>5. s # {}
    <3>1. ASSUME s = {} PROVE FALSE
      <4>1. Total(f, s) = 0 /\ D \ s = D
        BY <2>3, <3>1, TotalStep
      <4>2. Total(f, D \ s) = Total(f, D) /\ Total(f, D) \in Int
        BY <2>4, <4>1
      <4>3. QED BY <2>3, <4>1, <4>2
    <3>2. QED BY <3>1
  <2>6. PICK c \in s : TRUE
    BY <2>5
  <2> DEFINE u == s \ {c}
  <2>7. /\ u \in SUBSET D /\ u # s /\ u \subseteq s /\ c \in D \ u
        /\ (D \ u) \in SUBSET D /\ (D \ u) \ {c} = D \ s /\ (D \ s) \in SUBSET D
    BY <2>3
  <2>8. Total(f, D) = Total(f, u) + Total(f, D \ u)
    BY <2>2, <2>7
  <2>9. Total(f, s) = f[c] + Total(f, u)
    BY <2>3, TotalTake
  <2>10. Total(f, D \ u) = f[c] + Total(f, D \ s)
    <3> HIDE DEF u
    <3>1. Total(f, D \ u) = f[c] + Total(f, (D \ u) \ {c})
      BY <2>7, TotalTake
    <3>2. QED BY <2>7, <3>1
  <2>11. f[c] \in Int /\ Total(f, u) \in Int /\ Total(f, D \ s) \in Int
    BY <2>3, <2>4, <2>7
  <2> DEFINE p == Total(f, D)
             q == Total(f, s)
             r == Total(f, D \ s)
             v == Total(f, u)
             k == Total(f, D \ u)
  <2>12. /\ p # q + r /\ p = v + k /\ q = f[c] + v /\ k = f[c] + r
         /\ f[c] \in Int /\ v \in Int /\ r \in Int
    BY <2>3, <2>8, <2>9, <2>10, <2>11
  <2> HIDE DEF p, q, r, v, k, T
  <2>13. QED BY <2>12
<1>2. QED BY <1>1

\* What is left of a sum when the values of a part are dropped.
LEMMA TotalDrop ==
    ASSUME NEW f, NEW h, NEW D, IsFiniteSet(D), NEW J \in SUBSET D,
           \A x \in D : f[x] \in Nat,
           \A x \in J : h[x] = 0, \A x \in D \ J : h[x] = f[x]
    PROVE  Total(h, D) = Total(f, D) - Total(f, J)
           /\ Total(f, J) \in Nat /\ Total(f, D) \in Nat
<1> DEFINE R == D \ J
<1>1. IsFiniteSet(J) /\ IsFiniteSet(R) /\ R \in SUBSET D
  BY FS_Subset
<1>2. (\A x \in D : f[x] \in Int) /\ (\A x \in D : h[x] \in Int)
  OBVIOUS
<1>3. Total(f, D) = Total(f, J) + Total(f, R) /\ Total(h, D) = Total(h, J) + Total(h, R)
  BY <1>2, TotalSplit
<1>4. (\A x \in J : h[x] = 0) /\ (\A x \in R : f[x] \in Int /\ h[x] = f[x])
  OBVIOUS
<1>5. (\A x \in J : f[x] \in Nat) /\ (\A x \in D : f[x] \in Nat)
  OBVIOUS
<1> HIDE DEF R
<1>6. Total(h, J) = 0 /\ Total(h, R) = Total(f, R) /\ Total(f, R) \in Int
  BY <1>1, <1>4, TotalZero, TotalSame
<1>7. Total(f, J) \in Nat /\ Total(f, D) \in Nat
  BY <1>1, <1>5, TotalNat
<1>8. QED BY <1>3, <1>6, <1>7

-----------------------------------------------------------------------------
(* The inductive invariant.                                                *)

Types ==
    /\ pc \in [Procs -> {"idle", "publish", "gate", "wait", "lock", "drain", "stopped"}]
    /\ left \in [Writers -> SUBSET Blocks]
    /\ uncounted \in [Writers -> Nat] /\ size \in [Writers -> Nat]
    /\ failures \in [Writers -> 0..MaxFailures]
    /\ writes \in [Blocks -> Nat] /\ pending \in [Blocks -> Nat]
    /\ segment \subseteq Blocks /\ jobs \subseteq SUBSET Blocks
    /\ counter \in Int /\ lost \in Nat /\ excess \in Nat
    /\ at \in {"none", "flush", "rotate", "upload", "end"}
    /\ err \in {"none", "nospace", "other"}

\* Who is after drainMu: at most one writer, and drainInFlight says so; the
\* holder is the process that drains (awaitBackpressure, DrainToBackendCtx).
AfterDrain(w) == pc[w] \in {"lock", "drain"}
InFlight == inFlight = \E w \in Writers : AfterDrain(w)
OneWriter == \A v, w \in Writers : AfterDrain(v) /\ AfterDrain(w) => v = w
Holder ==
    /\ holder \in Procs \cup {Free}
    /\ \A p \in Procs : pc[p] = "drain" <=> holder = p
    /\ holder = Free <=> at = "none"

\* What a writer has published of its request: all of it once it is counted
\* (WriteAtCtx).
Held == [w \in Writers |-> size[w] - Cardinality(left[w])]
Requests ==
    \A w \in Writers :
        /\ pc[w] = "publish" => uncounted[w] = size[w] - Cardinality(left[w])
        /\ pc[w] # "publish" => uncounted[w] = 0 /\ left[w] = {}
        /\ pc[w] = "idle" => size[w] = 0

\* BufferBounded with the part of each request that is published already.
PublishedBounded == Published <= High + Total(Held, Writers) + excess + lost

IInv ==
    /\ Types /\ InFlight /\ OneWriter /\ Holder /\ Requests
    /\ CounterExact /\ PublishedBounded

\* A flush moves records from Writes.Blocks to PendingBackendWrites.
LEMMA FlushTypes ==
    ASSUME Types, NEW S, FlushRecords(S)
    PROVE  /\ writes' \in [Blocks -> Nat] /\ pending' \in [Blocks -> Nat]
           /\ segment' \subseteq Blocks
BY DEF Types, FlushRecords, Buffered

\* Every step keeps the types.
LEMMA TypesStep ==
    ASSUME Types, Holder, [Next]_vars
    PROVE  Types'
<1>1. ASSUME NEW w \in Writers, NEW R \in SUBSET Blocks, StartWrite(w, R) PROVE Types'
  <2>1. Cardinality(R) \in Nat
    BY SizeAssumption, FS_Subset, FS_CardinalityType
  <2>2. QED BY <1>1, <2>1 DEF StartWrite, Types, Procs, vars, writerVars, bufVars,
      drainVars, backVars, boundVars
<1>2. ASSUME NEW w \in Writers, PublishBlock(w) PROVE Types'
  <2>1. Min(left[w]) \in Blocks
    BY <1>2, SizeAssumption, LeastNumber DEF PublishBlock, Types
  <2>2. QED BY <1>2, <2>1 DEF PublishBlock, Types, Procs, vars, writerVars, bufVars,
      drainVars, backVars, boundVars
<1>3. ASSUME NEW w \in Writers, CountWrite(w) PROVE Types'
  BY <1>3 DEF CountWrite, Types, Procs, vars, writerVars, bufVars, drainVars, backVars,
      boundVars
<1>4. ASSUME NEW w \in Writers, Gate(w) PROVE Types'
  <2>1. pc' \in [Procs -> {"idle", "publish", "gate", "wait", "lock", "drain", "stopped"}]
    BY <1>4 DEF Gate, Return, Types, Procs
  <2>2. size' \in [Writers -> Nat] /\ excess' \in Nat
    BY <1>4 DEF Gate, Return, Types
  <2>3. failures' \in [Writers -> 0..MaxFailures]
    BY <1>4, SizeAssumption DEF Gate, Return, Types
  <2>4. QED BY <1>4, <2>1, <2>2, <2>3 DEF Gate, WriteOnly, Types, vars, writerVars,
      bufVars, drainVars, backVars, boundVars
<1>5. ASSUME NEW w \in Writers, Wait(w) PROVE Types'
  <2>1. pc' \in [Procs -> {"idle", "publish", "gate", "wait", "lock", "drain", "stopped"}]
    BY <1>5 DEF Wait, Return, Types, Procs
  <2>2. size' \in [Writers -> Nat] /\ excess' \in Nat
    BY <1>5 DEF Wait, Return, Types
  <2>3. failures' \in [Writers -> 0..MaxFailures]
    BY <1>5, SizeAssumption DEF Wait, Return, Types
  <2>4. QED BY <1>5, <2>1, <2>2, <2>3 DEF Wait, WriteOnly, Types, vars, writerVars,
      bufVars, drainVars, backVars, boundVars
<1>6. ASSUME NEW p \in Procs, LockDrain(p) PROVE Types'
  BY <1>6 DEF LockDrain, Types, Procs, vars, writerVars, bufVars, drainVars, backVars,
      boundVars
<1>7. ASSUME UploaderWakes PROVE Types'
  BY <1>7 DEF UploaderWakes, UploaderOnly, Types, Procs, vars, writerVars, bufVars,
      drainVars, backVars, boundVars
<1>8. ASSUME StopChunkUploader PROVE Types'
  BY <1>8 DEF StopChunkUploader, UploaderOnly, Types, Procs, vars, writerVars, bufVars,
      drainVars, backVars, boundVars
<1>9. ASSUME GuestFlush PROVE Types'
  <2>1. PICK S : FlushRecords(S)
    BY <1>9 DEF GuestFlush
  <2>2. QED BY <1>9, <2>1, FlushTypes DEF GuestFlush, Types, Procs, vars, writerVars,
      bufVars, drainVars, backVars, boundVars
<1>10. ASSUME DrainFlush PROVE Types'
  <2>1. (\E S : FlushRecords(S)) \/ UNCHANGED <<writes, pending, segment>>
    BY <1>10 DEF DrainFlush
  <2>2. writes' \in [Blocks -> Nat] /\ pending' \in [Blocks -> Nat] /\ segment' \subseteq Blocks
    BY <2>1, FlushTypes DEF Types
  <2>3. QED BY <1>10, <2>2 DEF DrainFlush, DrainOnly, Types, Procs, vars, writerVars,
      bufVars, drainVars, backVars, boundVars
<1>11. ASSUME DrainRotate PROVE Types'
  <2>1. jobs' \subseteq SUBSET Blocks /\ segment' \subseteq Blocks
    <3>1. \A J \in Chunkings(segment) : J \subseteq SUBSET Blocks
      BY DEF Chunkings, Types
    <3>2. QED BY <1>11, <3>1 DEF DrainRotate, DrainOnly, Types, vars, writerVars, bufVars,
        drainVars, backVars, boundVars
  <2>2. QED BY <1>11, <2>1 DEF DrainRotate, DrainOnly, Types, Procs, vars, writerVars,
      bufVars, drainVars, backVars, boundVars
<1>12. ASSUME NEW j \in jobs, UploadChunk(j) PROVE Types'
  <2>1. Freed(j) \in Nat
    <3>1. IsFiniteSet(j) /\ \A x \in j : pending[x] \in Nat
      BY SizeAssumption, FS_Subset DEF Types
    <3>2. QED BY <3>1, TotalNat DEF Freed
  <2>2. pending' \in [Blocks -> Nat] /\ counter' \in Int /\ jobs' \subseteq SUBSET Blocks
        /\ err' \in {"none", "nospace", "other"}
    BY <1>12, <2>1 DEF UploadChunk, PutLands, PutFails, Types
  <2>3. QED BY <1>12, <2>2 DEF UploadChunk, Types, Procs, vars, writerVars, bufVars,
      drainVars, backVars, boundVars
<1>13. ASSUME DrainSave PROVE Types'
  BY <1>13 DEF DrainSave, PutLands, PutFails, DrainOnly, Types, Procs, vars, writerVars,
      bufVars, drainVars, backVars, boundVars
<1>14. ASSUME EndDrain PROVE Types'
  <2>1. CASE holder = Uploader
    BY <1>14, <2>1 DEF EndDrain, Types, Procs, vars, writerVars, bufVars, drainVars,
        backVars, boundVars
  <2>2. CASE holder # Uploader
    <3>1. holder \in Writers
      BY <1>14, <2>2 DEF EndDrain, Holder, Procs
    <3>2. failures' \in [Writers -> 0..MaxFailures] /\ size' \in [Writers -> Nat] /\ excess' \in Nat
      BY <1>14, <2>2, <3>1, SizeAssumption DEF EndDrain, FailuresAfter, Return, Types
    <3>3. pc' \in [Procs -> {"idle", "publish", "gate", "wait", "lock", "drain", "stopped"}]
      BY <1>14, <2>2, <3>1 DEF EndDrain, Return, Types, Procs
    <3>4. QED BY <1>14, <2>2, <3>2, <3>3 DEF EndDrain, Types, vars, writerVars, bufVars,
        drainVars, backVars, boundVars
  <2>3. QED BY <2>1, <2>2
<1>15. ASSUME UNCHANGED vars PROVE Types'
  BY <1>15 DEF vars, Types, Procs, vars, writerVars, bufVars, drainVars, backVars,
      boundVars
<1>16. QED BY <1>1, <1>2, <1>3, <1>4, <1>5, <1>6, <1>7, <1>8, <1>9, <1>10, <1>11, <1>12,
    <1>13, <1>14, <1>15 DEF Next, WriterStep, DrainStep

Locks == InFlight /\ OneWriter /\ Holder

\* A step that moves nobody to or from drainMu.
LEMMA LocksKept ==
    ASSUME Locks, UNCHANGED <<inFlight, holder>>,
           \A v \in Writers : pc'[v] \in {"lock", "drain"} <=> pc[v] \in {"lock", "drain"},
           \A p \in Procs : pc'[p] = "drain" <=> pc[p] = "drain",
           at' = "none" <=> at = "none"
    PROVE  Locks'
<1>1. InFlight'
  BY Zenon DEF Locks, InFlight, AfterDrain
<1>2. OneWriter'
  BY DEF Locks, OneWriter, AfterDrain
<1>3. Holder'
  BY DEF Locks, Holder
<1>4. QED BY <1>1, <1>2, <1>3 DEF Locks

\* Every step keeps drainMu and drainInFlight with the processes that have them.
LEMMA LocksStep ==
    ASSUME Types, Locks, [Next]_vars
    PROVE  Locks'
<1>1. ASSUME NEW w \in Writers, NEW R \in SUBSET Blocks, StartWrite(w, R) PROVE Locks'
  <2>1. /\ \A v \in Writers : pc'[v] \in {"lock", "drain"} <=> pc[v] \in {"lock", "drain"}
        /\ \A p \in Procs : pc'[p] = "drain" <=> pc[p] = "drain"
        /\ UNCHANGED <<inFlight, holder>>
        /\ at' = "none" <=> at = "none"
    BY <1>1 DEF StartWrite, Types, Procs, vars, writerVars, bufVars, drainVars, backVars,
        boundVars
  <2>2. QED BY <2>1, LocksKept
<1>2. ASSUME NEW w \in Writers, PublishBlock(w) PROVE Locks'
  <2>1. /\ \A v \in Writers : pc'[v] \in {"lock", "drain"} <=> pc[v] \in {"lock", "drain"}
        /\ \A p \in Procs : pc'[p] = "drain" <=> pc[p] = "drain"
        /\ UNCHANGED <<inFlight, holder>>
        /\ at' = "none" <=> at = "none"
    BY <1>2 DEF PublishBlock, Types, Procs, vars, writerVars, bufVars, drainVars,
        backVars, boundVars
  <2>2. QED BY <2>1, LocksKept
<1>3. ASSUME NEW w \in Writers, CountWrite(w) PROVE Locks'
  <2>1. /\ \A v \in Writers : pc'[v] \in {"lock", "drain"} <=> pc[v] \in {"lock", "drain"}
        /\ \A p \in Procs : pc'[p] = "drain" <=> pc[p] = "drain"
        /\ UNCHANGED <<inFlight, holder>>
        /\ at' = "none" <=> at = "none"
    BY <1>3 DEF CountWrite, Types, Procs, vars, writerVars, bufVars, drainVars, backVars,
        boundVars
  <2>2. QED BY <2>1, LocksKept
<1>4. ASSUME NEW w \in Writers, Gate(w) PROVE Locks'
  <2>1. /\ \A v \in Writers : pc'[v] \in {"lock", "drain"} <=> pc[v] \in {"lock", "drain"}
        /\ \A p \in Procs : pc'[p] = "drain" <=> pc[p] = "drain"
        /\ UNCHANGED <<inFlight, holder>>
        /\ at' = "none" <=> at = "none"
    BY <1>4 DEF Gate, Return, WriteOnly, Types, Procs, vars, writerVars, bufVars,
        drainVars, backVars, boundVars
  <2>2. QED BY <2>1, LocksKept
<1>5. ASSUME NEW w \in Writers, Wait(w) PROVE Locks'
  <2>1. CASE ~Over(Low) /\ Return(w, "none") /\ UNCHANGED inFlight
    <3>1. /\ \A v \in Writers : pc'[v] \in {"lock", "drain"} <=> pc[v] \in {"lock", "drain"}
          /\ \A p \in Procs : pc'[p] = "drain" <=> pc[p] = "drain"
          /\ UNCHANGED <<inFlight, holder>>
          /\ at' = "none" <=> at = "none"
      BY <1>5, <2>1 DEF Wait, Return, WriteOnly, Types, Procs, vars, writerVars, bufVars,
          drainVars, backVars, boundVars
    <3>2. QED BY <3>1, LocksKept
  <2>2. CASE Over(Low) /\ ~inFlight /\ inFlight' = TRUE /\ pc' = [pc EXCEPT ![w] = "lock"]
    <3>1. \A v \in Writers : ~AfterDrain(v)
      BY <2>2 DEF Locks, InFlight
    <3>2. pc'[w] = "lock" /\ \A p \in Procs : p # w => pc'[p] = pc[p]
      BY <2>2 DEF Types, Procs
    <3>3. InFlight'
      BY <2>2, <3>2, Zenon DEF InFlight, AfterDrain
    <3>4. OneWriter'
      BY <3>1, <3>2 DEF OneWriter, AfterDrain, Procs
    <3>5. holder' = holder /\ at' = at /\ pc[w] = "wait"
      BY <1>5 DEF Wait, WriteOnly, drainVars
    <3>6. Holder'
      BY <3>2, <3>5 DEF Locks, Holder
    <3>7. QED BY <3>3, <3>4, <3>6 DEF Locks
  <2>3. QED BY <1>5, <2>1, <2>2 DEF Wait
<1>6. ASSUME NEW p \in Procs, LockDrain(p) PROVE Locks'
  <2>1. /\ pc[p] = "lock" /\ holder = Free /\ holder' = p /\ at' = "flush" /\ inFlight' = inFlight
        /\ pc'[p] = "drain" /\ \A q \in Procs : q # p => pc'[q] = pc[q]
    BY <1>6 DEF LockDrain, Types
  <2>2. \A v \in Writers : pc'[v] \in {"lock", "drain"} <=> pc[v] \in {"lock", "drain"}
    BY <2>1 DEF Procs
  <2>3. InFlight'
    BY <2>1, <2>2, Zenon DEF Locks, InFlight, AfterDrain
  <2>4. OneWriter'
    BY <2>2 DEF Locks, OneWriter, AfterDrain
  <2>5. Free \notin Procs
    BY ProcAssumption DEF Procs
  <2>6. Holder'
    BY <2>1, <2>5 DEF Locks, Holder
  <2>7. QED BY <2>3, <2>4, <2>6 DEF Locks
<1>7. ASSUME UploaderWakes PROVE Locks'
  <2>1. /\ \A v \in Writers : pc'[v] \in {"lock", "drain"} <=> pc[v] \in {"lock", "drain"}
        /\ \A p \in Procs : pc'[p] = "drain" <=> pc[p] = "drain"
        /\ UNCHANGED <<inFlight, holder>>
        /\ at' = "none" <=> at = "none"
    BY <1>7, ProcAssumption DEF UploaderWakes, UploaderOnly, Types, Procs, vars,
        writerVars, bufVars, drainVars, backVars, boundVars
  <2>2. QED BY <2>1, LocksKept
<1>8. ASSUME StopChunkUploader PROVE Locks'
  <2>1. /\ \A v \in Writers : pc'[v] \in {"lock", "drain"} <=> pc[v] \in {"lock", "drain"}
        /\ \A p \in Procs : pc'[p] = "drain" <=> pc[p] = "drain"
        /\ UNCHANGED <<inFlight, holder>>
        /\ at' = "none" <=> at = "none"
    BY <1>8, ProcAssumption DEF StopChunkUploader, UploaderOnly, Types, Procs, vars,
        writerVars, bufVars, drainVars, backVars, boundVars
  <2>2. QED BY <2>1, LocksKept
<1>9. ASSUME GuestFlush PROVE Locks'
  <2>1. /\ \A v \in Writers : pc'[v] \in {"lock", "drain"} <=> pc[v] \in {"lock", "drain"}
        /\ \A p \in Procs : pc'[p] = "drain" <=> pc[p] = "drain"
        /\ UNCHANGED <<inFlight, holder>>
        /\ at' = "none" <=> at = "none"
    BY <1>9 DEF GuestFlush, Types, Procs, vars, writerVars, bufVars, drainVars, backVars,
        boundVars
  <2>2. QED BY <2>1, LocksKept
<1>10. ASSUME DrainFlush PROVE Locks'
  <2>1. /\ \A v \in Writers : pc'[v] \in {"lock", "drain"} <=> pc[v] \in {"lock", "drain"}
        /\ \A p \in Procs : pc'[p] = "drain" <=> pc[p] = "drain"
        /\ UNCHANGED <<inFlight, holder>>
        /\ at' = "none" <=> at = "none"
    BY <1>10 DEF DrainFlush, DrainOnly, Types, Procs, vars, writerVars, bufVars,
        drainVars, backVars, boundVars
  <2>2. QED BY <2>1, LocksKept
<1>11. ASSUME DrainRotate PROVE Locks'
  <2>1. /\ \A v \in Writers : pc'[v] \in {"lock", "drain"} <=> pc[v] \in {"lock", "drain"}
        /\ \A p \in Procs : pc'[p] = "drain" <=> pc[p] = "drain"
        /\ UNCHANGED <<inFlight, holder>>
        /\ at' = "none" <=> at = "none"
    BY <1>11 DEF DrainRotate, DrainOnly, Types, Procs, vars, writerVars, bufVars,
        drainVars, backVars, boundVars
  <2>2. QED BY <2>1, LocksKept
<1>12. ASSUME NEW j \in jobs, UploadChunk(j) PROVE Locks'
  <2>1. /\ \A v \in Writers : pc'[v] \in {"lock", "drain"} <=> pc[v] \in {"lock", "drain"}
        /\ \A p \in Procs : pc'[p] = "drain" <=> pc[p] = "drain"
        /\ UNCHANGED <<inFlight, holder>>
        /\ at' = "none" <=> at = "none"
    BY <1>12 DEF UploadChunk, Types, Procs, vars, writerVars, bufVars, drainVars,
        backVars, boundVars
  <2>2. QED BY <2>1, LocksKept
<1>13. ASSUME DrainSave PROVE Locks'
  <2>1. /\ \A v \in Writers : pc'[v] \in {"lock", "drain"} <=> pc[v] \in {"lock", "drain"}
        /\ \A p \in Procs : pc'[p] = "drain" <=> pc[p] = "drain"
        /\ UNCHANGED <<inFlight, holder>>
        /\ at' = "none" <=> at = "none"
    BY <1>13 DEF DrainSave, DrainOnly, Types, Procs, vars, writerVars, bufVars, drainVars,
        backVars, boundVars
  <2>2. QED BY <2>1, LocksKept
<1>14. ASSUME EndDrain PROVE Locks'
  <2>1. /\ at = "end" /\ at' = "none" /\ holder' = Free /\ holder \in Procs
        /\ pc[holder] = "drain" /\ Free \notin Procs
    BY <1>14, ProcAssumption DEF EndDrain, Locks, Holder, Procs
  <2>2. /\ pc'[holder] \notin {"lock", "drain"}
        /\ \A q \in Procs : q # holder => pc'[q] = pc[q]
    BY <1>14, <2>1 DEF EndDrain, Return, Types
  <2>3. Holder'
    <3>1. \A q \in Procs : pc'[q] # "drain"
      BY <2>1, <2>2 DEF Locks, Holder
    <3>2. QED BY <2>1, <3>1 DEF Holder
  <2>4. OneWriter'
    BY <2>2 DEF Locks, OneWriter, AfterDrain, Procs
  <2>5. CASE holder = Uploader
    <3>1. \A w \in Writers : pc'[w] = pc[w]
      BY <2>2, <2>5, ProcAssumption DEF Procs
    <3>2. inFlight' = inFlight
      BY <1>14, <2>5 DEF EndDrain
    <3>3. InFlight'
      BY <3>1, <3>2, Zenon DEF Locks, InFlight, AfterDrain
    <3>4. QED BY <2>3, <2>4, <3>3 DEF Locks
  <2>6. CASE holder # Uploader
    <3>1. holder \in Writers /\ AfterDrain(holder) /\ inFlight' = FALSE
      BY <1>14, <2>1, <2>6 DEF EndDrain, AfterDrain, Procs
    <3>2. \A w \in Writers : w # holder => ~AfterDrain(w)
      BY <3>1 DEF Locks, OneWriter
    <3>3. \A w \in Writers : pc'[w] \notin {"lock", "drain"}
      BY <2>2, <3>2 DEF AfterDrain, Procs
    <3>4. InFlight'
      BY <3>1, <3>3, Zenon DEF InFlight, AfterDrain
    <3>5. QED BY <2>3, <2>4, <3>4 DEF Locks
  <2>7. QED BY <2>5, <2>6
<1>15. ASSUME UNCHANGED vars PROVE Locks'
  <2>1. /\ \A v \in Writers : pc'[v] \in {"lock", "drain"} <=> pc[v] \in {"lock", "drain"}
        /\ \A p \in Procs : pc'[p] = "drain" <=> pc[p] = "drain"
        /\ UNCHANGED <<inFlight, holder>>
        /\ at' = "none" <=> at = "none"
    BY <1>15 DEF vars, Types, Procs, vars, writerVars, bufVars, drainVars, backVars,
        boundVars
  <2>2. QED BY <2>1, LocksKept
<1>16. QED BY <1>1, <1>2, <1>3, <1>4, <1>5, <1>6, <1>7, <1>8, <1>9, <1>10, <1>11, <1>12,
    <1>13, <1>14, <1>15 DEF Next, WriterStep, DrainStep

\* Every step keeps what is known of the requests in progress.
LEMMA RequestsStep ==
    ASSUME Types, Locks, Requests, [Next]_vars
    PROVE  Requests'
<1>1. ASSUME NEW w \in Writers, NEW R \in SUBSET Blocks, StartWrite(w, R) PROVE Requests'
  <2>1. Cardinality(R) \in Nat
    BY SizeAssumption, FS_Subset, FS_CardinalityType
  <2>2. QED BY <1>1, <2>1 DEF StartWrite, Types, Requests, Procs
<1>2. ASSUME NEW w \in Writers, PublishBlock(w) PROVE Requests'
  <2> DEFINE b == Min(left[w])
  <2>1. b \in left[w] /\ IsFiniteSet(left[w])
    BY <1>2, SizeAssumption, LeastNumber, FS_Subset DEF PublishBlock, Types
  <2>2. Cardinality(left[w] \ {b}) = Cardinality(left[w]) - 1 /\ Cardinality(left[w]) \in Nat
    <3> HIDE DEF b
    <3>1. QED BY <2>1, FS_RemoveElement, FS_CardinalityType
  <2>3. b \in Blocks /\ pc[w] = "publish" /\ uncounted[w] = size[w] - Cardinality(left[w])
    BY <1>2, <2>1 DEF PublishBlock, Types, Requests
  <2>4. \A v \in Writers : v # w => /\ pc'[v] = pc[v] /\ size'[v] = size[v]
                                    /\ left'[v] = left[v] /\ uncounted'[v] = uncounted[v]
    BY <1>2 DEF PublishBlock, Types, Procs
  <2>5. \/ pc'[w] = "idle" /\ size'[w] = 0 /\ uncounted'[w] = 0 /\ left'[w] = {}
        \/ /\ pc'[w] = "publish" /\ size'[w] = size[w] /\ uncounted'[w] = uncounted[w] + 1
           /\ left'[w] = left[w] \ {b}
    BY <1>2 DEF PublishBlock, Types, Procs
  <2> HIDE DEF b
  <2>6. size[w] \in Nat
    BY DEF Types
  <2>7. pc'[w] = "publish" => uncounted'[w] = size'[w] - Cardinality(left'[w])
    <3>1. ASSUME pc'[w] = "publish" PROVE uncounted'[w] = size'[w] - Cardinality(left'[w])
      <4>1. size'[w] = size[w] /\ uncounted'[w] = uncounted[w] + 1 /\ left'[w] = left[w] \ {b}
        BY <2>5, <3>1
      <4>2. Cardinality(left'[w]) = Cardinality(left[w]) - 1
        BY <2>2, <4>1
      <4> DEFINE n == Cardinality(left[w])
      <4>3. n \in Nat /\ uncounted[w] = size[w] - n /\ Cardinality(left'[w]) = n - 1
        BY <2>2, <2>3, <4>2
      <4> HIDE DEF n
      <4>4. QED BY <2>6, <4>1, <4>3
    <3>2. QED BY <3>1
  <2>8. QED BY <2>4, <2>5, <2>7 DEF Requests
<1>3. ASSUME NEW w \in Writers, CountWrite(w) PROVE Requests'
  BY <1>3 DEF CountWrite, Types, Requests, Procs, vars, writerVars, bufVars, drainVars,
      backVars, boundVars
<1>4. ASSUME NEW w \in Writers, Gate(w) PROVE Requests'
  BY <1>4 DEF Gate, Return, WriteOnly, Types, Requests, Procs, vars, writerVars, bufVars,
      drainVars, backVars, boundVars
<1>5. ASSUME NEW w \in Writers, Wait(w) PROVE Requests'
  BY <1>5 DEF Wait, Return, WriteOnly, Types, Requests, Procs, vars, writerVars, bufVars,
      drainVars, backVars, boundVars
<1>6. ASSUME NEW p \in Procs, LockDrain(p) PROVE Requests'
  BY <1>6 DEF LockDrain, Types, Requests, Procs
<1>7. ASSUME UploaderWakes PROVE Requests'
  BY <1>7, ProcAssumption DEF UploaderWakes, UploaderOnly, Types, Requests, Procs, vars,
      writerVars, bufVars, drainVars, backVars, boundVars
<1>8. ASSUME StopChunkUploader PROVE Requests'
  BY <1>8, ProcAssumption DEF StopChunkUploader, UploaderOnly, Types, Requests, Procs,
      vars, writerVars, bufVars, drainVars, backVars, boundVars
<1>9. ASSUME GuestFlush PROVE Requests'
  BY <1>9 DEF GuestFlush, Types, Requests, Procs, vars, writerVars, bufVars, drainVars,
      backVars, boundVars
<1>10. ASSUME DrainFlush PROVE Requests'
  BY <1>10 DEF DrainFlush, DrainOnly, Types, Requests, Procs, vars, writerVars, bufVars,
      drainVars, backVars, boundVars
<1>11. ASSUME DrainRotate PROVE Requests'
  BY <1>11 DEF DrainRotate, DrainOnly, Types, Requests, Procs, vars, writerVars, bufVars,
      drainVars, backVars, boundVars
<1>12. ASSUME NEW j \in jobs, UploadChunk(j) PROVE Requests'
  BY <1>12 DEF UploadChunk, Types, Requests, Procs, vars, writerVars, bufVars, drainVars,
      backVars, boundVars
<1>13. ASSUME DrainSave PROVE Requests'
  BY <1>13 DEF DrainSave, DrainOnly, Types, Requests, Procs, vars, writerVars, bufVars,
      drainVars, backVars, boundVars
<1>14. ASSUME EndDrain PROVE Requests'
  <2>1. holder \in Procs /\ pc[holder] = "drain"
    BY <1>14 DEF EndDrain, Locks, Holder
  <2>2. \A w \in Writers : /\ w # holder => pc'[w] = pc[w] /\ size'[w] = size[w]
                           /\ w = holder => pc'[w] # "publish" /\ (pc'[w] = "idle" => size'[w] = 0)
    BY <1>14, <2>1, ProcAssumption DEF EndDrain, Return, Types, Procs
  <2>3. left' = left /\ uncounted' = uncounted
    BY <1>14 DEF EndDrain
  <2>4. ASSUME NEW w \in Writers, w # holder PROVE
            /\ pc'[w] = "publish" => uncounted'[w] = size'[w] - Cardinality(left'[w])
            /\ pc'[w] # "publish" => uncounted'[w] = 0 /\ left'[w] = {}
            /\ pc'[w] = "idle" => size'[w] = 0
    <3>1. /\ pc'[w] = pc[w] /\ size'[w] = size[w]
          /\ left'[w] = left[w] /\ uncounted'[w] = uncounted[w]
      BY <2>2, <2>3, <2>4
    <3>2. QED BY <3>1, Zenon DEF Requests
  <2>5. ASSUME NEW w \in Writers, w = holder PROVE
            /\ pc'[w] = "publish" => uncounted'[w] = size'[w] - Cardinality(left'[w])
            /\ pc'[w] # "publish" => uncounted'[w] = 0 /\ left'[w] = {}
            /\ pc'[w] = "idle" => size'[w] = 0
    BY <2>1, <2>2, <2>3, <2>5 DEF Requests
  <2>6. QED BY <2>4, <2>5 DEF Requests
<1>15. ASSUME UNCHANGED vars PROVE Requests'
  BY <1>15 DEF vars, Types, Requests, Procs, vars, writerVars, bufVars, drainVars,
      backVars, boundVars
<1>16. QED BY <1>1, <1>2, <1>3, <1>4, <1>5, <1>6, <1>7, <1>8, <1>9, <1>10, <1>11, <1>12,
    <1>13, <1>14, <1>15 DEF Next, WriterStep, DrainStep

Counts == CounterExact /\ PublishedBounded

\* The sums are numbers, and a request holds what it has not counted.
LEMMA SumTypes ==
    ASSUME Types, Requests
    PROVE  /\ Published \in Nat /\ Uncounted \in Nat /\ Total(Held, Writers) \in Int
           /\ \A w \in Writers : Held[w] \in Int /\ uncounted[w] \in Int /\ uncounted[w] <= Held[w]
<1>1. (\A b \in Blocks : writes[b] \in Nat) /\ (\A b \in Blocks : pending[b] \in Nat)
  BY DEF Types
<1>2. Total(writes, Blocks) \in Nat /\ Total(pending, Blocks) \in Nat
  BY <1>1, SizeAssumption, TotalNat
<1>3. \A w \in Writers : uncounted[w] \in Nat
  BY DEF Types
<1>4. Total(uncounted, Writers) \in Nat
  BY <1>3, SizeAssumption, TotalNat
<1>5. \A w \in Writers : Held[w] \in Int /\ uncounted[w] \in Int /\ uncounted[w] <= Held[w]
  <2>1. TAKE w \in Writers
  <2>2. Cardinality(left[w]) \in Nat /\ Cardinality({}) = 0
    BY SizeAssumption, FS_Subset, FS_CardinalityType, FS_EmptySet DEF Types
  <2>3. Held[w] = size[w] - Cardinality(left[w]) /\ size[w] \in Nat /\ uncounted[w] \in Nat
    BY DEF Types, Held
  <2>4. CASE pc[w] = "publish"
    BY <2>2, <2>3, <2>4 DEF Requests
  <2>5. CASE pc[w] # "publish"
    <3>1. uncounted[w] = 0 /\ Cardinality(left[w]) = 0
      BY <2>2, <2>5 DEF Requests
    <3>2. QED BY <2>3, <3>1
  <2>6. QED BY <2>4, <2>5
<1>6. \A w \in Writers : Held[w] \in Int
  BY <1>5
<1> HIDE DEF Held
<1>7. Total(Held, Writers) \in Int
  BY <1>6, SizeAssumption, TotalType
<1>8. QED BY <1>2, <1>4, <1>5, <1>7 DEF Published, Uncounted

\* A step that neither counts nor changes what is buffered or held.
LEMMA CountsKept ==
    ASSUME Types, Requests, Counts, Published' = Published,
           UNCHANGED <<uncounted, counter, excess, lost>>,
           \A w \in Writers : Held'[w] = Held[w]
    PROVE  Counts'
<1>1. Uncounted' = Uncounted
  BY DEF Uncounted
<1>2. CounterExact'
  BY <1>1 DEF Counts, CounterExact
<1>3. \A w \in Writers : Held[w] \in Int /\ Held'[w] = Held[w]
  BY SumTypes
<1>4. Total(Held', Writers) = Total(Held, Writers)
  BY <1>3, SizeAssumption, TotalSame
<1>5. PublishedBounded'
  BY <1>4 DEF Counts, PublishedBounded
<1>6. QED BY <1>2, <1>5 DEF Counts

\* A flush moves records from one buffer to the other (flushLocked).
LEMMA FlushKeeps ==
    ASSUME Types, NEW S, FlushRecords(S)
    PROVE  Published' = Published
<1> DEFINE k == [b \in Blocks |-> writes[b] + pending[b]]
           w2 == writes'
           p2 == pending'
<1>0. IsFiniteSet(Blocks)
  BY SizeAssumption
<1>1. \A b \in Blocks : writes[b] \in Int /\ pending[b] \in Int /\ k[b] = writes[b] + pending[b]
  BY DEF Types
<1>2. \A b \in Blocks : w2[b] \in Int /\ p2[b] \in Int /\ k[b] = w2[b] + p2[b]
  BY DEF Types, FlushRecords
<1> HIDE DEF k, w2, p2
<1>3. Total(k, Blocks) = Total(writes, Blocks) + Total(pending, Blocks)
  BY <1>1, <1>0, TotalAdds
<1>4. Total(k, Blocks) = Total(w2, Blocks) + Total(p2, Blocks)
  BY <1>2, <1>0, TotalAdds
<1>5. QED BY <1>3, <1>4 DEF w2, p2, Published

\* Letting a request go when the counter is within the watermark: what is
\* buffered beyond it belongs to requests that have not been counted
\* (awaitBackpressure).
LEMMA ReturnsUnderMark ==
    ASSUME Types, Requests, Counts, NEW w \in Writers, ~Over(High), pc[w] # "publish",
           Return(w, "none"), UNCHANGED <<left, uncounted, writes, pending, counter, lost>>
    PROVE  Counts'
<1>1. Published' = Published /\ Uncounted' = Uncounted /\ counter' = counter /\ lost' = lost
  BY DEF Published, Uncounted
<1>2. CounterExact'
  BY <1>1 DEF Counts, CounterExact
<1>3. /\ Published \in Nat /\ Uncounted \in Nat
      /\ \A v \in Writers : Held[v] \in Int /\ uncounted[v] \in Int /\ uncounted[v] <= Held[v]
  BY SumTypes
<1> DEFINE h2 == Held'
<1>4. \A v \in Writers : uncounted[v] \in Int /\ h2[v] \in Int /\ uncounted[v] <= h2[v]
  <2>1. TAKE v \in Writers
  <2>2. CASE v = w
    <3>1. h2[v] = 0 /\ uncounted[v] = 0
      <4>1. uncounted[w] = 0 /\ left[w] = {} /\ left' = left
        BY DEF Requests
      <4>2. size'[w] = 0
        BY DEF Return, Types
      <4>3. h2[w] = size'[w] - Cardinality(left'[w])
        BY DEF Held
      <4>4. QED BY <2>2, <4>1, <4>2, <4>3, FS_EmptySet
    <3>2. QED BY <3>1
  <2>3. CASE v # w
    <3>1. h2[v] = Held[v]
      BY <2>3 DEF Held, Return, Types
    <3>2. QED BY <3>1, <1>3
  <2>4. QED BY <2>2, <2>3
<1>5. \A v \in Writers : h2[v] \in Int
  BY <1>4
<1> HIDE DEF h2
<1>6. Total(uncounted, Writers) <= Total(h2, Writers) /\ Total(h2, Writers) \in Int
  BY <1>4, <1>5, SizeAssumption, TotalMonotone, TotalType
<1>7. counter \in Int /\ lost \in Nat /\ excess \in Nat /\ excess' = excess /\ High \in Nat
  BY SizeAssumption DEF Types, Return
<1>8. counter = Published - Uncounted - lost /\ counter <= High
  BY <1>7 DEF Counts, CounterExact, Over
<1>9. Published <= High + Total(h2, Writers) + excess + lost
  <2> DEFINE t == Total(h2, Writers)
  <2>1. Uncounted <= t /\ t \in Int
    BY <1>6 DEF Uncounted
  <2> HIDE DEF t
  <2>2. Published <= High + t + excess + lost
    BY <1>3, <1>7, <1>8, <2>1
  <2>3. QED BY <2>2 DEF t
<1>10. PublishedBounded'
  BY <1>1, <1>7, <1>9 DEF PublishedBounded, h2
<1>11. QED BY <1>2, <1>10 DEF Counts

\* What one writer's part changes, the sums of all writers change by.
LEMMA WriterPoint ==
    ASSUME Types, Requests, NEW w \in Writers,
           \A v \in Writers : uncounted'[v] \in Int /\ Held'[v] \in Int,
           \A v \in Writers : v # w => uncounted'[v] = uncounted[v] /\ Held'[v] = Held[v]
    PROVE  /\ Uncounted' = Uncounted - uncounted[w] + uncounted'[w]
           /\ Total(Held, Writers)' = Total(Held, Writers) - Held[w] + Held'[w]
           /\ Uncounted \in Int /\ Total(Held, Writers) \in Int
<1>1. IsFiniteSet(Writers)
  BY SizeAssumption
<1> DEFINE u2 == uncounted'
           h1 == Held
           h2 == Held'
<1>2. \A v \in Writers : h1[v] \in Int /\ uncounted[v] \in Int
  BY SumTypes
<1>3. \A v \in Writers : uncounted[v] \in Int /\ u2[v] \in Int /\ (v # w => u2[v] = uncounted[v])
  BY <1>2
<1>4. \A v \in Writers : h1[v] \in Int /\ h2[v] \in Int /\ (v # w => h2[v] = h1[v])
  BY <1>2
<1> HIDE DEF u2, h1, h2
<1>5. /\ Total(u2, Writers) = Total(uncounted, Writers) - uncounted[w] + u2[w]
      /\ Total(uncounted, Writers) \in Int
  BY <1>1, <1>3, TotalPoint
<1>6. /\ Total(h2, Writers) = Total(h1, Writers) - h1[w] + h2[w]
      /\ Total(h1, Writers) \in Int
  BY <1>1, <1>4, TotalPoint
<1>7. QED BY <1>5, <1>6 DEF u2, h1, h2, Uncounted

\* What a request holds after its part of the state has changed.
LEMMA HeldAt ==
    ASSUME Types, NEW w \in Writers
    PROVE  /\ Held[w] = size[w] - Cardinality(left[w])
           /\ Held'[w] = size'[w] - Cardinality(left'[w])
           /\ IsFiniteSet(left[w]) /\ Cardinality(left[w]) \in Nat /\ Cardinality({}) = 0
<1>1. IsFiniteSet(left[w])
  BY SizeAssumption, FS_Subset DEF Types
<1>2. QED BY <1>1, FS_CardinalityType, FS_EmptySet DEF Held

\* A block is published: one more record, not counted yet (writeOneBlockLocked).
LEMMA BlockPublished ==
    ASSUME Types, Requests, Counts, NEW w \in Writers, NEW b \in Blocks, b \in left[w],
           writes' = [writes EXCEPT ![b] = @ + 1],
           uncounted' = [uncounted EXCEPT ![w] = @ + 1],
           left' = [left EXCEPT ![w] = @ \ {b}],
           UNCHANGED <<size, lost, pending, counter, excess>>
    PROVE  Counts'
<1>1. uncounted'[w] = uncounted[w] + 1 /\ left'[w] = left[w] \ {b} /\ size'[w] = size[w]
      /\ uncounted[w] \in Nat /\ size[w] \in Nat
  BY DEF Types
<1>2. Held'[w] = Held[w] + 1 /\ Held[w] \in Int
  <2> DEFINE n == Cardinality(left[w])
  <2>1. Cardinality(left[w] \ {b}) = n - 1 /\ n \in Nat
    BY HeldAt, FS_RemoveElement
  <2>2. Cardinality(left'[w]) = n - 1
    BY <1>1, <2>1
  <2>3. Held[w] = size[w] - n /\ Held'[w] = size'[w] - Cardinality(left'[w])
    BY HeldAt
  <2> HIDE DEF n
  <2>4. QED BY <1>1, <2>1, <2>2, <2>3
<1>3. \A v \in Writers : /\ v # w => uncounted'[v] = uncounted[v] /\ Held'[v] = Held[v]
                         /\ uncounted'[v] \in Int /\ Held'[v] \in Int
  <2>1. TAKE v \in Writers
  <2>2. CASE v = w
    BY <1>1, <1>2, <2>2
  <2>3. CASE v # w
    <3>1. uncounted'[v] = uncounted[v] /\ left'[v] = left[v] /\ size'[v] = size[v]
      BY <2>3 DEF Types
    <3>2. Held'[v] = Held[v]
      BY <3>1, HeldAt, Zenon
    <3>3. Held[v] \in Int /\ uncounted[v] \in Int
      BY SumTypes
    <3>4. QED BY <2>3, <3>1, <3>2, <3>3
  <2>4. QED BY <2>2, <2>3
<1>4. /\ Uncounted' = Uncounted - uncounted[w] + uncounted'[w]
      /\ Total(Held, Writers)' = Total(Held, Writers) - Held[w] + Held'[w]
      /\ Uncounted \in Int /\ Total(Held, Writers) \in Int
  BY <1>3, WriterPoint
<1>5. Published' = Published + 1 /\ Published \in Nat
  <2> DEFINE w1 == writes
             w2 == writes'
  <2>1. IsFiniteSet(Blocks)
    BY SizeAssumption
  <2>2. \A x \in Blocks : w1[x] \in Int /\ w2[x] \in Int /\ (x # b => w2[x] = w1[x])
    BY DEF Types
  <2>3. w2[b] = w1[b] + 1 /\ w1[b] \in Nat
    BY DEF Types
  <2> HIDE DEF w1, w2
  <2>4. /\ Total(w2, Blocks) = Total(w1, Blocks) - w1[b] + w2[b]
        /\ Total(w1, Blocks) \in Int
    BY <2>1, <2>2, TotalPoint
  <2>5. \A x \in Blocks : pending[x] \in Nat
    BY DEF Types
  <2>6. Total(pending, Blocks) \in Nat
    BY <2>1, <2>5, TotalNat
  <2>7. Published' = Total(w2, Blocks) + Total(pending, Blocks)
    BY DEF Published, w2
  <2>8. Published = Total(w1, Blocks) + Total(pending, Blocks) /\ Published \in Nat
    BY SumTypes DEF Published, w1
  <2>9. QED BY <2>3, <2>4, <2>6, <2>7, <2>8
<1>6. counter \in Int /\ lost \in Nat /\ excess \in Nat /\ High \in Nat
  BY SizeAssumption DEF Types
<1>7. CounterExact'
  <2>1. Uncounted' = Uncounted + 1
    BY <1>1, <1>4
  <2>2. counter = Published - Uncounted - lost
    BY DEF Counts, CounterExact
  <2>3. counter = (Published + 1) - (Uncounted + 1) - lost
    BY <1>4, <1>5, <1>6, <2>2
  <2>4. QED BY <1>5, <2>1, <2>3 DEF CounterExact
<1>8. PublishedBounded'
  BY <1>2, <1>4, <1>5, <1>6 DEF Counts, PublishedBounded
<1>9. QED BY <1>7, <1>8 DEF Counts

\* The request ends half way: what it has published will not be counted.
LEMMA RequestDropped ==
    ASSUME Types, Requests, Counts, NEW w \in Writers, pc[w] = "publish",
           lost' = lost + uncounted[w],
           uncounted' = [uncounted EXCEPT ![w] = 0],
           left' = [left EXCEPT ![w] = {}],
           size' = [size EXCEPT ![w] = 0],
           UNCHANGED <<writes, pending, counter, excess>>
    PROVE  Counts'
<1>1. uncounted'[w] = 0 /\ left'[w] = {} /\ size'[w] = 0 /\ uncounted[w] \in Nat
  BY DEF Types
<1>2. Held'[w] = 0 /\ Held[w] = uncounted[w]
  <2>1. Held[w] = uncounted[w]
    BY HeldAt, Zenon DEF Requests
  <2>2. Cardinality(left'[w]) = 0
    BY <1>1, HeldAt
  <2>3. Held'[w] = size'[w] - Cardinality(left'[w])
    BY HeldAt
  <2>4. Held'[w] = 0 - 0
    BY <1>1, <2>2, <2>3, Zenon
  <2>5. QED BY <2>1, <2>4
<1>3. \A v \in Writers : /\ v # w => uncounted'[v] = uncounted[v] /\ Held'[v] = Held[v]
                         /\ uncounted'[v] \in Int /\ Held'[v] \in Int
  <2>1. TAKE v \in Writers
  <2>2. CASE v = w
    BY <1>1, <1>2, <2>2
  <2>3. CASE v # w
    <3>1. uncounted'[v] = uncounted[v] /\ left'[v] = left[v] /\ size'[v] = size[v]
      BY <2>3 DEF Types
    <3>2. Held'[v] = Held[v]
      BY <3>1, HeldAt, Zenon
    <3>3. Held[v] \in Int /\ uncounted[v] \in Int
      BY SumTypes
    <3>4. QED BY <2>3, <3>1, <3>2, <3>3
  <2>4. QED BY <2>2, <2>3
<1>4. /\ Uncounted' = Uncounted - uncounted[w] + uncounted'[w]
      /\ Total(Held, Writers)' = Total(Held, Writers) - Held[w] + Held'[w]
      /\ Uncounted \in Int /\ Total(Held, Writers) \in Int
  BY <1>3, WriterPoint
<1>5. Published' = Published /\ Published \in Nat
  BY SumTypes DEF Published
<1>6. counter \in Int /\ lost \in Nat /\ excess \in Nat /\ High \in Nat
  BY SizeAssumption DEF Types
<1>7. CounterExact'
  BY <1>1, <1>4, <1>5, <1>6 DEF Counts, CounterExact
<1>8. PublishedBounded'
  BY <1>1, <1>2, <1>4, <1>5, <1>6 DEF Counts, PublishedBounded
<1>9. QED BY <1>7, <1>8 DEF Counts

\* The gate fails a request after its drains have failed: its blocks stay.
LEMMA FailedRequest ==
    ASSUME Types, Requests, Counts, NEW w \in Writers, pc[w] = "drain", err # "none",
           Return(w, err), UNCHANGED <<writes, pending, left, uncounted, counter, lost>>
    PROVE  Counts'
<1>1. /\ uncounted'[w] = uncounted[w] /\ uncounted[w] = 0 /\ left'[w] = left[w] /\ left[w] = {}
      /\ size'[w] = 0 /\ size[w] \in Nat /\ excess' = excess + size[w]
  BY DEF Types, Requests, Return
<1>2. Held'[w] = 0 /\ Held[w] = size[w]
  <2>1. Cardinality(left[w]) = 0 /\ Cardinality(left'[w]) = 0
    BY <1>1, HeldAt
  <2>2. /\ Held[w] = size[w] - Cardinality(left[w])
        /\ Held'[w] = size'[w] - Cardinality(left'[w])
    BY HeldAt
  <2>3. QED BY <1>1, <2>1, <2>2
<1>3. \A v \in Writers : /\ v # w => uncounted'[v] = uncounted[v] /\ Held'[v] = Held[v]
                         /\ uncounted'[v] \in Int /\ Held'[v] \in Int
  <2>1. TAKE v \in Writers
  <2>2. CASE v = w
    BY <1>1, <1>2, <2>2
  <2>3. CASE v # w
    <3>1. uncounted'[v] = uncounted[v] /\ left'[v] = left[v] /\ size'[v] = size[v]
      BY <2>3 DEF Types, Return
    <3>2. Held'[v] = Held[v]
      BY <3>1, HeldAt, Zenon
    <3>3. Held[v] \in Int /\ uncounted[v] \in Int
      BY SumTypes
    <3>4. QED BY <2>3, <3>1, <3>2, <3>3
  <2>4. QED BY <2>2, <2>3
<1>4. /\ Uncounted' = Uncounted - uncounted[w] + uncounted'[w]
      /\ Total(Held, Writers)' = Total(Held, Writers) - Held[w] + Held'[w]
      /\ Uncounted \in Int /\ Total(Held, Writers) \in Int
  BY <1>3, WriterPoint
<1>5. Published' = Published /\ Published \in Nat
  BY SumTypes DEF Published
<1>6. counter \in Int /\ lost \in Nat /\ excess \in Nat /\ High \in Nat
  BY SizeAssumption DEF Types
<1>7. CounterExact'
  BY <1>1, <1>4, <1>5, <1>6 DEF Counts, CounterExact
<1>8. PublishedBounded'
  BY <1>1, <1>2, <1>4, <1>5, <1>6 DEF Counts, PublishedBounded
<1>9. QED BY <1>7, <1>8 DEF Counts

\* Every step keeps the counter exact and the buffer bounded.
LEMMA CountsStep ==
    ASSUME Types, Locks, Requests, Counts, [Next]_vars
    PROVE  Counts'
<1>1. ASSUME NEW w \in Writers, NEW R \in SUBSET Blocks, StartWrite(w, R) PROVE Counts'
  <2>1. UNCHANGED <<writes, pending, uncounted, counter, excess, lost>> /\ pc[w] = "idle"
    BY <1>1 DEF StartWrite, writerVars, bufVars, drainVars, backVars, boundVars
  <2>2. Published' = Published
    BY <2>1 DEF Published
  <2>3. \A v \in Writers : Held'[v] = Held[v]
    <3>1. TAKE v \in Writers
    <3>2. CASE v = w
      <4>1. size'[w] = Cardinality(R) /\ left'[w] = R /\ size[w] = 0 /\ left[w] = {}
        BY <1>1, <2>1 DEF StartWrite, Types, Requests
      <4>2. Cardinality(R) \in Nat /\ Cardinality({}) = 0
        BY SizeAssumption, FS_Subset, FS_CardinalityType, FS_EmptySet
      <4>3. Held'[w] = size'[w] - Cardinality(left'[w]) /\ Held[w] = size[w] - Cardinality(left[w])
        BY DEF Held
      <4>4. Cardinality(left'[w]) = size'[w] /\ Cardinality(left[w]) = 0
        BY <4>1, <4>2
      <4>5. QED BY <3>2, <4>1, <4>2, <4>3, <4>4
    <3>3. CASE v # w
      <4>1. size'[v] = size[v] /\ left'[v] = left[v]
        BY <1>1, <3>3 DEF StartWrite, Types
      <4>2. Held'[v] = size'[v] - Cardinality(left'[v]) /\ Held[v] = size[v] - Cardinality(left[v])
        BY DEF Held
      <4>3. QED BY <4>1, <4>2, Zenon
    <3>4. QED BY <3>2, <3>3
  <2>4. QED BY <2>1, <2>2, <2>3, CountsKept
<1>2. ASSUME NEW w \in Writers, PublishBlock(w) PROVE Counts'
  <2> DEFINE b == Min(left[w])
  <2>1. b \in left[w] /\ b \in Blocks
    BY <1>2, SizeAssumption, LeastNumber DEF PublishBlock, Types
  <2>2. CASE /\ writes' = [writes EXCEPT ![b] = @ + 1]
             /\ uncounted' = [uncounted EXCEPT ![w] = @ + 1]
             /\ left' = [left EXCEPT ![w] = @ \ {b}]
             /\ UNCHANGED <<pc, size, lost, faults>>
    <3> HIDE DEF b
    <3>1. UNCHANGED <<pending, counter, excess>>
      BY <1>2 DEF PublishBlock, writerVars, bufVars, drainVars, backVars, boundVars
    <3>2. QED BY <2>1, <2>2, <3>1, BlockPublished
  <2>3. CASE Fault("rmw") /\ lost' = lost + uncounted[w] /\ uncounted' = [uncounted EXCEPT ![w] = 0]
             /\ left' = [left EXCEPT ![w] = {}] /\ size' = [size EXCEPT ![w] = 0]
             /\ UNCHANGED writes
    <3>1. UNCHANGED <<pending, counter, excess>> /\ pc[w] = "publish"
      BY <1>2 DEF PublishBlock, writerVars, bufVars, drainVars, backVars, boundVars
    <3>2. QED BY <2>3, <3>1, RequestDropped
  <2>4. QED BY <1>2, <2>2, <2>3 DEF PublishBlock
<1>3. ASSUME NEW w \in Writers, CountWrite(w) PROVE Counts'
  <2>0. IsFiniteSet(Writers)
    BY SizeAssumption
  <2>1. /\ UNCHANGED <<writes, pending, left, size, excess, lost>>
        /\ counter' = counter + uncounted[w] /\ uncounted' = [uncounted EXCEPT ![w] = 0]
    BY <1>3 DEF CountWrite, writerVars, bufVars, drainVars, backVars, boundVars
  <2>2. Published' = Published /\ Held' = Held
    BY <2>1 DEF Published, Held
  <2> DEFINE u2 == uncounted'
  <2>3. \A v \in Writers : /\ uncounted[v] \in Int /\ u2[v] \in Int
                           /\ v # w => u2[v] = uncounted[v]
    BY <2>1 DEF Types
  <2>4. u2[w] = 0 /\ uncounted[w] \in Nat
    BY <2>1 DEF Types
  <2> HIDE DEF u2
  <2>5. /\ Total(u2, Writers) = Total(uncounted, Writers) - uncounted[w] + u2[w]
        /\ Total(uncounted, Writers) \in Int
    BY <2>3, <2>0, TotalPoint
  <2>6. Uncounted' = Uncounted - uncounted[w] /\ Uncounted \in Int
    BY <2>4, <2>5 DEF Uncounted, u2
  <2>7. Published \in Nat /\ lost \in Nat /\ counter \in Int
    BY SumTypes DEF Types
  <2>8. CounterExact'
    BY <2>1, <2>2, <2>4, <2>6, <2>7 DEF Counts, CounterExact
  <2>9. PublishedBounded'
    BY <2>1, <2>2 DEF Counts, PublishedBounded
  <2>10. QED BY <2>8, <2>9 DEF Counts
<1>4. ASSUME NEW w \in Writers, Gate(w) PROVE Counts'
  <2>1. UNCHANGED <<left, uncounted, writes, pending, counter, lost>> /\ pc[w] # "publish"
    BY <1>4 DEF Gate, WriteOnly, writerVars, bufVars, drainVars, backVars, boundVars
  <2>2. CASE ~Over(High) /\ Return(w, "none")
    BY <2>1, <2>2, ReturnsUnderMark
  <2>3. CASE UNCHANGED <<size, failures, excess>>
    <3>1. Published' = Published /\ Held' = Held
      BY <2>1, <2>3 DEF Published, Held
    <3>2. QED BY <2>1, <2>3, <3>1, CountsKept
  <2>4. QED BY <1>4, <2>2, <2>3 DEF Gate
<1>5. ASSUME NEW w \in Writers, Wait(w) PROVE Counts'
  <2>1. UNCHANGED <<left, uncounted, writes, pending, counter, lost>> /\ pc[w] # "publish"
    BY <1>5 DEF Wait, WriteOnly, writerVars, bufVars, drainVars, backVars, boundVars
  <2>2. CASE ~Over(Low) /\ Return(w, "none")
    <3>1. ~Over(High)
      BY <2>2, SizeAssumption DEF Over, Low, Types
    <3>2. QED BY <2>1, <2>2, <3>1, ReturnsUnderMark
  <2>3. CASE UNCHANGED <<size, failures, excess>>
    <3>1. Published' = Published /\ Held' = Held
      BY <2>1, <2>3 DEF Published, Held
    <3>2. QED BY <2>1, <2>3, <3>1, CountsKept
  <2>4. QED BY <1>5, <2>2, <2>3 DEF Wait
<1>6. ASSUME NEW p \in Procs, LockDrain(p) PROVE Counts'
  <2>1. UNCHANGED <<writes, pending, left, size, uncounted, counter, excess, lost>>
    BY <1>6 DEF LockDrain, writerVars, bufVars, drainVars, backVars, boundVars
  <2>2. Published' = Published /\ Held' = Held
    BY <2>1 DEF Published, Held
  <2>3. QED BY <2>1, <2>2, CountsKept
<1>7. ASSUME UploaderWakes PROVE Counts'
  <2>1. UNCHANGED <<writes, pending, left, size, uncounted, counter, excess, lost>>
    BY <1>7 DEF UploaderWakes, UploaderOnly, writerVars, bufVars, drainVars, backVars,
        boundVars
  <2>2. Published' = Published /\ Held' = Held
    BY <2>1 DEF Published, Held
  <2>3. QED BY <2>1, <2>2, CountsKept
<1>8. ASSUME StopChunkUploader PROVE Counts'
  <2>1. UNCHANGED <<writes, pending, left, size, uncounted, counter, excess, lost>>
    BY <1>8 DEF StopChunkUploader, UploaderOnly, writerVars, bufVars, drainVars, backVars,
        boundVars
  <2>2. Published' = Published /\ Held' = Held
    BY <2>1 DEF Published, Held
  <2>3. QED BY <2>1, <2>2, CountsKept
<1>9. ASSUME GuestFlush PROVE Counts'
  <2>1. UNCHANGED <<left, size, uncounted, counter, excess, lost>>
    BY <1>9 DEF GuestFlush, DrainOnly, writerVars, bufVars, drainVars, backVars, boundVars
  <2>2. Held' = Held
    BY <2>1 DEF Held
  <2>3. (\E S : FlushRecords(S)) \/ UNCHANGED <<writes, pending>>
    BY <1>9 DEF GuestFlush
  <2>4. Published' = Published
    <3>1. CASE \E S : FlushRecords(S)
      BY <3>1, FlushKeeps
    <3>2. CASE UNCHANGED <<writes, pending>>
      BY <3>2 DEF Published
    <3>3. QED BY <2>3, <3>1, <3>2
  <2>5. QED BY <2>1, <2>2, <2>4, CountsKept
<1>10. ASSUME DrainFlush PROVE Counts'
  <2>1. UNCHANGED <<left, size, uncounted, counter, excess, lost>>
    BY <1>10 DEF DrainFlush, DrainOnly, writerVars, bufVars, drainVars, backVars,
        boundVars
  <2>2. Held' = Held
    BY <2>1 DEF Held
  <2>3. (\E S : FlushRecords(S)) \/ UNCHANGED <<writes, pending>>
    BY <1>10 DEF DrainFlush
  <2>4. Published' = Published
    <3>1. CASE \E S : FlushRecords(S)
      BY <3>1, FlushKeeps
    <3>2. CASE UNCHANGED <<writes, pending>>
      BY <3>2 DEF Published
    <3>3. QED BY <2>3, <3>1, <3>2
  <2>5. QED BY <2>1, <2>2, <2>4, CountsKept
<1>11. ASSUME DrainRotate PROVE Counts'
  <2>1. UNCHANGED <<writes, pending, left, size, uncounted, counter, excess, lost>>
    BY <1>11 DEF DrainRotate, DrainOnly, writerVars, bufVars, drainVars, backVars,
        boundVars
  <2>2. Published' = Published /\ Held' = Held
    BY <2>1 DEF Published, Held
  <2>3. QED BY <2>1, <2>2, CountsKept
<1>12. ASSUME NEW j \in jobs, UploadChunk(j) PROVE Counts'
  <2>0. IsFiniteSet(Blocks) /\ j \in SUBSET Blocks
    BY SizeAssumption DEF Types
  <2>1. UNCHANGED <<writes, left, size, uncounted, excess, lost>>
    BY <1>12 DEF UploadChunk, writerVars, bufVars, drainVars, backVars, boundVars
  <2>2. Held' = Held /\ Uncounted' = Uncounted
    BY <2>1 DEF Held, Uncounted
  <2>3. CASE UNCHANGED <<counter, pending>>
    <3>1. Published' = Published
      BY <2>1, <2>3 DEF Published
    <3>2. QED BY <2>1, <2>2, <2>3, <3>1, CountsKept
  <2>4. CASE /\ counter' = counter - Freed(j)
             /\ pending' = [b \in Blocks |-> IF b \in j THEN 0 ELSE pending[b]]
    <3> DEFINE p1 == pending
               p2 == pending'
    <3>1. /\ \A b \in Blocks : p1[b] \in Nat
          /\ \A b \in j : p2[b] = 0
          /\ \A b \in Blocks \ j : p2[b] = p1[b]
      BY <2>0, <2>4 DEF Types
    <3> HIDE DEF p1, p2
    <3>2. /\ Total(p2, Blocks) = Total(p1, Blocks) - Total(p1, j)
          /\ Total(p1, j) \in Nat /\ Total(p1, Blocks) \in Nat
      <4>1. Total(p2, Blocks) = Total(p1, Blocks) - Total(p1, j)
        BY <2>0, <3>1, TotalDrop
      <4>2. Total(p1, j) \in Nat
        BY <2>0, <3>1, TotalDrop
      <4>3. Total(p1, Blocks) \in Nat
        BY <2>0, <3>1, TotalNat
      <4>4. QED BY <4>1, <4>2, <4>3
    <3>3. Published \in Nat /\ Uncounted \in Nat /\ Total(Held, Writers) \in Int
      BY SumTypes
    <3>4. Total(writes, Blocks) \in Nat
      <4>1. \A b \in Blocks : writes[b] \in Nat
        BY DEF Types
      <4>2. QED BY <2>0, <4>1, TotalNat
    <3>5. Freed(j) = Total(p1, j)
      BY DEF Freed, p1
    <3>6. Published' = Published - Freed(j) /\ Freed(j) \in Nat
      <4>1. Published' = Total(writes, Blocks) + Total(p2, Blocks)
        BY <2>1 DEF Published, p2
      <4>2. Published = Total(writes, Blocks) + Total(p1, Blocks)
        BY DEF Published, p1
      <4>3. QED BY <3>2, <3>4, <3>5, <4>1, <4>2
    <3>7. counter \in Int /\ lost \in Nat /\ excess \in Nat /\ High \in Nat
      BY SizeAssumption DEF Types
    <3>8. CounterExact'
      BY <2>1, <2>2, <2>4, <3>3, <3>6, <3>7 DEF Counts, CounterExact
    <3>9. PublishedBounded'
      <4>1. Published' <= High + Total(Held, Writers) + excess + lost
        BY <3>3, <3>6, <3>7 DEF Counts, PublishedBounded
      <4>2. QED BY <2>1, <2>2, <4>1 DEF PublishedBounded
    <3>10. QED BY <3>8, <3>9 DEF Counts
  <2>5. QED BY <1>12, <2>3, <2>4 DEF UploadChunk
<1>13. ASSUME DrainSave PROVE Counts'
  <2>1. UNCHANGED <<writes, pending, left, size, uncounted, counter, excess, lost>>
    BY <1>13 DEF DrainSave, DrainOnly, writerVars, bufVars, drainVars, backVars, boundVars
  <2>2. Published' = Published /\ Held' = Held
    BY <2>1 DEF Published, Held
  <2>3. QED BY <2>1, <2>2, CountsKept
<1>14. ASSUME EndDrain PROVE Counts'
  <2>1. /\ UNCHANGED <<writes, pending, left, uncounted, counter, lost>>
        /\ holder \in Procs /\ pc[holder] = "drain"
    BY <1>14 DEF EndDrain, Locks, Holder, writerVars, bufVars, drainVars, backVars,
        boundVars
  <2>2. Published' = Published
    BY <2>1 DEF Published
  <2>3. CASE UNCHANGED <<size, excess>>
    <3>1. Held' = Held
      BY <2>1, <2>3 DEF Held
    <3>2. QED BY <2>1, <2>2, <2>3, <3>1, CountsKept
  <2>4. CASE holder \in Writers /\ err # "none" /\ Return(holder, err)
    BY <2>1, <2>4, FailedRequest
  <2>5. holder # Uploader => /\ holder \in Writers
                             /\ FailuresAfter(holder, err) >= MaxFailures => err # "none"
    BY <2>1, SizeAssumption DEF FailuresAfter, Procs
  <2>6. UNCHANGED <<size, excess>> \/ (holder \in Writers /\ err # "none" /\ Return(holder, err))
    BY <1>14, <2>5 DEF EndDrain
  <2>7. QED BY <2>3, <2>4, <2>6
<1>15. ASSUME UNCHANGED vars PROVE Counts'
  <2>1. UNCHANGED <<writes, pending, left, size, uncounted, counter, excess, lost>>
    BY <1>15 DEF vars, writerVars, bufVars, drainVars, backVars, boundVars
  <2>2. Published' = Published /\ Held' = Held
    BY <2>1 DEF Published, Held
  <2>3. QED BY <2>1, <2>2, CountsKept
<1>16. QED BY <1>1, <1>2, <1>3, <1>4, <1>5, <1>6, <1>7, <1>8, <1>9, <1>10, <1>11, <1>12,
    <1>13, <1>14, <1>15 DEF Next, WriterStep, DrainStep

-----------------------------------------------------------------------------
(* The theorems.                                                           *)

\* The invariant holds of an engine that starts.
LEMMA InitIInv == Init => IInv
<1> SUFFICES ASSUME Init PROVE IInv
  OBVIOUS
<1>1. Types
  BY SizeAssumption DEF Init, Types, None
<1>2. InFlight
  <2>1. \A w \in Writers : pc[w] = "idle"
    BY DEF Init, Procs
  <2>2. inFlight = FALSE
    BY DEF Init
  <2>3. QED BY <2>1, <2>2 DEF InFlight, AfterDrain
<1>3. OneWriter
  BY DEF Init, OneWriter, AfterDrain, Procs
<1>4. Holder
  BY ProcAssumption DEF Init, Holder, Procs
<1>5. Requests
  BY DEF Init, Requests, Procs
<1>6. IsFiniteSet(Writers) /\ IsFiniteSet(Blocks)
  BY SizeAssumption
<1>7. /\ \A b \in Blocks : writes[b] = 0
      /\ \A b \in Blocks : pending[b] = 0
      /\ \A w \in Writers : uncounted[w] = 0
  BY DEF Init, None
<1>8. Total(writes, Blocks) = 0 /\ Total(pending, Blocks) = 0 /\ Total(uncounted, Writers) = 0
  BY <1>6, <1>7, TotalZero
<1>9. Published = 0 /\ Uncounted = 0 /\ counter = 0 /\ lost = 0 /\ excess = 0
  BY <1>8 DEF Published, Uncounted, Init
<1>10. CounterExact
  BY <1>9 DEF CounterExact
<1>11. \A w \in Writers : Held[w] = 0
  BY FS_EmptySet DEF Init, Held
<1> HIDE DEF Held
<1>12. Total(Held, Writers) = 0
  BY <1>6, <1>11, TotalZero
<1>13. PublishedBounded
  BY <1>9, <1>12, SizeAssumption DEF PublishedBounded
<1>14. QED BY <1>1, <1>2, <1>3, <1>4, <1>5, <1>10, <1>13 DEF IInv

\* Every step keeps it.
LEMMA StepIInv == IInv /\ [Next]_vars => IInv'
<1> SUFFICES ASSUME IInv, [Next]_vars PROVE IInv'
  OBVIOUS
<1>1. Types /\ Locks /\ Holder /\ Requests /\ Counts
  BY DEF IInv, Locks, Counts
<1>2. Types' /\ Locks' /\ Requests' /\ Counts'
  BY <1>1, TypesStep, LocksStep, RequestsStep, CountsStep
<1>3. QED BY <1>2 DEF IInv, Locks, Counts

\* What the run checks follows from it.
LEMMA IInvImplies == IInv => TypeOK /\ CounterExact /\ BufferBounded
<1> SUFFICES ASSUME IInv PROVE TypeOK /\ CounterExact /\ BufferBounded
  OBVIOUS
<1>1. TypeOK
  <2>1. inFlight = \E w \in Writers : pc[w] \in {"lock", "drain"}
    BY Zenon DEF IInv, InFlight, AfterDrain
  <2>2. \A p \in Procs : (pc[p] = "drain") = (holder = p)
    BY DEF IInv, Holder
  <2>3. (holder = Free) = (at = "none")
    BY DEF IInv, Holder
  <2>4. /\ writes \in [Blocks -> Nat] /\ pending \in [Blocks -> Nat]
        /\ segment \subseteq Blocks /\ counter \in Int
        /\ failures \in [Writers -> 0..MaxFailures]
        /\ at \in {"none", "flush", "rotate", "upload", "end"}
        /\ err \in {"none", "nospace", "other"}
    BY DEF IInv, Types
  <2>5. QED BY <2>1, <2>2, <2>3, <2>4, Zenon DEF TypeOK
<1>2. BufferBounded
  <2>1. Types /\ Requests /\ PublishedBounded
    BY DEF IInv
  <2>2. IsFiniteSet(Writers)
    BY SizeAssumption
  <2>3. \A w \in Writers : Held[w] \in Int /\ size[w] \in Int /\ Held[w] <= size[w]
    <3>1. TAKE w \in Writers
    <3>2. Held[w] = size[w] - Cardinality(left[w]) /\ Cardinality(left[w]) \in Nat
      BY <2>1, HeldAt
    <3>3. size[w] \in Nat
      BY <2>1 DEF Types
    <3>4. QED BY <3>2, <3>3
  <2>4. (\A w \in Writers : Held[w] \in Int) /\ (\A w \in Writers : size[w] \in Int)
    BY <2>3
  <2> HIDE DEF Held
  <2>5. /\ Total(Held, Writers) <= Total(size, Writers)
        /\ Total(Held, Writers) \in Int /\ Total(size, Writers) \in Int
    BY <2>2, <2>3, <2>4, TotalMonotone, TotalType
  <2>6. Published \in Nat /\ lost \in Nat /\ excess \in Nat /\ High \in Nat
    BY <2>1, SumTypes, SizeAssumption DEF Types
  <2>7. QED BY <2>1, <2>5, <2>6 DEF PublishedBounded, BufferBounded, InProgress
<1>3. QED BY <1>1, <1>2 DEF IInv

\* The invariant holds of the specification.
LEMMA Invariance == Spec => []IInv
BY InitIInv, StepIInv, PTL DEF Spec

\* The variables keep their types, and drainInFlight and drainMu are with the
\* processes that say so, for any number of writers (awaitBackpressure).
THEOREM GateTypeCorrect == Spec => []TypeOK
BY Invariance, IInvImplies, PTL

\* pendingBytes is what is buffered, but for requests between publishing and
\* counting and for requests that failed in between (WriteAtCtx,
\* createChunkFile).
THEOREM CounterIsExact == Spec => []CounterExact
BY Invariance, IInvImplies, PTL

\* The buffer holds at most the high watermark, the requests in progress and
\* what came with requests that failed (awaitBackpressure).
THEOREM BufferIsBounded == Spec => []BufferBounded
BY Invariance, IInvImplies, PTL
=============================================================================
