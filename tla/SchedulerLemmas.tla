--------------------------- MODULE SchedulerLemmas ---------------------------
(***************************************************************************)
(* Facts about the operators of Scheduler: the order of the waiters, and   *)
(* what one dispatch does to the free list, the counters and the holders.  *)
(* SchedulerProofs uses them for the three actions that dispatch.          *)
(***************************************************************************)
EXTENDS Scheduler, FiniteSetTheorems, SequenceTheorems, WellFoundedInduction, TLAPS

(* Arrival numbers that tell the requests of S apart. *)
Ordered(s, S) == \A v, w \in S : s[v] = s[w] => v = w

(* Before is a strict total order on any set of requests it tells apart. *)
LEMMA BeforeOrder ==
    ASSUME job \in [Requests -> Jobs], NEW s \in [Requests -> Nat],
           NEW S \in SUBSET Requests, Ordered(s, S)
    PROVE  /\ \A v \in S : ~Before(s, v, v)
           /\ \A u, v, w \in S : Before(s, u, v) /\ Before(s, v, w) => Before(s, u, w)
           /\ \A v, w \in S : v # w => Before(s, v, w) \/ Before(s, w, v)
<1>1. \A r \in S : s[r] \in Nat /\ job[r].priority \in Int
    BY JobsAssumption
<1> QED  BY <1>1 DEF Before, Ordered

(***************************************************************************)
(* The rank of a member of a finite set of waiters, the number of members  *)
(* ahead of it, is below the size of the set and is its own.               *)
(***************************************************************************)
LEMMA Ranks ==
    ASSUME job \in [Requests -> Jobs], NEW s \in [Requests -> Nat],
           NEW S \in SUBSET Requests, Ordered(s, S), IsFiniteSet(S)
    PROVE  /\ \A w : /\ IsFiniteSet(Ahead(s, S, w))
                     /\ Cardinality(Ahead(s, S, w)) \in Nat
           /\ \A w \in S : Cardinality(Ahead(s, S, w)) < Cardinality(S)
           /\ \A v, w \in S : Before(s, v, w) =>
                 Cardinality(Ahead(s, S, v)) < Cardinality(Ahead(s, S, w))
           /\ \A v, w \in S : Cardinality(Ahead(s, S, v)) = Cardinality(Ahead(s, S, w))
                 => v = w
<1>1. \A w : /\ IsFiniteSet(Ahead(s, S, w))
             /\ Cardinality(Ahead(s, S, w)) \in Nat
             /\ Cardinality(Ahead(s, S, w)) <= Cardinality(S)
             /\ Cardinality(Ahead(s, S, w)) = Cardinality(S) => Ahead(s, S, w) = S
  <2> TAKE w
  <2>1. Ahead(s, S, w) \in SUBSET S
      BY DEF Ahead
  <2> QED  BY <2>1, FS_Subset, FS_CardinalityType
<1>2. ASSUME NEW w \in S
      PROVE  Cardinality(Ahead(s, S, w)) < Cardinality(S)
  <2>1. w \notin Ahead(s, S, w)
      BY BeforeOrder DEF Ahead
  <2>2. Ahead(s, S, w) # S
      BY <2>1
  <2>3. Cardinality(S) \in Nat
      BY FS_CardinalityType
  <2> QED  BY <1>1, <2>2, <2>3
<1>3. ASSUME NEW v \in S, NEW w \in S, Before(s, v, w)
      PROVE  Cardinality(Ahead(s, S, v)) < Cardinality(Ahead(s, S, w))
  <2>1. Ahead(s, S, v) \in SUBSET Ahead(s, S, w)
      BY <1>3, BeforeOrder DEF Ahead
  <2>2. v \in Ahead(s, S, w) /\ v \notin Ahead(s, S, v)
      BY <1>3, BeforeOrder DEF Ahead
  <2>3. Cardinality(Ahead(s, S, v)) <= Cardinality(Ahead(s, S, w))
      BY <1>1, <2>1, FS_Subset
  <2>4. Cardinality(Ahead(s, S, v)) # Cardinality(Ahead(s, S, w))
      BY <1>1, <2>1, <2>2, FS_Subset
  <2> QED  BY <1>1, <2>3, <2>4
<1>4. ASSUME NEW v \in S, NEW w \in S,
             Cardinality(Ahead(s, S, v)) = Cardinality(Ahead(s, S, w))
      PROVE  v = w
  <2>1. ~Before(s, v, w) /\ ~Before(s, w, v)
      BY <1>1, <1>3, <1>4
  <2> QED  BY <2>1, BeforeOrder
<1> QED  BY <1>1, <1>2, <1>3, <1>4

(* A finite set of waiters that is not empty has a last member. *)
LEMMA LastWaiter ==
    ASSUME job \in [Requests -> Jobs], NEW s \in [Requests -> Nat],
           NEW S \in SUBSET Requests, Ordered(s, S), IsFiniteSet(S), S # {}
    PROVE  \E h \in S : Ahead(s, S, h) = S \ {h}
<1> DEFINE Rank(w) == Cardinality(Ahead(s, S, w))
           T == {n \in Nat : \E w \in S : n = Cardinality(S) - Rank(w)}
<1>1. Cardinality(S) \in Nat /\ \A w \in S : Rank(w) \in Nat /\ Rank(w) < Cardinality(S)
    BY Ranks, FS_CardinalityType
<1>2. T # {}
  <2>1. PICK w \in S : TRUE
      OBVIOUS
  <2>2. Cardinality(S) - Rank(w) \in Nat
      BY <1>1
  <2>3. Cardinality(S) - Rank(w) \in T
      BY <2>2
  <2> QED  BY <2>3
<1> DEFINE Less == {ss \in Nat \X Nat : ss[1] < ss[2]}
<1>3. PICK n \in T : \A m \in T : ~(<<m, n>> \in Less)
  <2>1. IsWellFoundedOn(Less, Nat)
      BY NatLessThanWellFounded DEF OpToRel
  <2> HIDE DEF Less
  <2> QED  BY <1>2, <2>1, WFMin
<1>4. \A m \in T : ~(m < n)
    BY <1>3
<1>5. PICK h \in S : n = Cardinality(S) - Rank(h)
    OBVIOUS
<1>6. ASSUME NEW w \in S, Before(s, h, w)
      PROVE  FALSE
  <2>1. Rank(h) < Rank(w)
      BY <1>6, Ranks
  <2>2. Cardinality(S) - Rank(w) \in Nat
      BY <1>1
  <2>3. Cardinality(S) - Rank(w) \in T
      BY <2>2
  <2>4. Cardinality(S) - Rank(w) < n
      BY <1>1, <1>5, <2>1
  <2> QED  BY <1>4, <2>3, <2>4
<1>7. \A w \in S : w # h => Before(s, w, h)
    BY <1>6, BeforeOrder
<1>8. ~Before(s, h, h)
    BY BeforeOrder
<1> QED  BY <1>7, <1>8 DEF Ahead

-----------------------------------------------------------------------------
(* Counting the union of two finite sets that share nothing. *)
LEMMA DisjointUnion ==
    ASSUME NEW S, NEW T, IsFiniteSet(S), IsFiniteSet(T), S \cap T = {}
    PROVE  /\ IsFiniteSet(S \cup T)
           /\ Cardinality(S \cup T) = Cardinality(S) + Cardinality(T)
<1>1. Cardinality(S) \in Nat /\ Cardinality(T) \in Nat
    BY FS_CardinalityType
<1> QED  BY <1>1, FS_Union, FS_EmptySet

(* Pools and clients split finite sets, and disjoint unions, as expected. *)
LEMMA Shares ==
    ASSUME NEW S \in SUBSET Requests, IsFiniteSet(S), NEW p, NEW c
    PROVE  /\ InPool(S, p) \in SUBSET S /\ IsFiniteSet(InPool(S, p))
           /\ Cardinality(InPool(S, p)) \in Nat
           /\ OfClient(S, c) \in SUBSET S /\ IsFiniteSet(OfClient(S, c))
           /\ Cardinality(OfClient(S, c)) \in Nat
<1>1. InPool(S, p) \in SUBSET S /\ OfClient(S, c) \in SUBSET S
    BY DEF InPool, OfClient
<1> QED  BY <1>1, FS_Subset, FS_CardinalityType

LEMMA UnionShares ==
    ASSUME NEW S \in SUBSET Requests, IsFiniteSet(S),
           NEW T \in SUBSET Requests, IsFiniteSet(T), S \cap T = {}, NEW p, NEW c
    PROVE  /\ Cardinality(InPool(S \cup T, p)) =
                  Cardinality(InPool(S, p)) + Cardinality(InPool(T, p))
           /\ Cardinality(OfClient(S \cup T, c)) =
                  Cardinality(OfClient(S, c)) + Cardinality(OfClient(T, c))
<1>1. /\ InPool(S \cup T, p) = InPool(S, p) \cup InPool(T, p)
      /\ InPool(S, p) \cap InPool(T, p) = {}
    BY DEF InPool
<1>2. /\ OfClient(S \cup T, c) = OfClient(S, c) \cup OfClient(T, c)
      /\ OfClient(S, c) \cap OfClient(T, c) = {}
    BY DEF OfClient
<1> QED  BY <1>1, <1>2, Shares, DisjointUnion

-----------------------------------------------------------------------------
(***************************************************************************)
(* A set that the loop of _dispatch grants, over live waiters L.           *)
(***************************************************************************)
GrantContext(G, L, s, F, P, C) ==
    /\ job \in [Requests -> Jobs]
    /\ s \in [Requests -> Nat]
    /\ L \in SUBSET Requests
    /\ IsFiniteSet(L)
    /\ Ordered(s, L)
    /\ F \in Seq(Workers)
    /\ P \in [Pools -> Int]
    /\ C \in [Clients -> Int]
    /\ G \in SUBSET L
    /\ IsGrant(G, L, s, F, P, C)

(* No more waiters are granted than workers are free, each at its own rank. *)
LEMMA GrantSize ==
    ASSUME NEW G, NEW L, NEW s, NEW F, NEW P, NEW C, GrantContext(G, L, s, F, P, C)
    PROVE  /\ G \in SUBSET Requests /\ IsFiniteSet(G) /\ Ordered(s, G)
           /\ Cardinality(G) \in Nat /\ Cardinality(G) <= Len(F)
           /\ Len(F) \in Nat
<1>1. G \in SUBSET Requests /\ IsFiniteSet(G) /\ Cardinality(G) \in Nat /\ Ordered(s, G)
    BY FS_Subset, FS_CardinalityType DEF GrantContext, Ordered
<1>2. Len(F) \in Nat
    BY DEF GrantContext
<1>3. CASE G = {}
    BY <1>1, <1>2, <1>3, FS_EmptySet
<1>4. CASE G # {}
  <2>1. PICK h \in G : Ahead(s, G, h) = G \ {h}
      BY <1>1, <1>4, LastWaiter DEF GrantContext
  <2>2. Cardinality(G \ {h}) = Cardinality(G) - 1
      BY <1>1, FS_RemoveElement
  <2>3. Cardinality(Ahead(s, G, h)) < Len(F)
      BY DEF GrantContext, IsGrant
  <2> QED  BY <1>1, <1>2, <2>1, <2>2, <2>3
<1> QED  BY <1>1, <1>2, <1>3, <1>4

(* The free list, and everyone's slot, after the grants G. *)
FreeAfter(G, F) == SubSeq(F, Cardinality(G) + 1, Len(F))

SlotAfter(G, s, F, sl) ==
    [r \in Requests |-> IF r \in G THEN F[Cardinality(Ahead(s, G, r)) + 1] ELSE sl[r]]

(* The grants take the front of the free list, and share no worker. *)
LEMMA GrantExclusive ==
    ASSUME NEW G, NEW L, NEW s, NEW F, NEW P, NEW C, GrantContext(G, L, s, F, P, C),
           NEW H \in SUBSET Requests, H \cap G = {}, NEW sl, Exclusive(F, sl, H)
    PROVE  /\ FreeAfter(G, F) \in Seq(Workers)
           /\ Exclusive(FreeAfter(G, F), SlotAfter(G, s, F, sl), H \cup G)
<1> DEFINE n == Cardinality(G)
           rank(g) == Cardinality(Ahead(s, G, g))
           F2 == SubSeq(F, n + 1, Len(F))
           sl2 == [r \in Requests |-> IF r \in G THEN F[rank(r) + 1] ELSE sl[r]]
<1>1. /\ n \in Nat /\ Len(F) \in Nat /\ n <= Len(F) /\ IsFiniteSet(G)
      /\ G \in SUBSET Requests /\ Ordered(s, G)
    BY GrantSize
<1>2. F \in Seq(Workers) /\ job \in [Requests -> Jobs] /\ s \in [Requests -> Nat]
    BY DEF GrantContext
<1>3. \A g \in G : rank(g) \in Nat /\ rank(g) < n
    BY <1>1, <1>2, Ranks
<1>4. \A g, k \in G : rank(g) = rank(k) => g = k
    BY <1>1, <1>2, Ranks
<1> HIDE DEF n, rank
<1>5. /\ F2 \in Seq(Workers) /\ Len(F2) = Len(F) - n
      /\ \A i \in 1 .. Len(F2) : F2[i] = F[n + i] /\ n + i \in 1 .. Len(F)
  <2>1. \A i \in n + 1 .. Len(F) : F[i] \in Workers
      BY <1>1, <1>2
  <2>2. /\ SubSeq(F, n + 1, Len(F)) \in Seq(Workers)
        /\ Len(SubSeq(F, n + 1, Len(F))) =
               (IF n + 1 <= Len(F) THEN Len(F) - (n + 1) + 1 ELSE 0)
        /\ \A i \in 1 .. Len(F) - (n + 1) + 1 :
               SubSeq(F, n + 1, Len(F))[i] = F[n + 1 + i - 1]
    <3>1. n + 1 \in Int /\ Len(F) \in Int
        BY <1>1
    <3> QED  BY <2>1, <3>1, SubSeqProperties
  <2>3. Len(F2) = Len(F) - n
      BY <1>1, <2>2
  <2>4. \A i \in 1 .. Len(F2) : F2[i] = F[n + i] /\ n + i \in 1 .. Len(F)
      BY <1>1, <2>2, <2>3
  <2> QED  BY <2>2, <2>3, <2>4
<1>6. /\ DOMAIN F = 1 .. Len(F) /\ DOMAIN F2 = 1 .. Len(F2)
      /\ \A i \in 1 .. Len(F) : F[i] \in Workers
    BY <1>2, <1>5
<1>7. /\ \A i, j \in 1 .. Len(F) : F[i] = F[j] => i = j
      /\ \A h \in H : sl[h] \in Workers
      /\ \A h, k \in H : sl[h] = sl[k] => h = k
      /\ \A h \in H : \A i \in 1 .. Len(F) : sl[h] # F[i]
      /\ IsFiniteSet(H)
      /\ Len(F) + Cardinality(H) = Cardinality(Workers)
    BY <1>6 DEF Exclusive
<1>8. \A h \in H : sl2[h] = sl[h]
    OBVIOUS
<1>9. \A g \in G : sl2[g] = F[rank(g) + 1] /\ rank(g) + 1 \in 1 .. n
    BY <1>1, <1>3
<1> HIDE DEF F2, sl2
<1>10. \A i, j \in DOMAIN F2 : F2[i] = F2[j] => i = j
    BY <1>1, <1>5, <1>6, <1>7
<1>11. \A h \in H \cup G : sl2[h] \in Workers
    BY <1>1, <1>6, <1>7, <1>8, <1>9
<1>12. \A h, k \in H \cup G : sl2[h] = sl2[k] => h = k
  <2> SUFFICES ASSUME NEW h \in H \cup G, NEW k \in H \cup G, sl2[h] = sl2[k]
               PROVE  h = k
      OBVIOUS
  <2>1. CASE h \in H /\ k \in H
      BY <2>1, <1>7, <1>8
  <2>2. CASE h \in G /\ k \in G
    <3>1. rank(h) + 1 = rank(k) + 1
        BY <2>2, <1>1, <1>7, <1>9
    <3>2. rank(h) = rank(k)
        BY <3>1, <2>2, <1>3
    <3> QED  BY <3>2, <2>2, <1>4
  <2>3. CASE h \in H /\ k \in G
      BY <2>3, <1>1, <1>7, <1>8, <1>9
  <2>4. CASE h \in G /\ k \in H
      BY <2>4, <1>1, <1>7, <1>8, <1>9
  <2> QED  BY <2>1, <2>2, <2>3, <2>4
<1>13. \A h \in H \cup G : \A i \in DOMAIN F2 : sl2[h] # F2[i]
  <2> SUFFICES ASSUME NEW h \in H \cup G, NEW i \in 1 .. Len(F2), sl2[h] = F2[i]
               PROVE  FALSE
      BY <1>6
  <2>1. CASE h \in H
      BY <2>1, <1>5, <1>7, <1>8
  <2>2. CASE h \in G
    <3>1. rank(h) + 1 = n + i
        BY <2>2, <1>1, <1>5, <1>7, <1>9
    <3> QED  BY <3>1, <2>2, <1>1, <1>3, <1>5
  <2> QED  BY <2>1, <2>2
<1>14. IsFiniteSet(H \cup G) /\ Cardinality(H \cup G) = Cardinality(H) + n
    BY <1>1, <1>7, DisjointUnion DEF n
<1>15. Len(F2) + Cardinality(H \cup G) = Cardinality(Workers)
  <2>1. Cardinality(H) \in Nat /\ Cardinality(Workers) \in Nat
      BY <1>7, FS_CardinalityType, WorkersAssumption
  <2> QED  BY <2>1, <1>1, <1>5, <1>7, <1>14
<1>16. F2 \in Seq(Workers) /\ Exclusive(F2, sl2, H \cup G)
    BY <1>5, <1>10, <1>11, <1>12, <1>13, <1>14, <1>15 DEF Exclusive
<1> QED  BY <1>16 DEF F2, sl2, n, rank, FreeAfter, SlotAfter

(* The counters count the grants. *)
LEMMA GrantExact ==
    ASSUME NEW G, NEW L, NEW s, NEW F, NEW P, NEW C, GrantContext(G, L, s, F, P, C),
           NEW H \in SUBSET Requests, IsFiniteSet(H), H \cap G = {}, Exact(P, C, H)
    PROVE  /\ PoolsWith(P, G) \in [Pools -> Int]
           /\ ClientsWith(C, G) \in [Clients -> Int]
           /\ Exact(PoolsWith(P, G), ClientsWith(C, G), H \cup G)
<1>1. G \in SUBSET Requests /\ IsFiniteSet(G)
    BY GrantSize
<1>2. \A p, c : /\ Cardinality(InPool(G, p)) \in Nat
                /\ Cardinality(OfClient(G, c)) \in Nat
    BY <1>1, Shares
<1>3. P \in [Pools -> Int] /\ C \in [Clients -> Int]
    BY DEF GrantContext
<1>4. PoolsWith(P, G) \in [Pools -> Int] /\ ClientsWith(C, G) \in [Clients -> Int]
    BY <1>2, <1>3 DEF PoolsWith, ClientsWith
<1>5. ASSUME NEW p \in Pools
      PROVE  PoolsWith(P, G)[p] = Cardinality(InPool(H \cup G, p))
    BY <1>1, UnionShares DEF PoolsWith, Exact
<1>6. ASSUME NEW c \in Clients
      PROVE  ClientsWith(C, G)[c] = Cardinality(OfClient(H \cup G, c))
    BY <1>1, UnionShares DEF ClientsWith, Exact
<1> QED  BY <1>4, <1>5, <1>6 DEF Exact

(* The last grant of a capped pool still found the pool below its cap. *)
LEMMA GrantCaps ==
    ASSUME NEW G, NEW L, NEW s, NEW F, NEW P, NEW C, GrantContext(G, L, s, F, P, C),
           NEW H \in SUBSET Requests, IsFiniteSet(H), H \cap G = {}, Exact(P, C, H),
           WithinCaps(H)
    PROVE  WithinCaps(H \cup G)
<1> SUFFICES ASSUME NEW p \in Pools, p \in DOMAIN PoolCaps
             PROVE  Cardinality(InPool(H \cup G, p)) <= PoolCaps[p]
    BY DEF WithinCaps
<1>1. G \in SUBSET Requests /\ IsFiniteSet(G) /\ Ordered(s, G)
    BY GrantSize
<1>2. job \in [Requests -> Jobs] /\ s \in [Requests -> Nat]
    BY DEF GrantContext
<1>3. /\ Cardinality(InPool(H \cup G, p)) = P[p] + Cardinality(InPool(G, p))
      /\ P[p] = Cardinality(InPool(H, p)) /\ P[p] \in Nat /\ P[p] <= PoolCaps[p]
  <2>1. Cardinality(InPool(H \cup G, p)) =
           Cardinality(InPool(H, p)) + Cardinality(InPool(G, p))
      BY <1>1, UnionShares
  <2>2. P[p] = Cardinality(InPool(H, p))
      BY DEF Exact
  <2>3. Cardinality(InPool(H, p)) \in Nat
      BY Shares
  <2>4. Cardinality(InPool(H, p)) <= PoolCaps[p]
      BY DEF WithinCaps
  <2> QED  BY <2>1, <2>2, <2>3, <2>4
<1>4. IsFiniteSet(InPool(G, p)) /\ InPool(G, p) \in SUBSET G
    BY <1>1, Shares
<1>5. CASE InPool(G, p) = {}
    BY <1>3, <1>5, FS_EmptySet
<1>6. CASE InPool(G, p) # {}
  <2>1. Ordered(s, InPool(G, p))
      BY <1>1, <1>4 DEF Ordered
  <2>2. PICK h \in InPool(G, p) : Ahead(s, InPool(G, p), h) = InPool(G, p) \ {h}
      BY <1>1, <1>2, <1>4, <1>6, <2>1, LastWaiter
  <2>3. InPool(Ahead(s, G, h), p) = InPool(G, p) \ {h}
      BY <2>2 DEF InPool, Ahead
  <2>4. Cardinality(InPool(Ahead(s, G, h), p)) = Cardinality(InPool(G, p)) - 1
    <3>1. Cardinality(InPool(G, p) \ {h}) = Cardinality(InPool(G, p)) - 1
        BY <1>4, FS_RemoveElement
    <3> QED  BY <2>3, <3>1
  <2>5. h \in G /\ h \in L /\ job[h].pool = p
      BY <1>4 DEF InPool, GrantContext
  <2>6. Eligible(h, PoolsWith(P, Ahead(s, G, h)), ClientsWith(C, Ahead(s, G, h)))
      BY <2>5 DEF GrantContext, IsGrant
  <2>7. P[p] + Cardinality(InPool(G, p)) - 1 < PoolCaps[p]
      BY <1>3, <2>4, <2>5, <2>6 DEF Eligible, PoolsWith
  <2>8. Cardinality(InPool(G, p)) \in Nat /\ PoolCaps[p] \in Nat
      BY <1>4, FS_CardinalityType, CapsAssumption
  <2> QED  BY <1>3, <2>7, <2>8
<1> QED  BY <1>5, <1>6

(* Among holders of one caller, the last one granted was within its limit. *)
LEMMA GrantLimits ==
    ASSUME NEW G, NEW L, NEW s, NEW F, NEW P, NEW C, GrantContext(G, L, s, F, P, C),
           NEW H \in SUBSET Requests, IsFiniteSet(H), H \cap G = {}, Exact(P, C, H),
           WithinLimits(H)
    PROVE  WithinLimits(H \cup G)
<1> SUFFICES ASSUME NEW c \in Clients, NEW S \in SUBSET OfClient(H \cup G, c), S # {}
             PROVE  \E h \in S : Cardinality(S) <= job[h].concurrency
    BY DEF WithinLimits
<1>1. G \in SUBSET Requests /\ IsFiniteSet(G) /\ Ordered(s, G)
    BY GrantSize
<1>2. job \in [Requests -> Jobs] /\ s \in [Requests -> Nat]
    BY DEF GrantContext
<1>3. CASE S \cap G = {}
  <2>1. S \in SUBSET OfClient(H, c)
      BY <1>3 DEF OfClient
  <2> QED  BY <2>1 DEF WithinLimits
<1>4. CASE S \cap G # {}
  <2> DEFINE T == S \cap G
  <2>1. T \in SUBSET Requests /\ IsFiniteSet(T) /\ Ordered(s, T) /\ T # {}
      BY <1>1, <1>4, FS_Subset DEF Ordered
  <2>2. PICK h \in T : Ahead(s, T, h) = T \ {h}
      BY <1>2, <2>1, LastWaiter
  <2>3. T \ {h} \in SUBSET OfClient(Ahead(s, G, h), c)
      BY <2>2 DEF OfClient, Ahead
  <2>4. /\ IsFiniteSet(Ahead(s, G, h)) /\ Ahead(s, G, h) \in SUBSET Requests
      BY <1>1, FS_Subset DEF Ahead
  <2>5. /\ Cardinality(T \ {h}) <= Cardinality(OfClient(Ahead(s, G, h), c))
        /\ Cardinality(OfClient(Ahead(s, G, h), c)) \in Nat
      BY <2>3, <2>4, Shares, FS_Subset
  <2>6. Cardinality(T) \in Nat /\ Cardinality(T \ {h}) = Cardinality(T) - 1
      BY <2>1, <2>2, FS_RemoveElement, FS_CardinalityType
  <2>7. h \in G /\ h \in L /\ job[h].client = c /\ h \in Requests
      BY <1>1 DEF OfClient, GrantContext
  <2>8. C[c] + Cardinality(OfClient(Ahead(s, G, h), c)) < job[h].concurrency
      BY <2>7 DEF GrantContext, IsGrant, Eligible, ClientsWith
  <2>9. /\ S \ T \in SUBSET OfClient(H, c)
        /\ IsFiniteSet(S \ T) /\ Cardinality(S \ T) \in Nat
        /\ Cardinality(S \ T) <= C[c] /\ C[c] \in Nat
    <3>1. S \ T \in SUBSET OfClient(H, c)
        BY DEF OfClient
    <3>2. /\ IsFiniteSet(OfClient(H, c)) /\ C[c] = Cardinality(OfClient(H, c))
          /\ C[c] \in Nat
        BY Shares DEF Exact
    <3> QED  BY <3>1, <3>2, FS_Subset, FS_CardinalityType
  <2>10. Cardinality(S) = Cardinality(S \ T) + Cardinality(T)
    <3>1. S = (S \ T) \cup T /\ (S \ T) \cap T = {}
        OBVIOUS
    <3> QED  BY <3>1, <2>1, <2>9, DisjointUnion
  <2>11. job[h].concurrency \in Int
      BY <1>2, <2>7, JobsAssumption
  <2>12. Cardinality(S) <= job[h].concurrency
      BY <2>5, <2>6, <2>8, <2>9, <2>10, <2>11
  <2> QED  BY <2>12
<1> QED  BY <1>3, <1>4

(* When a worker is left, every live waiter left is one that cannot run. *)
LEMMA GrantIdle ==
    ASSUME NEW G, NEW L, NEW s, NEW F, NEW P, NEW C, GrantContext(G, L, s, F, P, C),
           Cardinality(G) < Len(F), NEW w \in L \ G
    PROVE  ~Eligible(w, PoolsWith(P, G), ClientsWith(C, G))
<1> DEFINE A == Ahead(s, G, w)
<1>1. G \in SUBSET Requests /\ IsFiniteSet(G) /\ Cardinality(G) \in Nat /\ Len(F) \in Nat
    BY GrantSize
<1>2. /\ A \in SUBSET Requests /\ IsFiniteSet(A) /\ Cardinality(A) \in Nat
      /\ Cardinality(A) <= Cardinality(G)
  <2>1. A \in SUBSET G
      BY DEF Ahead
  <2> QED  BY <1>1, <2>1, FS_Subset, FS_CardinalityType
<1>3. ~Eligible(w, PoolsWith(P, A), ClientsWith(C, A))
    BY <1>1, <1>2 DEF GrantContext, IsGrant
<1>4. \A p, c : /\ Cardinality(InPool(A, p)) \in Nat
                /\ Cardinality(InPool(G, p)) \in Nat
                /\ Cardinality(InPool(A, p)) <= Cardinality(InPool(G, p))
                /\ Cardinality(OfClient(A, c)) \in Nat
                /\ Cardinality(OfClient(G, c)) \in Nat
                /\ Cardinality(OfClient(A, c)) <= Cardinality(OfClient(G, c))
  <2> TAKE p, c
  <2>1. InPool(A, p) \in SUBSET InPool(G, p) /\ OfClient(A, c) \in SUBSET OfClient(G, c)
      BY DEF Ahead, InPool, OfClient
  <2> QED  BY <1>1, <1>2, <2>1, Shares, FS_Subset
<1>5. /\ w \in Requests /\ job[w] \in Jobs
      /\ job[w].pool \in Pools /\ job[w].client \in Clients
    BY DEF GrantContext, Pools, Clients
<1>6. /\ P[job[w].pool] \in Int /\ C[job[w].client] \in Int
      /\ job[w].concurrency \in Int
      /\ job[w].pool \in DOMAIN PoolCaps => PoolCaps[job[w].pool] \in Nat
    BY <1>5, JobsAssumption, CapsAssumption DEF GrantContext
<1> DEFINE p == job[w].pool
           c == job[w].client
<1> HIDE DEF A
<1>7. /\ PoolsWith(P, A)[p] = P[p] + Cardinality(InPool(A, p))
      /\ PoolsWith(P, G)[p] = P[p] + Cardinality(InPool(G, p))
    BY <1>5 DEF PoolsWith
<1>8. /\ ClientsWith(C, A)[c] = C[c] + Cardinality(OfClient(A, c))
      /\ ClientsWith(C, G)[c] = C[c] + Cardinality(OfClient(G, c))
    BY <1>5 DEF ClientsWith
<1>9. PoolsWith(P, A)[p] <= PoolsWith(P, G)[p] /\ PoolsWith(P, G)[p] \in Int
                                              /\ PoolsWith(P, A)[p] \in Int
  <2>1. /\ Cardinality(InPool(A, p)) \in Nat /\ Cardinality(InPool(G, p)) \in Nat
        /\ Cardinality(InPool(A, p)) <= Cardinality(InPool(G, p))
      BY <1>4
  <2> QED  BY <1>6, <1>7, <2>1
<1>10. ClientsWith(C, A)[c] <= ClientsWith(C, G)[c] /\ ClientsWith(C, G)[c] \in Int
                                                   /\ ClientsWith(C, A)[c] \in Int
  <2>1. /\ Cardinality(OfClient(A, c)) \in Nat /\ Cardinality(OfClient(G, c)) \in Nat
        /\ Cardinality(OfClient(A, c)) <= Cardinality(OfClient(G, c))
      BY <1>4
  <2> QED  BY <1>6, <1>8, <2>1
<1> HIDE DEF PoolsWith, ClientsWith
<1> QED  BY <1>3, <1>6, <1>9, <1>10 DEF Eligible

(***************************************************************************)
(* A waiter ahead of a grant that was not granted could not have run in    *)
(* the place of that grant, which comes out of the final counters.         *)
(***************************************************************************)
LEMMA GrantOrder ==
    ASSUME NEW G, NEW L, NEW s, NEW F, NEW P, NEW C, GrantContext(G, L, s, F, P, C),
           NEW g \in G, NEW w \in L \ G, Before(s, w, g)
    PROVE  ~Eligible(w, [PoolsWith(P, G) EXCEPT ![job[g].pool] = @ - 1],
                        [ClientsWith(C, G) EXCEPT ![job[g].client] = @ - 1])
<1> DEFINE A == Ahead(s, G, w)
           B == G \ {g}
           P2 == [PoolsWith(P, G) EXCEPT ![job[g].pool] = @ - 1]
           C2 == [ClientsWith(C, G) EXCEPT ![job[g].client] = @ - 1]
<1>1. G \in SUBSET Requests /\ IsFiniteSet(G) /\ Ordered(s, G) /\ Len(F) \in Nat
    BY GrantSize
<1>2. /\ job \in [Requests -> Jobs] /\ s \in [Requests -> Nat]
      /\ L \in SUBSET Requests /\ Ordered(s, L) /\ g \in L /\ w \in L
    BY DEF GrantContext
<1>3. A \in SUBSET Ahead(s, G, g) /\ A \in SUBSET B
  <2>1. G \in SUBSET L
      BY DEF GrantContext
  <2>2. \A v \in L : /\ Before(s, v, w) => Before(s, v, g)
                     /\ ~Before(s, g, w)
      BY <1>2, BeforeOrder
  <2> QED  BY <2>1, <2>2 DEF Ahead
<1>4. IsFiniteSet(B) /\ B \in SUBSET Requests /\ IsFiniteSet(A) /\ A \in SUBSET Requests
    BY <1>1, <1>3, FS_Subset
<1>5. Cardinality(A) < Len(F)
  <2>1. IsFiniteSet(Ahead(s, G, g))
      BY <1>1, <1>2, Ranks
  <2>2. Cardinality(A) <= Cardinality(Ahead(s, G, g))
      BY <1>3, <2>1, FS_Subset
  <2>3. Cardinality(Ahead(s, G, g)) < Len(F)
      BY <1>2 DEF GrantContext, IsGrant
  <2>4. Cardinality(A) \in Nat /\ Cardinality(Ahead(s, G, g)) \in Nat
      BY <1>4, <2>1, FS_CardinalityType
  <2> QED  BY <1>1, <2>2, <2>3, <2>4
<1>6. ~Eligible(w, PoolsWith(P, A), ClientsWith(C, A))
    BY <1>2, <1>5 DEF GrantContext, IsGrant
<1>7. /\ job[w].pool \in Pools /\ job[w].client \in Clients
      /\ job[g].pool \in Pools /\ job[g].client \in Clients
      /\ job[w].concurrency \in Int
      /\ job[w].pool \in DOMAIN PoolCaps => PoolCaps[job[w].pool] \in Nat
  <2>1. job[w] \in Jobs /\ job[g] \in Jobs
      BY <1>2
  <2> QED  BY <2>1, JobsAssumption, CapsAssumption DEF Pools, Clients
<1>8. P[job[w].pool] \in Int /\ C[job[w].client] \in Int
    BY <1>7 DEF GrantContext
<1>9. \A p, c : /\ Cardinality(InPool(A, p)) \in Nat
                /\ Cardinality(OfClient(A, c)) \in Nat
                /\ Cardinality(InPool(G, p)) \in Nat
                /\ Cardinality(OfClient(G, c)) \in Nat
    BY <1>1, <1>4, Shares
<1>10. \A p : Cardinality(InPool(A, p)) <=
                 Cardinality(InPool(G, p)) - (IF job[g].pool = p THEN 1 ELSE 0)
  <2> TAKE p
  <2>1. InPool(A, p) \in SUBSET InPool(B, p)
      BY <1>3 DEF InPool
  <2>2. InPool(B, p) = IF job[g].pool = p THEN InPool(G, p) \ {g} ELSE InPool(G, p)
      BY DEF InPool
  <2>3. IsFiniteSet(InPool(B, p)) /\ IsFiniteSet(InPool(G, p))
      BY <1>1, <1>4, Shares
  <2>4. job[g].pool = p => Cardinality(InPool(G, p) \ {g}) = Cardinality(InPool(G, p)) - 1
    <3>1. job[g].pool = p => g \in InPool(G, p)
        BY DEF InPool
    <3> QED  BY <2>3, <3>1, FS_RemoveElement
  <2>5. Cardinality(InPool(A, p)) <= Cardinality(InPool(B, p))
      BY <2>1, <2>3, FS_Subset
  <2> QED  BY <1>9, <2>2, <2>4, <2>5
<1>11. \A c : Cardinality(OfClient(A, c)) <=
                 Cardinality(OfClient(G, c)) - (IF job[g].client = c THEN 1 ELSE 0)
  <2> TAKE c
  <2>1. OfClient(A, c) \in SUBSET OfClient(B, c)
      BY <1>3 DEF OfClient
  <2>2. OfClient(B, c) = IF job[g].client = c THEN OfClient(G, c) \ {g} ELSE OfClient(G, c)
      BY DEF OfClient
  <2>3. IsFiniteSet(OfClient(B, c)) /\ IsFiniteSet(OfClient(G, c))
      BY <1>1, <1>4, Shares
  <2>4. job[g].client = c =>
           Cardinality(OfClient(G, c) \ {g}) = Cardinality(OfClient(G, c)) - 1
    <3>1. job[g].client = c => g \in OfClient(G, c)
        BY DEF OfClient
    <3> QED  BY <2>3, <3>1, FS_RemoveElement
  <2>5. Cardinality(OfClient(A, c)) <= Cardinality(OfClient(B, c))
      BY <2>1, <2>3, FS_Subset
  <2> QED  BY <1>9, <2>2, <2>4, <2>5
<1>12. /\ P2[job[w].pool] = P[job[w].pool] + Cardinality(InPool(G, job[w].pool))
                               - (IF job[g].pool = job[w].pool THEN 1 ELSE 0)
       /\ C2[job[w].client] = C[job[w].client] + Cardinality(OfClient(G, job[w].client))
                               - (IF job[g].client = job[w].client THEN 1 ELSE 0)
    BY <1>7, <1>8, <1>9 DEF PoolsWith, ClientsWith
<1>13. /\ PoolsWith(P, A)[job[w].pool] <= P2[job[w].pool]
       /\ ClientsWith(C, A)[job[w].client] <= C2[job[w].client]
       /\ PoolsWith(P, A)[job[w].pool] \in Int /\ P2[job[w].pool] \in Int
       /\ ClientsWith(C, A)[job[w].client] \in Int /\ C2[job[w].client] \in Int
  <2>1. /\ PoolsWith(P, A)[job[w].pool] = P[job[w].pool] + Cardinality(InPool(A, job[w].pool))
        /\ ClientsWith(C, A)[job[w].client] =
               C[job[w].client] + Cardinality(OfClient(A, job[w].client))
      BY <1>7 DEF PoolsWith, ClientsWith
  <2> HIDE DEF P2, C2, A
  <2> QED  BY <1>8, <1>9, <1>10, <1>11, <1>12, <2>1
<1> HIDE DEF P2, C2, A
<1>14. ~Eligible(w, P2, C2)
    BY <1>6, <1>7, <1>13 DEF Eligible
<1> QED  BY <1>14 DEF P2, C2

-----------------------------------------------------------------------------
(***************************************************************************)
(* What a release leaves to the dispatch that follows it: the worker at    *)
(* the back of the free list, the counters one lower, one holder fewer.    *)
(***************************************************************************)
LEMMA GiveBackFacts ==
    ASSUME job \in [Requests -> Jobs], free \in Seq(Workers),
           poolInuse \in [Pools -> Int], clientInuse \in [Clients -> Int],
           NEW H \in SUBSET Requests, NEW r \in H,
           Exclusive(free, slot, H), Exact(poolInuse, clientInuse, H)
    PROVE  /\ Append(free, slot[r]) \in Seq(Workers)
           /\ [poolInuse EXCEPT ![job[r].pool] = @ - 1] \in [Pools -> Int]
           /\ [clientInuse EXCEPT ![job[r].client] = @ - 1] \in [Clients -> Int]
           /\ Exclusive(Append(free, slot[r]), slot, H \ {r})
           /\ Exact([poolInuse EXCEPT ![job[r].pool] = @ - 1],
                    [clientInuse EXCEPT ![job[r].client] = @ - 1], H \ {r})
           /\ WithinCaps(H) => WithinCaps(H \ {r})
           /\ WithinLimits(H) => WithinLimits(H \ {r})
<1> DEFINE F == Append(free, slot[r])
           P == [poolInuse EXCEPT ![job[r].pool] = @ - 1]
           C == [clientInuse EXCEPT ![job[r].client] = @ - 1]
           K == H \ {r}
<1>1. slot[r] \in Workers /\ IsFiniteSet(H) /\ Len(free) \in Nat
    BY DEF Exclusive
<1>2. /\ F \in Seq(Workers) /\ Len(F) = Len(free) + 1 /\ DOMAIN F = 1 .. Len(free) + 1
      /\ DOMAIN free = 1 .. Len(free)
      /\ \A i \in 1 .. Len(free) : F[i] = free[i]
      /\ F[Len(free) + 1] = slot[r]
    BY <1>1
<1>3. IsFiniteSet(K) /\ Cardinality(K) = Cardinality(H) - 1
    BY <1>1, FS_RemoveElement
<1>4. Exclusive(F, slot, K)
  <2> HIDE DEF F
  <2>1. \A i, j \in DOMAIN F : F[i] = F[j] => i = j
      BY <1>1, <1>2 DEF Exclusive
  <2>2. \A h \in K : \A i \in DOMAIN F : slot[h] # F[i]
      BY <1>1, <1>2 DEF Exclusive
  <2>3. Len(F) + Cardinality(K) = Cardinality(Workers)
    <3>1. Cardinality(H) \in Nat /\ Len(free) + Cardinality(H) = Cardinality(Workers)
        BY <1>1, FS_CardinalityType DEF Exclusive
    <3> QED  BY <1>1, <1>2, <1>3, <3>1
  <2> QED  BY <1>3, <2>1, <2>2, <2>3 DEF Exclusive
<1>5. job[r].pool \in Pools /\ job[r].client \in Clients
  <2>1. job[r] \in Jobs
      OBVIOUS
  <2> QED  BY <2>1 DEF Pools, Clients
<1>6. P \in [Pools -> Int] /\ C \in [Clients -> Int]
    BY <1>5
<1>7. ASSUME NEW p \in Pools
      PROVE  P[p] = Cardinality(InPool(K, p))
  <2>1. poolInuse[p] = Cardinality(InPool(H, p)) /\ IsFiniteSet(InPool(H, p))
      BY <1>1, Shares DEF Exact
  <2>2. CASE job[r].pool = p
    <3>1. InPool(K, p) = InPool(H, p) \ {r} /\ r \in InPool(H, p)
        BY <2>2 DEF InPool
    <3>2. Cardinality(InPool(H, p) \ {r}) = Cardinality(InPool(H, p)) - 1
        BY <2>1, <3>1, FS_RemoveElement
    <3> QED  BY <2>1, <2>2, <3>1, <3>2
  <2>3. CASE job[r].pool # p
    <3>1. InPool(K, p) = InPool(H, p)
        BY <2>3 DEF InPool
    <3> QED  BY <2>1, <2>3, <3>1
  <2> QED  BY <2>2, <2>3
<1>8. ASSUME NEW c \in Clients
      PROVE  C[c] = Cardinality(OfClient(K, c))
  <2>1. clientInuse[c] = Cardinality(OfClient(H, c)) /\ IsFiniteSet(OfClient(H, c))
      BY <1>1, Shares DEF Exact
  <2>2. CASE job[r].client = c
    <3>1. OfClient(K, c) = OfClient(H, c) \ {r} /\ r \in OfClient(H, c)
        BY <2>2 DEF OfClient
    <3>2. Cardinality(OfClient(H, c) \ {r}) = Cardinality(OfClient(H, c)) - 1
        BY <2>1, <3>1, FS_RemoveElement
    <3> QED  BY <2>1, <2>2, <3>1, <3>2
  <2>3. CASE job[r].client # c
    <3>1. OfClient(K, c) = OfClient(H, c)
        BY <2>3 DEF OfClient
    <3> QED  BY <2>1, <2>3, <3>1
  <2> QED  BY <2>2, <2>3
<1>9. WithinCaps(H) => WithinCaps(K)
  <2> SUFFICES ASSUME WithinCaps(H), NEW p \in Pools, p \in DOMAIN PoolCaps
               PROVE  Cardinality(InPool(K, p)) <= PoolCaps[p]
      BY DEF WithinCaps
  <2>1. InPool(K, p) \in SUBSET InPool(H, p) /\ IsFiniteSet(InPool(H, p))
      BY <1>1, Shares DEF InPool
  <2>2. /\ Cardinality(InPool(K, p)) <= Cardinality(InPool(H, p))
        /\ Cardinality(InPool(K, p)) \in Nat /\ Cardinality(InPool(H, p)) \in Nat
      BY <2>1, FS_Subset, FS_CardinalityType
  <2>3. Cardinality(InPool(H, p)) <= PoolCaps[p] /\ PoolCaps[p] \in Nat
      BY CapsAssumption DEF WithinCaps
  <2> QED  BY <2>2, <2>3
<1>10. WithinLimits(H) => WithinLimits(K)
  <2>1. \A c : OfClient(K, c) \in SUBSET OfClient(H, c)
      BY DEF OfClient
  <2> QED  BY <2>1 DEF WithinLimits
<1>11. Exact(P, C, K)
    BY <1>7, <1>8 DEF Exact
<1> QED  BY <1>2, <1>4, <1>6, <1>9, <1>10, <1>11

-----------------------------------------------------------------------------
FutStates == {"none", "pending", "granted", "cancelled", "draining"}

(***************************************************************************)
(* What a dispatch over heap W, futures f and arrival numbers s achieves   *)
(* for a caller that leaves holders H, when it grants G: everything the    *)
(* invariant says of the holders, the free list and the heap.              *)
(***************************************************************************)
Dispatched(G, W, f, s, H) ==
    /\ G \in SUBSET W
    /\ \A g \in G : f[g] = "pending"
    /\ fut' = [r \in Requests |-> IF r \in G THEN "granted" ELSE f[r]]
    /\ waiting' \in SUBSET (W \ G)
    /\ IsFiniteSet(waiting')
    /\ \A w \in W \ G : f[w] = "pending" => w \in waiting'
    /\ free' \in Seq(Workers)
    /\ slot' \in [Requests -> Workers \cup {NoWorker}]
    /\ \A r \in Requests \ G : slot'[r] = slot[r]
    /\ poolInuse' \in [Pools -> Int]
    /\ clientInuse' \in [Clients -> Int]
    /\ Exclusive(free', slot', H \cup G)
    /\ Exact(poolInuse', clientInuse', H \cup G)
    /\ WithinCaps(H \cup G)
    /\ WithinLimits(H \cup G)
    /\ free' # <<>> => \A w \in W \ G : f[w] = "pending" =>
                          ~Eligible(w, poolInuse', clientInuse')
    /\ \A g \in G : \A w \in W \ G : f[w] = "pending" /\ Before(s, w, g) =>
          ~Eligible(w, [poolInuse' EXCEPT ![job[g].pool] = @ - 1],
                       [clientInuse' EXCEPT ![job[g].client] = @ - 1])

LEMMA DispatchStep ==
    ASSUME job \in [Requests -> Jobs],
           slot \in [Requests -> Workers \cup {NoWorker}],
           NEW W \in SUBSET Requests, IsFiniteSet(W),
           NEW f \in [Requests -> FutStates],
           NEW s \in [Requests -> Nat], Ordered(s, W),
           NEW F \in Seq(Workers), NEW P \in [Pools -> Int], NEW C \in [Clients -> Int],
           NEW H \in SUBSET Requests, \A h \in H : f[h] # "pending",
           Exclusive(F, slot, H), Exact(P, C, H), WithinCaps(H), WithinLimits(H),
           Dispatch(W, f, s, F, P, C)
    PROVE  \E G : Dispatched(G, W, f, s, H)
<1> DEFINE L == {w \in W : f[w] = "pending"}
<1>1. PICK G \in SUBSET L :
          /\ IsGrant(G, L, s, F, P, C)
          /\ waiting' = W \ (G \cup Discarded(G, W, L, s, F))
          /\ free' = SubSeq(F, Cardinality(G) + 1, Len(F))
          /\ poolInuse' = PoolsWith(P, G)
          /\ clientInuse' = ClientsWith(C, G)
          /\ fut' = [r \in Requests |-> IF r \in G THEN "granted" ELSE f[r]]
          /\ slot' = [r \in Requests |-> IF r \in G
                                         THEN F[Cardinality(Ahead(s, G, r)) + 1]
                                         ELSE slot[r]]
    BY DEF Dispatch
<1>2. GrantContext(G, L, s, F, P, C)
  <2>1. L \in SUBSET W /\ IsFiniteSet(L)
      BY FS_Subset
  <2>2. Ordered(s, L)
      BY DEF Ordered
  <2> QED  BY <1>1, <2>1, <2>2 DEF GrantContext
<1>3. H \cap G = {} /\ IsFiniteSet(H)
    BY DEF Exclusive
<1>4. waiting' \in SUBSET (W \ G) /\ IsFiniteSet(waiting')
  <2>1. waiting' \in SUBSET (W \ G) /\ waiting' \in SUBSET W
      BY <1>1
  <2>2. IsFiniteSet(waiting')
      BY <2>1, FS_Subset
  <2> QED  BY <2>1, <2>2
<1>5. \A w \in W \ G : f[w] = "pending" => w \in waiting'
    BY <1>1 DEF Discarded
<1>6. free' \in Seq(Workers) /\ Exclusive(free', slot', H \cup G)
  <2>1. /\ FreeAfter(G, F) \in Seq(Workers)
        /\ Exclusive(FreeAfter(G, F), SlotAfter(G, s, F, slot), H \cup G)
      BY <1>2, <1>3, GrantExclusive
  <2>2. free' = FreeAfter(G, F) /\ slot' = SlotAfter(G, s, F, slot)
      BY <1>1 DEF FreeAfter, SlotAfter
  <2> QED  BY <2>1, <2>2
<1>7. slot' \in [Requests -> Workers \cup {NoWorker}]
  <2> SUFFICES ASSUME NEW r \in Requests
               PROVE  slot'[r] \in Workers \cup {NoWorker}
      BY <1>1
  <2>1. CASE r \in G
      BY <2>1, <1>6 DEF Exclusive
  <2>2. CASE r \notin G
      BY <2>2, <1>1
  <2> QED  BY <2>1, <2>2
<1>8. /\ poolInuse' \in [Pools -> Int] /\ clientInuse' \in [Clients -> Int]
      /\ Exact(poolInuse', clientInuse', H \cup G)
    BY <1>1, <1>2, <1>3, GrantExact
<1>9. WithinCaps(H \cup G)
    BY <1>2, <1>3, GrantCaps
<1>10. WithinLimits(H \cup G)
    BY <1>2, <1>3, GrantLimits
<1>11. ASSUME free' # <<>>, NEW w \in W \ G, f[w] = "pending"
       PROVE  ~Eligible(w, poolInuse', clientInuse')
  <2>1. Cardinality(G) \in Nat /\ Len(F) \in Nat /\ Cardinality(G) <= Len(F)
      BY <1>2, GrantSize
  <2>2. Cardinality(G) # Len(F)
    <3>1. Len(F) + 1 \in Int /\ Len(F) \in Int /\ Len(F) < Len(F) + 1
        BY <2>1
    <3>2. SubSeq(F, Len(F) + 1, Len(F)) = <<>>
        BY <3>1, SubSeqEmpty
    <3> QED  BY <1>1, <1>11, <3>2
  <2>3. Cardinality(G) < Len(F)
      BY <2>1, <2>2
  <2>4. w \in L \ G
      BY <1>11
  <2>5. ~Eligible(w, PoolsWith(P, G), ClientsWith(C, G))
      BY <1>2, <2>3, <2>4, GrantIdle
  <2> QED  BY <1>1, <2>5
<1>12. ASSUME NEW g \in G, NEW w \in W \ G, f[w] = "pending", Before(s, w, g)
       PROVE  ~Eligible(w, [poolInuse' EXCEPT ![job[g].pool] = @ - 1],
                           [clientInuse' EXCEPT ![job[g].client] = @ - 1])
  <2>1. w \in L \ G
      BY <1>12
  <2>2. ~Eligible(w, [PoolsWith(P, G) EXCEPT ![job[g].pool] = @ - 1],
                     [ClientsWith(C, G) EXCEPT ![job[g].client] = @ - 1])
      BY <1>2, <1>12, <2>1, GrantOrder
  <2> QED  BY <1>1, <2>2
<1>13. G \in SUBSET W /\ \A g \in G : f[g] = "pending"
    OBVIOUS
<1>14. \A r \in Requests \ G : slot'[r] = slot[r]
    BY <1>1
<1>15. Dispatched(G, W, f, s, H)
    BY <1>1, <1>4, <1>5, <1>6, <1>7, <1>8, <1>9, <1>10, <1>11, <1>12, <1>13, <1>14
       DEF Dispatched
<1> QED  BY <1>15
=============================================================================
