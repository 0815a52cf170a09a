----------------------------- MODULE LoopProofs -----------------------------
(***************************************************************************)
(* The loop of _dispatch ends with what Dispatch says, for any finite set  *)
(* of requests and any heap, futures, free list and counters it starts     *)
(* from.  While it runs, the waiters granted so far are those that IsGrant *)
(* describes among the waiters popped so far, which are ahead of all that  *)
(* are still in the heap.                                                  *)
(***************************************************************************)
EXTENDS DispatchLoop, SchedulerLemmas

(* A finite set of waiters that is not empty has a first member. *)
LEMMA FirstWaiter ==
    ASSUME job \in [Requests -> Jobs], NEW s \in [Requests -> Nat],
           NEW S \in SUBSET Requests, Ordered(s, S), IsFiniteSet(S), S # {}
    PROVE  \E h \in S : \A w \in S : ~Before(s, w, h)
<1> DEFINE Rank(w) == Cardinality(Ahead(s, S, w))
           T == {n \in Nat : \E w \in S : n = Rank(w)}
           Less == {p \in Nat \X Nat : p[1] < p[2]}
<1>1. \A w \in S : Rank(w) \in Nat
    BY Ranks
<1>2. T # {}
    BY <1>1
<1>3. PICK n \in T : \A m \in T : ~(<<m, n>> \in Less)
  <2>1. IsWellFoundedOn(Less, Nat)
      BY NatLessThanWellFounded DEF OpToRel
  <2> HIDE DEF Less
  <2> QED  BY <1>2, <2>1, WFMin
<1>4. \A m \in T : ~(m < n)
    BY <1>3
<1>5. PICK h \in S : n = Rank(h)
    OBVIOUS
<1>6. ASSUME NEW w \in S, Before(s, w, h)
      PROVE  FALSE
    BY <1>1, <1>4, <1>5, <1>6, Ranks
<1> QED  BY <1>6

(* It is the turn of w, with the waiters of G ahead of it granted. *)
Turn(w, G, s, F, P, C) ==
    LET A == Ahead(s, G, w)
    IN  Cardinality(A) < Len(F) /\ Eligible(w, PoolsWith(P, A), ClientsWith(C, A))

LEMMA GrantTurns ==
    ASSUME NEW G, NEW L, NEW s, NEW F, NEW P, NEW C
    PROVE  IsGrant(G, L, s, F, P, C) <=> \A w \in L : w \in G <=> Turn(w, G, s, F, P, C)
BY DEF IsGrant, Turn

(***************************************************************************)
(* At most one set of waiters is as IsGrant describes: the first waiter    *)
(* that two of them disagree on would have the same ones ahead of it.      *)
(***************************************************************************)
LEMMA OneGrant ==
    ASSUME job \in [Requests -> Jobs], NEW s \in [Requests -> Nat],
           NEW L \in SUBSET Requests, Ordered(s, L), IsFiniteSet(L), NEW F, NEW P, NEW C,
           NEW G \in SUBSET L, IsGrant(G, L, s, F, P, C),
           NEW K \in SUBSET L, IsGrant(K, L, s, F, P, C)
    PROVE  K = G
<1> DEFINE D == (G \ K) \cup (K \ G)
<1> SUFFICES ASSUME D # {} PROVE FALSE
    OBVIOUS
<1>1. D \in SUBSET L /\ D \in SUBSET Requests /\ IsFiniteSet(D) /\ Ordered(s, D)
  <2>1. D \in SUBSET L
      OBVIOUS
  <2> QED  BY <2>1, FS_Subset DEF Ordered
<1>2. PICK h \in D : \A w \in D : ~Before(s, w, h)
  <2> HIDE DEF D
  <2> QED  BY <1>1, FirstWaiter
<1>3. Ahead(s, G, h) = Ahead(s, K, h)
    BY <1>2 DEF Ahead
<1>4. h \in L /\ (h \in G <=> Turn(h, G, s, F, P, C)) /\ (h \in K <=> Turn(h, K, s, F, P, C))
    BY GrantTurns
<1>5. Turn(h, G, s, F, P, C) <=> Turn(h, K, s, F, P, C)
    BY <1>3 DEF Turn
<1> QED  BY <1>4, <1>5

-----------------------------------------------------------------------------
LiveOf(W, f) == {w \in W : f[w] = "pending"}

(* What the loop starts from. *)
Start(W, f, s, F, P, C) ==
    /\ job \in [Requests -> Jobs]
    /\ s \in [Requests -> Nat] /\ Ordered(s, W)
    /\ W \in SUBSET Requests /\ IsFiniteSet(W)
    /\ f \in [Requests -> FutStates]
    /\ F \in Seq(Workers)
    /\ P \in [Pools -> Int] /\ C \in [Clients -> Int]

(* G has been granted, in the loop or at its end. *)
SoFar(G, W, f, s, F, P, C) ==
    /\ G \in SUBSET LiveOf(W, f)
    /\ Cardinality(G) <= Len(F)
    /\ fut = [r \in Requests |-> IF r \in G THEN "granted" ELSE f[r]]
    /\ free = SubSeq(F, Cardinality(G) + 1, Len(F))
    /\ poolInuse = PoolsWith(P, G)
    /\ clientInuse = ClientsWith(C, G)
    /\ slot \in [Requests -> Workers \cup {NoWorker}]
    /\ \A g \in G : slot[g] = F[Cardinality(Ahead(s, G, g)) + 1]

(* The loop is at work: W \ waiting has been popped. *)
Within(G, W, f, s, F, P, C) ==
    /\ SoFar(G, W, f, s, F, P, C)
    /\ waiting \in SUBSET W
    /\ \A v \in waiting : \A w \in W \ waiting : Before(s, w, v)
    /\ waiting \cap G = {}
    /\ skipped = LiveOf(W, f) \ (G \cup waiting)
    /\ \A w \in LiveOf(W, f) \ waiting : w \in G <=> Turn(w, G, s, F, P, C)
    /\ \A w \in W \ (LiveOf(W, f) \cup waiting) :
          Cardinality(G) < Len(F) \/ \E g \in G : Before(s, w, g)

(* The loop has ended. *)
AtEnd(G, W, f, s, F, P, C) ==
    /\ SoFar(G, W, f, s, F, P, C)
    /\ IsGrant(G, LiveOf(W, f), s, F, P, C)
    /\ waiting = W \ (G \cup Discarded(G, W, LiveOf(W, f), s, F))

LoopInv == \E W, f, s, F, P, C, G :
    /\ was = [W |-> W, f |-> f, F |-> F, P |-> P, C |-> C]
    /\ seq = s
    /\ Start(W, f, s, F, P, C)
    /\ \/ at = "loop" /\ Within(G, W, f, s, F, P, C)
       \/ at = "done" /\ AtEnd(G, W, f, s, F, P, C)

LEMMA SetsFinite ==
    ASSUME NEW G, NEW W, NEW f, NEW s, NEW F, NEW P, NEW C, Start(W, f, s, F, P, C),
           G \in SUBSET LiveOf(W, f)
    PROVE  /\ LiveOf(W, f) \in SUBSET Requests /\ IsFiniteSet(LiveOf(W, f))
           /\ Ordered(s, LiveOf(W, f))
           /\ G \in SUBSET Requests /\ IsFiniteSet(G) /\ Cardinality(G) \in Nat /\ Len(F) \in Nat
<1>1. LiveOf(W, f) \in SUBSET W
    BY DEF LiveOf
<1>2. G \in SUBSET W
    BY <1>1
<1> QED  BY <1>1, <1>2, FS_Subset, FS_CardinalityType DEF Start, Ordered

(* The workers left when k have been handed out. *)
LEMMA FreeFacts ==
    ASSUME NEW F \in Seq(Workers), NEW k \in Nat, k <= Len(F)
    PROVE  /\ SubSeq(F, k + 1, Len(F)) # <<>> <=> k < Len(F)
           /\ k < Len(F) => /\ Head(SubSeq(F, k + 1, Len(F))) = F[k + 1]
                            /\ Tail(SubSeq(F, k + 1, Len(F))) = SubSeq(F, k + 2, Len(F))
                            /\ F[k + 1] \in Workers
<1>1. Len(F) \in Nat
    OBVIOUS
<1>2. CASE k = Len(F)
  <2>1. SubSeq(F, k + 1, Len(F)) = <<>>
      BY <1>1, <1>2, SubSeqEmpty
  <2> QED  BY <1>2, <2>1
<1>3. CASE k < Len(F)
  <2>1. \A i \in k + 1 .. Len(F) : F[i] \in Workers
      BY <1>1
  <2>2. Len(SubSeq(F, k + 1, Len(F))) = Len(F) - k
      BY <1>1, <1>3, <2>1, SubSeqProperties
  <2>3. /\ Head(SubSeq(F, k + 1, Len(F))) = F[k + 1]
        /\ Tail(SubSeq(F, k + 1, Len(F))) = SubSeq(F, k + 1 + 1, Len(F))
      BY <1>1, <1>3, HeadTailOfSubSeq
  <2>4. SubSeq(F, k + 1, Len(F)) # <<>>
    <3> DEFINE T == SubSeq(F, k + 1, Len(F))
    <3>1. Len(T) # 0
        BY <1>1, <1>3, <2>2
    <3> HIDE DEF T
    <3>2. T # <<>>
        BY <3>1
    <3> QED  BY <3>2 DEF T
  <2>5. k + 1 + 1 = k + 2 /\ k + 1 \in k + 1 .. Len(F)
      BY <1>1, <1>3
  <2>6. Tail(SubSeq(F, k + 1, Len(F))) = SubSeq(F, k + 2, Len(F))
      BY <2>3, <2>5
  <2>7. F[k + 1] \in Workers
      BY <2>1, <2>5
  <2> QED  BY <1>3, <2>3, <2>4, <2>6, <2>7
<1> QED  BY <1>1, <1>2, <1>3

-----------------------------------------------------------------------------
(* Where the loop stands when it takes an iteration. *)
Iteration(G, W, f, s, F, P, C) ==
    Start(W, f, s, F, P, C) /\ Within(G, W, f, s, F, P, C) /\ seq = s

(* Those granted, and all the others popped, are ahead of the next one. *)
LEMMA PopFacts ==
    ASSUME NEW G, NEW W, NEW f, NEW s, NEW F, NEW P, NEW C, Iteration(G, W, f, s, F, P, C),
           NEW w \in Requests, Pop(w)
    PROVE  /\ w \in W /\ w \in waiting /\ w \notin G /\ job' = job
           /\ waiting' = waiting \ {w} /\ waiting' \in SUBSET W /\ waiting' \cap G = {}
           /\ \A v \in waiting' : \A u \in W \ waiting' : Before(s, u, v)
           /\ \A u \in W \ waiting : Before(s, u, w) /\ ~Before(s, w, u)
           /\ ~Before(s, w, w)
           /\ Ahead(s, G, w) = G
           /\ Cardinality(G) < Len(F)
           /\ Head(free) = F[Cardinality(G) + 1]
           /\ Tail(free) = SubSeq(F, Cardinality(G) + 2, Len(F))
           /\ F[Cardinality(G) + 1] \in Workers
           /\ fut[w] = f[w]
<1> USE DEF Iteration
<1>1. /\ w \in waiting /\ waiting' = waiting \ {w} /\ job' = job /\ free # <<>>
      /\ \A v \in waiting \ {w} : Before(s, w, v)
    BY DEF Pop
<1>2. /\ waiting \in SUBSET W /\ waiting \cap G = {} /\ G \in SUBSET LiveOf(W, f)
      /\ \A v \in waiting : \A u \in W \ waiting : Before(s, u, v)
    BY DEF Within, SoFar
<1>3. G \in SUBSET W \ waiting
    BY <1>2 DEF LiveOf
<1>4. \A v \in waiting' : \A u \in W \ waiting' : Before(s, u, v)
    BY <1>1, <1>2
<1>5. W \in SUBSET Requests /\ job \in [Requests -> Jobs] /\ s \in [Requests -> Nat] /\ Ordered(s, W)
    BY DEF Start
<1>6. /\ \A u \in W : ~Before(s, u, u)
      /\ \A u, v, x \in W : Before(s, u, v) /\ Before(s, v, x) => Before(s, u, x)
    BY <1>5, BeforeOrder
<1>7. \A u \in W \ waiting : Before(s, u, w) /\ ~Before(s, w, u)
    BY <1>1, <1>2, <1>6
<1>8. Ahead(s, G, w) = G
    BY <1>1, <1>2, <1>3 DEF Ahead
<1>9. Cardinality(G) \in Nat /\ Cardinality(G) <= Len(F) /\ F \in Seq(Workers)
  <2>1. Cardinality(G) \in Nat
      BY <1>2, SetsFinite
  <2> QED  BY <2>1 DEF Start, Within, SoFar
<1>10. free = SubSeq(F, Cardinality(G) + 1, Len(F))
    BY DEF Within, SoFar
<1>11. /\ Cardinality(G) < Len(F)
       /\ Head(free) = F[Cardinality(G) + 1]
       /\ Tail(free) = SubSeq(F, Cardinality(G) + 2, Len(F))
       /\ F[Cardinality(G) + 1] \in Workers
    BY <1>1, <1>9, <1>10, FreeFacts
<1>12. fut[w] = f[w]
    BY <1>1, <1>2 DEF Within, SoFar
<1> QED  BY <1>1, <1>2, <1>4, <1>6, <1>7, <1>8, <1>11, <1>12

(* The order of the waiters, and whose turn it is, do not move in a step. *)
LEMMA OrderFixed ==
    ASSUME job' = job, NEW G, NEW s, NEW F, NEW P, NEW C
    PROVE  /\ \A v, w : Before(s, v, w)' <=> Before(s, v, w)
           /\ \A w : Ahead(s, G, w)' = Ahead(s, G, w)
           /\ \A w : Turn(w, G, s, F, P, C)' <=> Turn(w, G, s, F, P, C)
           /\ PoolsWith(P, G)' = PoolsWith(P, G) /\ ClientsWith(C, G)' = ClientsWith(C, G)
<1>1. \A v, w : Before(s, v, w)' <=> Before(s, v, w)
    BY DEF Before
<1>2. \A w : Ahead(s, G, w)' = Ahead(s, G, w)
    BY <1>1 DEF Ahead
<1>3. \A S : PoolsWith(P, S)' = PoolsWith(P, S) /\ ClientsWith(C, S)' = ClientsWith(C, S)
    BY DEF PoolsWith, ClientsWith, InPool, OfClient
<1>4. \A w, Q, D : Eligible(w, Q, D)' <=> Eligible(w, Q, D)
    BY DEF Eligible
<1>5. \A w : Turn(w, G, s, F, P, C)' <=> Turn(w, G, s, F, P, C)
    BY <1>2, <1>3, <1>4 DEF Turn
<1> QED  BY <1>1, <1>2, <1>3, <1>5

(* A waiter whose future was done is dropped: the granted ones stay. *)
LEMMA DropStep ==
    ASSUME NEW G, NEW W, NEW f, NEW s, NEW F, NEW P, NEW C, Iteration(G, W, f, s, F, P, C),
           NEW w \in Requests, Drop(w)
    PROVE  Within(G, W, f, s, F, P, C)'
<1>1. Pop(w) /\ fut[w] # "pending" /\ UNCHANGED <<fut, slot, free, poolInuse, clientInuse, skipped>>
    BY DEF Drop
<1>2. /\ w \in W /\ w \in waiting /\ w \notin G /\ job' = job
      /\ waiting' = waiting \ {w} /\ waiting' \in SUBSET W /\ waiting' \cap G = {}
      /\ \A v \in waiting' : \A u \in W \ waiting' : Before(s, u, v)
      /\ Cardinality(G) < Len(F) /\ fut[w] = f[w]
    BY <1>1, PopFacts
<1>3. Within(G, W, f, s, F, P, C)
    BY DEF Iteration
<1>4. w \notin LiveOf(W, f)
    BY <1>1, <1>2 DEF LiveOf
<1>5. LiveOf(W, f) \ (G \cup waiting') = LiveOf(W, f) \ (G \cup waiting)
      /\ LiveOf(W, f) \ waiting' = LiveOf(W, f) \ waiting
    BY <1>2, <1>4
<1>6. SoFar(G, W, f, s, F, P, C)'
    BY <1>1, <1>2, <1>3, OrderFixed DEF Within, SoFar
<1>7. \A v, u : Before(s, v, u)' <=> Before(s, v, u)
    BY <1>2, OrderFixed
<1>8. \A v : Turn(v, G, s, F, P, C)' <=> Turn(v, G, s, F, P, C)
    BY <1>2, OrderFixed
<1>9. skipped' = LiveOf(W, f) \ (G \cup waiting')
    BY <1>1, <1>3, <1>5 DEF Within
<1>10. \A v \in LiveOf(W, f) \ waiting' : v \in G <=> Turn(v, G, s, F, P, C)'
    BY <1>3, <1>5, <1>8 DEF Within
<1> QED  BY <1>2, <1>6, <1>7, <1>9, <1>10 DEF Within

(* A waiter that is not eligible is skipped: it was not its turn. *)
LEMMA SkipStep ==
    ASSUME NEW G, NEW W, NEW f, NEW s, NEW F, NEW P, NEW C, Iteration(G, W, f, s, F, P, C),
           NEW w \in Requests, Skip(w)
    PROVE  Within(G, W, f, s, F, P, C)'
<1>1. /\ Pop(w) /\ fut[w] = "pending" /\ ~Eligible(w, poolInuse, clientInuse)
      /\ skipped' = skipped \cup {w} /\ UNCHANGED <<fut, slot, free, poolInuse, clientInuse>>
    BY DEF Skip
<1>2. /\ w \in W /\ w \in waiting /\ w \notin G /\ job' = job
      /\ waiting' = waiting \ {w} /\ waiting' \in SUBSET W /\ waiting' \cap G = {}
      /\ \A v \in waiting' : \A u \in W \ waiting' : Before(s, u, v)
      /\ Ahead(s, G, w) = G
      /\ Cardinality(G) < Len(F) /\ fut[w] = f[w]
    BY <1>1, PopFacts
<1>3. Within(G, W, f, s, F, P, C)
    BY DEF Iteration
<1>4. w \in LiveOf(W, f)
    BY <1>1, <1>2 DEF LiveOf
<1>5. ~Turn(w, G, s, F, P, C)
    BY <1>1, <1>2, <1>3 DEF Turn, Within, SoFar
<1>6. SoFar(G, W, f, s, F, P, C)'
    BY <1>1, <1>2, <1>3, OrderFixed DEF Within, SoFar
<1>7. \A v, u : Before(s, v, u)' <=> Before(s, v, u)
    BY <1>2, OrderFixed
<1>8. \A v : Turn(v, G, s, F, P, C)' <=> Turn(v, G, s, F, P, C)
    BY <1>2, OrderFixed
<1>9. skipped' = LiveOf(W, f) \ (G \cup waiting')
    BY <1>1, <1>2, <1>3, <1>4 DEF Within
<1>10. \A v \in LiveOf(W, f) \ waiting' : v \in G <=> Turn(v, G, s, F, P, C)'
    BY <1>2, <1>3, <1>5, <1>8 DEF Within
<1>11. \A v \in W \ (LiveOf(W, f) \cup waiting') :
          Cardinality(G) < Len(F) \/ \E g \in G : Before(s, v, g)
    BY <1>2
<1> QED  BY <1>2, <1>6, <1>7, <1>9, <1>10, <1>11 DEF Within

(* One more waiter of pool and client of w counts as one more. *)
LEMMA OneMore ==
    ASSUME NEW G \in SUBSET Requests, IsFiniteSet(G), NEW w \in Requests, w \notin G,
           job \in [Requests -> Jobs],
           NEW P \in [Pools -> Int], NEW C \in [Clients -> Int]
    PROVE  /\ PoolsWith(P, G \cup {w}) = [PoolsWith(P, G) EXCEPT ![job[w].pool] = @ + 1]
           /\ ClientsWith(C, G \cup {w}) = [ClientsWith(C, G) EXCEPT ![job[w].client] = @ + 1]
<1>1. {w} \in SUBSET Requests /\ IsFiniteSet({w}) /\ G \cap {w} = {}
    BY FS_Singleton
<1>2. \A p, c : /\ Cardinality(InPool(G \cup {w}, p)) =
                      Cardinality(InPool(G, p)) + Cardinality(InPool({w}, p))
                /\ Cardinality(OfClient(G \cup {w}, c)) =
                      Cardinality(OfClient(G, c)) + Cardinality(OfClient({w}, c))
                /\ Cardinality(InPool(G, p)) \in Nat /\ Cardinality(OfClient(G, c)) \in Nat
  <2> TAKE p, c
  <2>1. PICK T : T = {w}
      OBVIOUS
  <2>2. Cardinality(InPool(G \cup T, p)) = Cardinality(InPool(G, p)) + Cardinality(InPool(T, p))
      BY <1>1, <2>1, UnionShares, ZenonT(60)
  <2>3. Cardinality(OfClient(G \cup T, c)) =
            Cardinality(OfClient(G, c)) + Cardinality(OfClient(T, c))
      BY <1>1, <2>1, UnionShares, ZenonT(60)
  <2>4. Cardinality(InPool(G, p)) \in Nat
      BY Shares
  <2>5. Cardinality(OfClient(G, c)) \in Nat
      BY Shares
  <2> QED  BY <2>1, <2>2, <2>3, <2>4, <2>5
<1>3. \A p : Cardinality(InPool({w}, p)) = IF p = job[w].pool THEN 1 ELSE 0
  <2> TAKE p
  <2>1. CASE p = job[w].pool
    <3>1. InPool({w}, p) = {w}
        BY <2>1 DEF InPool
    <3> QED  BY <2>1, <3>1, FS_Singleton
  <2>2. CASE p # job[w].pool
    <3>1. InPool({w}, p) = {}
        BY <2>2 DEF InPool
    <3> QED  BY <2>2, <3>1, FS_EmptySet
  <2> QED  BY <2>1, <2>2
<1>4. \A c : Cardinality(OfClient({w}, c)) = IF c = job[w].client THEN 1 ELSE 0
  <2> TAKE c
  <2>1. CASE c = job[w].client
    <3>1. OfClient({w}, c) = {w}
        BY <2>1 DEF OfClient
    <3> QED  BY <2>1, <3>1, FS_Singleton
  <2>2. CASE c # job[w].client
    <3>1. OfClient({w}, c) = {}
        BY <2>2 DEF OfClient
    <3> QED  BY <2>2, <3>1, FS_EmptySet
  <2> QED  BY <2>1, <2>2
<1>5. job[w].pool \in Pools /\ job[w].client \in Clients
    BY DEF Pools, Clients
<1>6. \A p \in Pools : PoolsWith(P, G \cup {w})[p] =
          [PoolsWith(P, G) EXCEPT ![job[w].pool] = @ + 1][p]
  <2> TAKE p \in Pools
  <2>1. PoolsWith(P, G \cup {w})[p] = P[p] + Cardinality(InPool(G \cup {w}, p))
      BY DEF PoolsWith
  <2>2. PoolsWith(P, G) = [q \in Pools |-> P[q] + Cardinality(InPool(G, q))]
      BY DEF PoolsWith
  <2>3. [PoolsWith(P, G) EXCEPT ![job[w].pool] = @ + 1][p] =
            P[p] + Cardinality(InPool(G, p)) + (IF p = job[w].pool THEN 1 ELSE 0)
      BY <1>2, <1>5, <2>2
  <2>4. Cardinality(InPool(G \cup {w}, p)) =
            Cardinality(InPool(G, p)) + (IF p = job[w].pool THEN 1 ELSE 0)
      BY <1>2, <1>3
  <2> QED  BY <1>2, <2>1, <2>3, <2>4
<1>7. \A c \in Clients : ClientsWith(C, G \cup {w})[c] =
          [ClientsWith(C, G) EXCEPT ![job[w].client] = @ + 1][c]
  <2> TAKE c \in Clients
  <2>1. ClientsWith(C, G \cup {w})[c] = C[c] + Cardinality(OfClient(G \cup {w}, c))
      BY DEF ClientsWith
  <2>2. ClientsWith(C, G) = [q \in Clients |-> C[q] + Cardinality(OfClient(G, q))]
      BY DEF ClientsWith
  <2>3. [ClientsWith(C, G) EXCEPT ![job[w].client] = @ + 1][c] =
            C[c] + Cardinality(OfClient(G, c)) + (IF c = job[w].client THEN 1 ELSE 0)
      BY <1>2, <1>5, <2>2
  <2>4. Cardinality(OfClient(G \cup {w}, c)) =
            Cardinality(OfClient(G, c)) + (IF c = job[w].client THEN 1 ELSE 0)
      BY <1>2, <1>4
  <2> QED  BY <1>2, <2>1, <2>3, <2>4
<1> QED  BY <1>6, <1>7 DEF PoolsWith, ClientsWith

(* A waiter that is eligible is granted the next worker: it was its turn. *)
LEMMA GrantStep ==
    ASSUME NEW G, NEW W, NEW f, NEW s, NEW F, NEW P, NEW C, Iteration(G, W, f, s, F, P, C),
           NEW w \in Requests, Grant(w)
    PROVE  Within(G \cup {w}, W, f, s, F, P, C)'
<1> DEFINE H == G \cup {w}
<1>1. /\ Pop(w) /\ fut[w] = "pending" /\ Eligible(w, poolInuse, clientInuse)
      /\ slot' = [slot EXCEPT ![w] = Head(free)]
      /\ free' = Tail(free)
      /\ poolInuse' = [poolInuse EXCEPT ![job[w].pool] = @ + 1]
      /\ clientInuse' = [clientInuse EXCEPT ![job[w].client] = @ + 1]
      /\ fut' = [fut EXCEPT ![w] = "granted"]
      /\ skipped' = skipped
    BY DEF Grant
<1>2. /\ w \in W /\ w \in waiting /\ w \notin G /\ job' = job
      /\ waiting' = waiting \ {w} /\ waiting' \in SUBSET W /\ waiting' \cap G = {}
      /\ \A v \in waiting' : \A u \in W \ waiting' : Before(s, u, v)
      /\ \A u \in W \ waiting : Before(s, u, w) /\ ~Before(s, w, u)
      /\ ~Before(s, w, w)
      /\ Ahead(s, G, w) = G
      /\ Cardinality(G) < Len(F)
      /\ Head(free) = F[Cardinality(G) + 1]
      /\ Tail(free) = SubSeq(F, Cardinality(G) + 2, Len(F))
      /\ F[Cardinality(G) + 1] \in Workers
      /\ fut[w] = f[w]
    BY <1>1, PopFacts, ZenonT(60)
<1>3. Within(G, W, f, s, F, P, C) /\ SoFar(G, W, f, s, F, P, C) /\ Start(W, f, s, F, P, C)
    BY DEF Iteration, Within
<1>4. w \in LiveOf(W, f)
    BY <1>1, <1>2 DEF LiveOf
<1>5. G \in SUBSET LiveOf(W, f) /\ H \in SUBSET LiveOf(W, f)
    BY <1>3, <1>4 DEF SoFar
<1>6. G \in SUBSET Requests /\ IsFiniteSet(G) /\ Cardinality(G) \in Nat /\ Len(F) \in Nat
    BY <1>3, <1>5, SetsFinite
<1>7. Cardinality(H) = Cardinality(G) + 1
    BY <1>2, <1>6, FS_AddElement
<1>8. PoolsWith(P, H) = poolInuse' /\ ClientsWith(C, H) = clientInuse'
  <2>1. /\ PoolsWith(P, H) = [PoolsWith(P, G) EXCEPT ![job[w].pool] = @ + 1]
        /\ ClientsWith(C, H) = [ClientsWith(C, G) EXCEPT ![job[w].client] = @ + 1]
    <3>1. job \in [Requests -> Jobs] /\ P \in [Pools -> Int] /\ C \in [Clients -> Int]
        BY <1>3 DEF Start
    <3> QED  BY <1>2, <1>6, <3>1, OneMore
  <2>2. poolInuse = PoolsWith(P, G) /\ clientInuse = ClientsWith(C, G)
      BY <1>3 DEF SoFar
  <2> QED  BY <1>1, <2>1, <2>2
<1>9. G \in SUBSET W \ waiting
    BY <1>3 DEF Within, SoFar, LiveOf
<1>10. Ahead(s, H, w) = G
    BY <1>2 DEF Ahead
<1>11. \A u \in W \ waiting : Ahead(s, H, u) = Ahead(s, G, u)
    BY <1>2 DEF Ahead
<1>12. Turn(w, H, s, F, P, C)
    BY <1>1, <1>2, <1>3, <1>10 DEF Turn, SoFar
<1>13. \A u \in W \ waiting : Turn(u, H, s, F, P, C) <=> Turn(u, G, s, F, P, C)
    BY <1>11 DEF Turn
<1>14. \A v : Turn(v, H, s, F, P, C)' <=> Turn(v, H, s, F, P, C)
    BY <1>2, OrderFixed
<1>15. \A v, u : Before(s, v, u)' <=> Before(s, v, u)
    BY <1>2, OrderFixed
<1>16. \A v : Ahead(s, H, v)' = Ahead(s, H, v)
    BY <1>2, OrderFixed
<1>17. PoolsWith(P, H)' = PoolsWith(P, H) /\ ClientsWith(C, H)' = ClientsWith(C, H)
    BY <1>2, OrderFixed
<1>18. SoFar(H, W, f, s, F, P, C)'
  <2>1. Cardinality(H) <= Len(F)
      BY <1>2, <1>6, <1>7
  <2>2. fut' = [r \in Requests |-> IF r \in H THEN "granted" ELSE f[r]]
      BY <1>1, <1>3 DEF SoFar
  <2>3. Cardinality(H) + 1 = Cardinality(G) + 2
      BY <1>6, <1>7
  <2>4. free' = SubSeq(F, Cardinality(H) + 1, Len(F))
      BY <1>1, <1>2, <2>3
  <2>5. slot' \in [Requests -> Workers \cup {NoWorker}] /\ slot'[w] = F[Cardinality(G) + 1]
        /\ \A g \in Requests : g # w => slot'[g] = slot[g]
      BY <1>1, <1>2, <1>3 DEF SoFar
  <2>6. \A g \in H : slot'[g] = F[Cardinality(Ahead(s, H, g)) + 1]
    <3>1. \A g \in G : slot[g] = F[Cardinality(Ahead(s, G, g)) + 1]
        BY <1>3 DEF SoFar
    <3>2. \A g \in G : g \in Requests /\ g # w /\ Ahead(s, H, g) = Ahead(s, G, g)
        BY <1>2, <1>6, <1>9, <1>11
    <3> QED  BY <1>10, <2>5, <3>1, <3>2
  <2> HIDE DEF H
  <2> QED  BY <1>5, <1>8, <1>16, <1>17, <2>1, <2>2, <2>4, <2>5, <2>6 DEF SoFar
<1>19. skipped' = LiveOf(W, f) \ (H \cup waiting')
    BY <1>1, <1>2, <1>3 DEF Within
<1>20. \A v \in LiveOf(W, f) \ waiting' : v \in H <=> Turn(v, H, s, F, P, C)'
  <2>1. \A v \in LiveOf(W, f) \ waiting : v \in W \ waiting /\ v # w
      BY <1>2 DEF LiveOf
  <2>2. \A v \in LiveOf(W, f) \ waiting : v \in G <=> Turn(v, G, s, F, P, C)
      BY <1>3 DEF Within
  <2> QED  BY <1>2, <1>12, <1>13, <1>14, <2>1, <2>2
<1>21. \A v \in W \ (LiveOf(W, f) \cup waiting') : \E g \in H : Before(s, v, g)
  <2>1. \A v \in W \ (LiveOf(W, f) \cup waiting') : v \in W \ waiting
      BY <1>2, <1>4
  <2> QED  BY <1>2, <2>1
<1>22. waiting' \cap H = {}
    BY <1>2
<1> HIDE DEF H
<1> QED  BY <1>2, <1>15, <1>18, <1>19, <1>20, <1>21, <1>22 DEF Within, H

(* The loop is over: no waiter left in the heap could have had its turn. *)
LEMMA FinishStep ==
    ASSUME NEW G, NEW W, NEW f, NEW s, NEW F, NEW P, NEW C, Iteration(G, W, f, s, F, P, C),
           Finish
    PROVE  AtEnd(G, W, f, s, F, P, C)'
<1>1. /\ waiting = {} \/ free = <<>>
      /\ waiting' = waiting \cup skipped
      /\ UNCHANGED <<job, fut, slot, free, poolInuse, clientInuse>>
    BY DEF Finish
<1>2. Within(G, W, f, s, F, P, C) /\ SoFar(G, W, f, s, F, P, C) /\ Start(W, f, s, F, P, C)
    BY DEF Iteration, Within
<1>3. /\ waiting \in SUBSET W /\ waiting \cap G = {} /\ G \in SUBSET LiveOf(W, f)
      /\ \A v \in waiting : \A u \in W \ waiting : Before(s, u, v)
      /\ skipped = LiveOf(W, f) \ (G \cup waiting)
      /\ LiveOf(W, f) \in SUBSET W
    BY <1>2 DEF Within, SoFar, LiveOf
<1>4. Cardinality(G) \in Nat /\ Len(F) \in Nat /\ Cardinality(G) <= Len(F) /\ F \in Seq(Workers)
    BY <1>2, <1>3, SetsFinite DEF SoFar, Start
<1>5. waiting # {} => Cardinality(G) = Len(F)
  <2>1. waiting # {} => SubSeq(F, Cardinality(G) + 1, Len(F)) = <<>>
      BY <1>1, <1>2 DEF SoFar
  <2> QED  BY <1>4, <2>1, FreeFacts
<1>6. \A w \in waiting : Ahead(s, G, w) = G
    BY <1>3 DEF Ahead
<1>7. \A w \in LiveOf(W, f) : w \in G <=> Turn(w, G, s, F, P, C)
  <2> TAKE w \in LiveOf(W, f)
  <2>1. CASE w \in waiting
    <3>1. Cardinality(Ahead(s, G, w)) = Len(F)
        BY <1>5, <1>6, <2>1
    <3> QED  BY <1>3, <1>4, <2>1, <3>1 DEF Turn
  <2>2. CASE w \notin waiting
      BY <1>2, <2>2 DEF Within
  <2> QED  BY <2>1, <2>2
<1>8. IsGrant(G, LiveOf(W, f), s, F, P, C)
    BY <1>7, GrantTurns
<1>9. waiting' = W \ (G \cup Discarded(G, W, LiveOf(W, f), s, F))
  <2>1. \A w \in waiting : \A g \in G : ~Before(s, w, g)
    <3>1. W \in SUBSET Requests /\ job \in [Requests -> Jobs] /\ s \in [Requests -> Nat] /\ Ordered(s, W)
        BY <1>2 DEF Start
    <3>2. /\ \A u \in W : ~Before(s, u, u)
          /\ \A u, v, x \in W : Before(s, u, v) /\ Before(s, v, x) => Before(s, u, x)
        BY <3>1, BeforeOrder
    <3> QED  BY <1>3, <3>2
  <2>2. \A w \in waiting : ~(Cardinality(G) < Len(F))
      BY <1>4, <1>5
  <2>3. \A w \in W \ (LiveOf(W, f) \cup waiting) :
            Cardinality(G) < Len(F) \/ \E g \in G : Before(s, w, g)
      BY <1>2 DEF Within
  <2>4. Discarded(G, W, LiveOf(W, f), s, F) = W \ (LiveOf(W, f) \cup waiting)
      BY <2>1, <2>2, <2>3 DEF Discarded
  <2> QED  BY <1>1, <1>3, <2>4
<1>10. SoFar(G, W, f, s, F, P, C)'
    BY <1>1, <1>2, OrderFixed DEF SoFar
<1>11. \A v : Turn(v, G, s, F, P, C)' <=> Turn(v, G, s, F, P, C)
    BY <1>1, OrderFixed
<1>12. IsGrant(G, LiveOf(W, f), s, F, P, C)'
  <2>1. \A w \in LiveOf(W, f) : w \in G <=> Turn(w, G, s, F, P, C)'
      BY <1>7, <1>11
  <2> QED  BY <2>1 DEF IsGrant, Turn
<1>13. Discarded(G, W, LiveOf(W, f), s, F)' = Discarded(G, W, LiveOf(W, f), s, F)
  <2>1. \A v, u : Before(s, v, u)' <=> Before(s, v, u)
      BY <1>1, OrderFixed
  <2> QED  BY <2>1 DEF Discarded
<1> QED  BY <1>9, <1>10, <1>12, <1>13 DEF AtEnd

-----------------------------------------------------------------------------
(* When the loop starts, nothing has been popped or granted. *)
LEMMA LoopStart ==
    ASSUME IsFiniteSet(Requests), LoopInit
    PROVE  LoopInv
<1>1. /\ job \in [Requests -> Jobs]
      /\ fut \in [Requests -> FutStates]
      /\ waiting \in SUBSET Requests /\ IsFiniteSet(waiting)
      /\ seq \in [Requests -> Nat]
      /\ slot \in [Requests -> Workers \cup {NoWorker}]
  <2>1. fut \in [Requests -> FutStates]
      BY DEF LoopInit, FutStates
  <2>2. waiting \in SUBSET Requests /\ IsFiniteSet(waiting)
      BY FS_Subset DEF LoopInit
  <2>3. seq \in [Requests -> Nat]
    <3>1. seq \in [Requests -> 0 .. Cardinality(Requests) - 1]
        BY DEF LoopInit
    <3>2. 0 .. Cardinality(Requests) - 1 \in SUBSET Nat
        BY FS_CardinalityType
    <3> QED  BY <3>1, <3>2
  <2> QED  BY <2>1, <2>2, <2>3 DEF LoopInit
<1>2. Ordered(seq, waiting)
    BY <1>1 DEF LoopInit, Ordered
<1>3. Holders \in SUBSET Requests /\ IsFiniteSet(Holders)
    BY FS_Subset DEF Holders
<1>4. free \in Seq(Workers)
  <2>1. Cardinality(Workers) - Cardinality(Holders) \in Nat
    <3>1. Cardinality(Workers) \in Nat /\ Cardinality(Holders) \in Nat
        BY <1>3, WorkersAssumption, FS_CardinalityType
    <3>2. Cardinality(Holders) <= Cardinality(Workers)
        BY DEF LoopInit
    <3> QED  BY <3>1, <3>2
  <2>2. PICK n \in Nat : n = Cardinality(Workers) - Cardinality(Holders)
      BY <2>1
  <2>3. free \in [1 .. n -> Workers]
      BY <2>2 DEF LoopInit
  <2> QED  BY <2>3, SeqDef
<1>5. poolInuse \in [Pools -> Int] /\ clientInuse \in [Clients -> Int]
  <2>1. \A p : Cardinality(InPool(Holders, p)) \in Nat
      BY <1>3, FS_Subset, FS_CardinalityType DEF InPool
  <2>2. \A c : Cardinality(OfClient(Holders, c)) \in Nat
      BY <1>3, FS_Subset, FS_CardinalityType DEF OfClient
  <2> QED  BY <2>1, <2>2 DEF LoopInit
<1>6. PICK W, f, s, F, P, C : /\ W = waiting /\ f = fut /\ s = seq
                              /\ F = free /\ P = poolInuse /\ C = clientInuse
    OBVIOUS
<1>7. Start(W, f, s, F, P, C)
    BY <1>1, <1>2, <1>4, <1>5, <1>6 DEF Start
<1>8. SoFar({}, W, f, s, F, P, C)
  <2>1. Cardinality({}) = 0 /\ Len(F) \in Nat
      BY <1>4, <1>6, FS_EmptySet
  <2>2. free = SubSeq(F, 1, Len(F))
      BY <1>4, <1>6, SubSeqFull
  <2>3. PoolsWith(P, {}) = P
    <3>1. \A p : Cardinality(InPool({}, p)) = 0
      <4> TAKE p
      <4>1. InPool({}, p) = {}
          BY DEF InPool
      <4> QED  BY <4>1, FS_EmptySet
    <3>2. P \in [Pools -> Int]
        BY <1>5, <1>6
    <3> QED  BY <3>1, <3>2 DEF PoolsWith
  <2>4. ClientsWith(C, {}) = C
    <3>1. \A c : Cardinality(OfClient({}, c)) = 0
      <4> TAKE c
      <4>1. OfClient({}, c) = {}
          BY DEF OfClient
      <4> QED  BY <4>1, FS_EmptySet
    <3>2. C \in [Clients -> Int]
        BY <1>5, <1>6
    <3> QED  BY <3>1, <3>2 DEF ClientsWith
  <2> QED  BY <1>1, <1>6, <2>1, <2>2, <2>3, <2>4 DEF SoFar
<1>9. Within({}, W, f, s, F, P, C)
  <2>1. skipped = {}
      BY DEF LoopInit
  <2> QED  BY <1>6, <1>8, <2>1 DEF Within, LiveOf
<1>10. was = [W |-> W, f |-> f, F |-> F, P |-> P, C |-> C] /\ at = "loop"
    BY <1>6 DEF LoopInit
<1> QED  BY <1>6, <1>7, <1>9, <1>10 DEF LoopInv

(* Every iteration keeps what has been granted as IsGrant says. *)
LEMMA LoopStep ==
    ASSUME LoopInv, [LoopNext]_<<vars, loopVars>>
    PROVE  LoopInv'
<1>1. PICK W, f, s, F, P, C, G :
          /\ was = [W |-> W, f |-> f, F |-> F, P |-> P, C |-> C]
          /\ seq = s
          /\ Start(W, f, s, F, P, C)
          /\ \/ at = "loop" /\ Within(G, W, f, s, F, P, C)
             \/ at = "done" /\ AtEnd(G, W, f, s, F, P, C)
    BY DEF LoopInv
<1>2. was' = was /\ seq' = seq /\ job' = job
    BY DEF LoopNext, Drop, Skip, Grant, Pop, Finish, vars, loopVars
<1>3. Start(W, f, s, F, P, C)'
    BY <1>1, <1>2 DEF Start, Ordered
<1>4. ASSUME at = "loop", at' = "loop", NEW H, Within(H, W, f, s, F, P, C)'
      PROVE  LoopInv'
    BY <1>1, <1>2, <1>3, <1>4 DEF LoopInv
<1>5. at = "loop" => Iteration(G, W, f, s, F, P, C)
    BY <1>1 DEF Iteration
<1>6. ASSUME NEW w \in Requests, Drop(w) PROVE LoopInv'
  <2>1. at = "loop" /\ at' = "loop"
      BY <1>6 DEF Drop, Pop
  <2>2. Within(G, W, f, s, F, P, C)'
      BY <1>5, <1>6, <2>1, DropStep
  <2> QED  BY <1>4, <2>1, <2>2
<1>7. ASSUME NEW w \in Requests, Skip(w) PROVE LoopInv'
  <2>1. at = "loop" /\ at' = "loop"
      BY <1>7 DEF Skip, Pop
  <2>2. Within(G, W, f, s, F, P, C)'
      BY <1>5, <1>7, <2>1, SkipStep
  <2> QED  BY <1>4, <2>1, <2>2
<1>8. ASSUME NEW w \in Requests, Grant(w) PROVE LoopInv'
  <2>1. at = "loop" /\ at' = "loop"
      BY <1>8 DEF Grant, Pop
  <2>2. Within(G \cup {w}, W, f, s, F, P, C)'
      BY <1>5, <1>8, <2>1, GrantStep
  <2> QED  BY <1>4, <2>1, <2>2
<1>9. ASSUME Finish PROVE LoopInv'
  <2>1. at = "loop" /\ at' = "done"
      BY <1>9 DEF Finish
  <2>2. AtEnd(G, W, f, s, F, P, C)'
      BY <1>5, <1>9, <2>1, FinishStep
  <2> QED  BY <1>1, <1>2, <1>3, <2>1, <2>2 DEF LoopInv
<1>10. ASSUME UNCHANGED <<vars, loopVars>> PROVE LoopInv'
  <2>1. /\ job' = job /\ fut' = fut /\ slot' = slot /\ waiting' = waiting /\ free' = free
        /\ poolInuse' = poolInuse /\ clientInuse' = clientInuse
        /\ at' = at /\ skipped' = skipped
      BY <1>10 DEF vars, loopVars
  <2>2. SoFar(G, W, f, s, F, P, C) => SoFar(G, W, f, s, F, P, C)'
      BY <2>1, OrderFixed DEF SoFar
  <2>3. \A v, u : Before(s, v, u)' <=> Before(s, v, u)
      BY <2>1, OrderFixed
  <2>4. \A v : Turn(v, G, s, F, P, C)' <=> Turn(v, G, s, F, P, C)
      BY <2>1, OrderFixed
  <2>5. Within(G, W, f, s, F, P, C) => Within(G, W, f, s, F, P, C)'
      BY <2>1, <2>2, <2>3, <2>4 DEF Within
  <2>6. IsGrant(G, LiveOf(W, f), s, F, P, C) => IsGrant(G, LiveOf(W, f), s, F, P, C)'
    <3> SUFFICES ASSUME IsGrant(G, LiveOf(W, f), s, F, P, C)
                 PROVE  IsGrant(G, LiveOf(W, f), s, F, P, C)'
        OBVIOUS
    <3>1. \A w \in LiveOf(W, f) : w \in G <=> Turn(w, G, s, F, P, C)
        BY GrantTurns
    <3>2. \A w \in LiveOf(W, f) : w \in G <=> Turn(w, G, s, F, P, C)'
        BY <2>4, <3>1
    <3> QED  BY <3>2 DEF IsGrant, Turn
  <2>7. Discarded(G, W, LiveOf(W, f), s, F)' = Discarded(G, W, LiveOf(W, f), s, F)
      BY <2>3 DEF Discarded
  <2>8. AtEnd(G, W, f, s, F, P, C) => AtEnd(G, W, f, s, F, P, C)'
      BY <2>1, <2>2, <2>6, <2>7 DEF AtEnd
  <2> QED  BY <1>1, <1>2, <1>3, <2>1, <2>5, <2>8 DEF LoopInv
<1> QED  BY <1>6, <1>7, <1>8, <1>9, <1>10 DEF LoopNext

(* What the loop leaves behind is the one result of Dispatch. *)
LEMMA LoopResult ==
    ASSUME LoopInv
    PROVE  LoopIsDispatch
<1>1. PICK W, f, s, F, P, C, G :
          /\ was = [W |-> W, f |-> f, F |-> F, P |-> P, C |-> C]
          /\ seq = s
          /\ Start(W, f, s, F, P, C)
          /\ \/ at = "loop" /\ Within(G, W, f, s, F, P, C)
             \/ at = "done" /\ AtEnd(G, W, f, s, F, P, C)
    BY DEF LoopInv
<1> SUFFICES ASSUME at = "done" PROVE LoopIsDispatch
    BY DEF LoopIsDispatch
<1>2. AtEnd(G, W, f, s, F, P, C)
    BY <1>1
<1>3. was.W = W /\ was.f = f /\ was.F = F /\ was.P = P /\ was.C = C
    BY <1>1
<1>4. G \in SUBSET LiveOf(W, f) /\ IsGrant(G, LiveOf(W, f), s, F, P, C)
    BY <1>2 DEF AtEnd, SoFar
<1>5. LiveOf(W, f) \in SUBSET Requests /\ IsFiniteSet(LiveOf(W, f)) /\ Ordered(s, LiveOf(W, f))
    BY <1>1, <1>4, SetsFinite
<1>6. job \in [Requests -> Jobs] /\ s \in [Requests -> Nat] /\ f \in [Requests -> FutStates]
    BY <1>1 DEF Start
<1>7. \A K \in SUBSET LiveOf(W, f) : IsGrant(K, LiveOf(W, f), s, F, P, C) <=> K = G
    BY <1>4, <1>5, <1>6, OneGrant
<1>8. fut = [r \in Requests |-> IF r \in G THEN "granted" ELSE f[r]]
    BY <1>2 DEF AtEnd, SoFar
<1>9. G = {w \in LiveOf(W, f) : fut[w] = "granted"}
    BY <1>4, <1>5, <1>8 DEF LiveOf
<1>10. /\ waiting = W \ (G \cup Discarded(G, W, LiveOf(W, f), s, F))
       /\ free = SubSeq(F, Cardinality(G) + 1, Len(F))
       /\ poolInuse = PoolsWith(P, G) /\ clientInuse = ClientsWith(C, G)
       /\ \A r \in Requests : r \notin G => fut[r] = f[r]
       /\ \A g \in G : slot[g] = F[Cardinality(Ahead(s, G, g)) + 1]
    BY <1>2, <1>8 DEF AtEnd, SoFar
<1> DEFINE L == {w \in was.W : was.f[w] = "pending"}
           K == {w \in L : fut[w] = "granted"}
<1>11. L = LiveOf(W, f) /\ K = G
    BY <1>3, <1>9 DEF LiveOf
<1> HIDE DEF L, K
<1>12. /\ \A S \in SUBSET L : IsGrant(S, L, seq, was.F, was.P, was.C) <=> S = K
       /\ waiting = was.W \ (K \cup Discarded(K, was.W, L, seq, was.F))
       /\ free = SubSeq(was.F, Cardinality(K) + 1, Len(was.F))
       /\ poolInuse = PoolsWith(was.P, K)
       /\ clientInuse = ClientsWith(was.C, K)
       /\ \A r \in Requests : r \notin K => fut[r] = was.f[r]
       /\ \A g \in K : slot[g] = was.F[Cardinality(Ahead(seq, K, g)) + 1]
    BY <1>1, <1>3, <1>7, <1>10, <1>11
<1> QED  BY <1>12 DEF LoopIsDispatch, L, K

(***************************************************************************)
(* The loop of _dispatch (scheduler.py:130-146) ends as Dispatch says,     *)
(* whatever the number of requests, workers and jobs, the futures found    *)
(* done in the heap, the free list and the counters.                       *)
(***************************************************************************)
THEOREM LoopDispatches ==
    ASSUME IsFiniteSet(Requests)
    PROVE  LoopSpec => []LoopIsDispatch
<1>1. LoopInit => LoopInv
    BY LoopStart
<1>2. LoopInv /\ [LoopNext]_<<vars, loopVars>> => LoopInv'
    BY LoopStep
<1>3. LoopInv => LoopIsDispatch
    BY LoopResult
<1> QED  BY <1>1, <1>2, <1>3, PTL DEF LoopSpec
=============================================================================
