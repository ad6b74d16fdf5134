--------------------------- MODULE WorkPoolProofs ---------------------------
(***************************************************************************)
(* In WorkPool no task is lost or duplicated, for any number of workers    *)
(* and any tasks, each spawned any number of times.                        *)
(*                                                                         *)
(* A step of WorkPool moves tasks between at most five holders: what a     *)
(* worker has to schedule, what it moves, one queue, the shared queue and  *)
(* the tasks that ran.  So it is enough that their counts add up to the    *)
(* same (Transfer), and the counts of a sequence cut in two are known      *)
(* (CountJoin and what follows from it).                                   *)
(***************************************************************************)
EXTENDS WorkPool, FiniteSetTheorems, SequenceTheorems, TLAPS

Count(s, t) == Cardinality(Where(s, t))

LEMMA WhereFinite ==
  ASSUME NEW S, NEW s \in Seq(S), NEW t
  PROVE  IsFiniteSet(Where(s, t)) /\ Count(s, t) \in Nat
  <1>1. Where(s, t) \subseteq 1 .. Len(s) /\ Len(s) \in Nat
    BY DEF Where
  <1>2. IsFiniteSet(1 .. Len(s))
    BY <1>1, FS_Interval
  <1>3. IsFiniteSet(Where(s, t))
    BY <1>1, <1>2, FS_Subset
  <1> QED  BY <1>3, FS_CardinalityType DEF Count

LEMMA CountJoin ==
  ASSUME NEW S, NEW s \in Seq(S), NEW u \in Seq(S), NEW t
  PROVE  Count(s \o u, t) = Count(s, t) + Count(u, t)
  <1>1. PICK m \in Nat, n \in Nat : m = Len(s) /\ n = Len(u)
    OBVIOUS
  <1>2. /\ DOMAIN s = 1 .. m /\ DOMAIN u = 1 .. n /\ DOMAIN (s \o u) = 1 .. m + n
        /\ \A i \in 1 .. m + n : (s \o u)[i] = IF i <= m THEN s[i] ELSE u[i - m]
    BY <1>1
  <1> DEFINE A == Where(s, t)
             B == Where(u, t)
             C == {i \in m + 1 .. m + n : u[i - m] = t}
  <1>3. Where(s \o u, t) = A \cup C /\ A \cap C = {}
    <2>1. ASSUME NEW i \in 1 .. m + n PROVE (s \o u)[i] = t <=> i \in A \cup C
      BY <1>2 DEF Where
    <2>2. A \cup C \subseteq 1 .. m + n
      BY <1>2 DEF Where
    <2>3. A \cap C = {}
      BY <1>2 DEF Where
    <2> QED  BY <1>2, <2>1, <2>2, <2>3 DEF Where
  <1>4. IsFiniteSet(A) /\ IsFiniteSet(B) /\ Cardinality(A) \in Nat /\ Cardinality(B) \in Nat
    BY WhereFinite DEF Count
  <1>5. ExistsBijection(B, C)
    <2> DEFINE f == [i \in B |-> i + m]
    <2>1. f \in [B -> C]
      BY <1>2 DEF Where
    <2>2. \A i, j \in B : f[i] = f[j] => i = j
      BY <1>2 DEF Where
    <2>3. ASSUME NEW k \in C PROVE \E i \in B : f[i] = k
      <3>1. k - m \in B /\ f[k - m] = k
        BY <1>2 DEF Where
      <3> QED  BY <3>1
    <2> HIDE DEF f
    <2>4. f \in Bijection(B, C)
      BY <2>1, <2>2, <2>3 DEF Bijection, Injection, Surjection, IsInjective
    <2> QED  BY <2>4 DEF ExistsBijection
  <1>6. IsFiniteSet(C) /\ Cardinality(C) = Cardinality(B)
    BY <1>4, <1>5, FS_Bijection
  <1>7. Cardinality(A \cup C) = Cardinality(A) + Cardinality(C)
    <2> HIDE DEF A, B, C
    <2>1. Cardinality(A \cap C) = 0
      BY <1>3, FS_EmptySet
    <2>2. Cardinality(A \cup C) = Cardinality(A) + Cardinality(C) - Cardinality(A \cap C)
      BY <1>4, <1>6, FS_Union
    <2> QED  BY <1>4, <1>6, <2>1, <2>2
  <1> QED  BY <1>3, <1>6, <1>7 DEF Count

LEMMA CountNone ==
  ASSUME NEW t
  PROVE  Count(<<>>, t) = 0
  <1>1. Where(<<>>, t) = {}
    BY DEF Where
  <1> QED  BY <1>1, FS_EmptySet DEF Count

LEMMA CountOne ==
  ASSUME NEW x, NEW t
  PROVE  Count(<<x>>, t) = IF x = t THEN 1 ELSE 0
  <1>1. Where(<<x>>, t) = IF x = t THEN {1} ELSE {}
    BY DEF Where
  <1> QED  BY <1>1, FS_EmptySet, FS_Singleton DEF Count

LEMMA CountFirst ==
  ASSUME NEW S, NEW s \in Seq(S), s # <<>>, NEW t
  PROVE  Count(s, t) = Count(<<Head(s)>>, t) + Count(Tail(s), t)
  <1>1. s = <<Head(s)>> \o Tail(s) /\ <<Head(s)>> \in Seq(S) /\ Tail(s) \in Seq(S)
    OBVIOUS
  <1>2. PICK a \in Seq(S) : a = <<Head(s)>>
    BY <1>1
  <1>3. PICK b \in Seq(S) : b = Tail(s)
    BY <1>1
  <1>4. Count(a \o b, t) = Count(a, t) + Count(b, t)
    BY CountJoin
  <1>5. s = a \o b
    BY <1>1, <1>2, <1>3
  <1> QED  BY <1>2, <1>3, <1>4, <1>5

LEMMA CountLast ==
  ASSUME NEW S, NEW s \in Seq(S), NEW v \in S, NEW t
  PROVE  Count(Append(s, v), t) = Count(s, t) + Count(<<v>>, t)
  <1>1. Append(s, v) = s \o <<v>> /\ <<v>> \in Seq(S)
    OBVIOUS
  <1>2. PICK a \in Seq(S) : a = <<v>>
    BY <1>1
  <1>3. Count(s \o a, t) = Count(s, t) + Count(a, t)
    BY CountJoin
  <1>4. Append(s, v) = s \o a
    BY <1>1, <1>2
  <1> QED  BY <1>2, <1>3, <1>4

LEMMA CountCut ==
  ASSUME NEW S, NEW s \in Seq(S), NEW n \in Nat, n = Len(s), NEW k \in 0 .. n, NEW t
  PROVE  /\ SubSeq(s, 1, k) \in Seq(S) /\ SubSeq(s, k + 1, n) \in Seq(S)
         /\ Count(s, t) = Count(SubSeq(s, 1, k), t) + Count(SubSeq(s, k + 1, n), t)
  <1> DEFINE a == SubSeq(s, 1, k)
             b == SubSeq(s, k + 1, n)
  <1>1. a \in Seq(S) /\ Len(a) = k /\ \A i \in 1 .. k : a[i] = s[i]
    OBVIOUS
  <1>2. b \in Seq(S) /\ Len(b) = n - k /\ \A i \in 1 .. n - k : b[i] = s[k + i]
    <2>1. k + 1 \in 1 .. n + 1 /\ \A i \in k + 1 .. n : s[i] \in S
      OBVIOUS
    <2>2. /\ b \in Seq(S) /\ Len(b) = IF k + 1 <= n THEN n - (k + 1) + 1 ELSE 0
          /\ \A i \in 1 .. n - (k + 1) + 1 : b[i] = s[(k + 1) + i - 1]
      BY <2>1, SubSeqProperties
    <2> QED  BY <2>2
  <1> HIDE DEF a, b
  <1>3. a \o b = s
    <2>1. /\ a \o b \in Seq(S) /\ Len(a \o b) = n
          /\ \A i \in 1 .. n : (a \o b)[i] = IF i <= k THEN a[i] ELSE b[i - k]
      <3>0. \A x \in Nat : \A y \in 0 .. x : x - y \in Nat
        OBVIOUS
      <3>1. PICK j \in Nat : j = n - k
        BY <3>0
      <3>2. Len(a) = k /\ Len(b) = j /\ a \in Seq(S) /\ b \in Seq(S)
        BY <1>1, <1>2, <3>1
      <3>3. /\ a \o b \in Seq(S) /\ Len(a \o b) = k + j
            /\ \A i \in 1 .. k + j : (a \o b)[i] = IF i <= k THEN a[i] ELSE b[i - k]
        BY <3>2, ConcatProperties
      <3>4. k + j = n
        BY <3>1
      <3> QED  BY <3>3, <3>4
    <2>2. ASSUME NEW i \in 1 .. n PROVE (a \o b)[i] = s[i]
      <3>1. CASE i <= k
        <4>1. i \in 1 .. k
          BY <3>1
        <4>2. (a \o b)[i] = a[i]
          BY <2>1, <3>1
        <4> QED  BY <1>1, <4>1, <4>2
      <3>2. CASE i > k
        <4>1. i - k \in 1 .. n - k /\ k + (i - k) = i /\ ~(i <= k)
          BY <3>2
        <4>2. (a \o b)[i] = b[i - k]
          BY <2>1, <4>1
        <4> QED  BY <1>2, <4>1, <4>2
      <3>3. i <= k \/ i > k
        OBVIOUS
      <3> QED  BY <3>1, <3>2, <3>3
    <2> QED  BY <2>1, <2>2, SeqEqual
  <1>4. Count(s, t) = Count(a, t) + Count(b, t)
    BY <1>1, <1>2, <1>3, CountJoin
  <1> QED  BY <1>1, <1>2, <1>4 DEF a, b

-----------------------------------------------------------------------------
LEMMA PairsCount ==
  ASSUME NEW h, NEW S, IsFiniteSet(S)
  PROVE  IsFiniteSet({h} \X S) /\ Cardinality({h} \X S) = Cardinality(S)
  <1> DEFINE f == [i \in S |-> <<h, i>>]
  <1>1. f \in Bijection(S, {h} \X S)
    <2>1. f \in [S -> {h} \X S]
      OBVIOUS
    <2>2. \A i, j \in S : f[i] = f[j] => i = j
      OBVIOUS
    <2>3. \A p \in {h} \X S : \E i \in S : f[i] = p
      OBVIOUS
    <2> HIDE DEF f
    <2> QED  BY <2>1, <2>2, <2>3 DEF Bijection, Injection, Surjection, IsInjective
  <1> QED  BY <1>1, FS_Bijection DEF ExistsBijection

(* One holder more.                                                        *)
With(P, h, S) == P \cup ({h} \X S)

LEMMA HolderAdds ==
  ASSUME NEW P, IsFiniteSet(P), NEW h, NEW S, IsFiniteSet(S), \A p \in P : p[1] # h
  PROVE  /\ IsFiniteSet(With(P, h, S)) /\ Cardinality(S) \in Nat
         /\ Cardinality(With(P, h, S)) = Cardinality(P) + Cardinality(S)
         /\ Cardinality(P) \in Nat
  <1>1. P \cap ({h} \X S) = {}
    OBVIOUS
  <1>2. IsFiniteSet({h} \X S) /\ Cardinality({h} \X S) = Cardinality(S)
    BY PairsCount
  <1>3. Cardinality(P) \in Nat /\ Cardinality(S) \in Nat
    BY FS_CardinalityType
  <1>4. Cardinality(P \cap ({h} \X S)) = 0
    BY <1>1, FS_EmptySet
  <1>5. /\ IsFiniteSet(P \cup ({h} \X S))
        /\ Cardinality(P \cup ({h} \X S))
             = Cardinality(P) + Cardinality({h} \X S) - Cardinality(P \cap ({h} \X S))
    BY <1>2, FS_Union
  <1> QED  BY <1>2, <1>3, <1>4, <1>5 DEF With

(* Holders apart from five do not change, and the five hold as many.       *)
FiveMove(H, V, W, a, b, c, d, e) ==
  /\ IsFiniteSet(H) /\ DOMAIN V = H /\ DOMAIN W = H
  /\ \A h \in H : IsFiniteSet(V[h]) /\ IsFiniteSet(W[h])
  /\ {a, b, c, d, e} \subseteq H
  /\ a # b /\ a # c /\ a # d /\ a # e /\ b # c /\ b # d /\ b # e
  /\ c # d /\ c # e /\ d # e
  /\ \A h \in H \ {a, b, c, d, e} : V[h] = W[h]
  /\ Cardinality(V[a]) + Cardinality(V[b]) + Cardinality(V[c])
       + Cardinality(V[d]) + Cardinality(V[e])
     = Cardinality(W[a]) + Cardinality(W[b]) + Cardinality(W[c])
         + Cardinality(W[d]) + Cardinality(W[e])

LEMMA FiveChange ==
  ASSUME NEW H, NEW V, NEW W, NEW a, NEW b, NEW c, NEW d, NEW e,
         FiveMove(H, V, W, a, b, c, d, e)
  PROVE  Cardinality(Everywhere(V)) = Cardinality(Everywhere(W))
  <1>0. /\ IsFiniteSet(H) /\ DOMAIN V = H /\ DOMAIN W = H
        /\ \A h \in H : IsFiniteSet(V[h]) /\ IsFiniteSet(W[h])
        /\ a \in H /\ b \in H /\ c \in H /\ d \in H /\ e \in H
        /\ a # b /\ a # c /\ a # d /\ a # e /\ b # c /\ b # d /\ b # e
        /\ c # d /\ c # e /\ d # e
        /\ \A h \in H \ {a, b, c, d, e} : V[h] = W[h]
        /\ Cardinality(V[a]) + Cardinality(V[b]) + Cardinality(V[c])
             + Cardinality(V[d]) + Cardinality(V[e])
           = Cardinality(W[a]) + Cardinality(W[b]) + Cardinality(W[c])
               + Cardinality(W[d]) + Cardinality(W[e])
    BY DEF FiveMove
  <1> DEFINE G == H \ {a, b, c, d, e}
             R == UNION {{h} \X V[h] : h \in G}
  <1>1. IsFiniteSet(R) /\ \A p \in R : p[1] \in G
    <2>1. IsFiniteSet(G)
      BY <1>0, FS_Subset
    <2>2. IsFiniteSet({{h} \X V[h] : h \in G})
      <3> DEFINE T == {{h} \X V[h] : h \in G}
                 f == [h \in G |-> {h} \X V[h]]
      <3>1. f \in [G -> T] /\ \A x \in T : \E h \in G : f[h] = x
        OBVIOUS
      <3> HIDE DEF f, T, G
      <3>2. f \in Surjection(G, T)
        BY <3>1 DEF Surjection
      <3>3. IsFiniteSet(T)
        BY <2>1, <3>2, FS_Surjection
      <3> QED  BY <3>3 DEF T
    <2>3. \A h \in G : IsFiniteSet({h} \X V[h])
      BY <1>0, PairsCount
    <2>4. \A T \in {{h} \X V[h] : h \in G} : IsFiniteSet(T)
      BY <2>3
    <2>5. IsFiniteSet(R)
      BY <2>2, <2>4, FS_UNION
    <2> QED  BY <2>5
  <1>2. R = UNION {{h} \X W[h] : h \in G}
    BY <1>0
  <1>3. ASSUME NEW U, DOMAIN U = H, \A h \in H : IsFiniteSet(U[h]),
               R = UNION {{h} \X U[h] : h \in G}
        PROVE  Cardinality(Everywhere(U))
                 = Cardinality(R) + (Cardinality(U[a]) + Cardinality(U[b])
                     + Cardinality(U[c]) + Cardinality(U[d]) + Cardinality(U[e]))
    <2> DEFINE A == With(R, a, U[a])
               B == With(A, b, U[b])
               C == With(B, c, U[c])
               D == With(C, d, U[d])
               E == With(D, e, U[e])
    <2>1. Everywhere(U) = E
      <3>1. Everywhere(U) = UNION {{h} \X U[h] : h \in H}
        BY <1>3 DEF Everywhere
      <3>2. H = G \cup {a, b, c, d, e}
        BY <1>0
      <3> QED  BY <1>3, <3>1, <3>2 DEF With
    <2>2. /\ \A p \in R : p[1] # a /\ p[1] # b /\ p[1] # c /\ p[1] # d /\ p[1] # e
          /\ \A p \in A : p[1] # b /\ p[1] # c /\ p[1] # d /\ p[1] # e
          /\ \A p \in B : p[1] # c /\ p[1] # d /\ p[1] # e
          /\ \A p \in C : p[1] # d /\ p[1] # e
          /\ \A p \in D : p[1] # e
      BY <1>0, <1>1 DEF With
    <2>3. /\ IsFiniteSet(U[a]) /\ IsFiniteSet(U[b]) /\ IsFiniteSet(U[c])
          /\ IsFiniteSet(U[d]) /\ IsFiniteSet(U[e])
      BY <1>0, <1>3
    <2> HIDE DEF R
    <2>4. /\ IsFiniteSet(A) /\ Cardinality(A) = Cardinality(R) + Cardinality(U[a])
          /\ Cardinality(R) \in Nat /\ Cardinality(U[a]) \in Nat
      BY <1>1, <2>2, <2>3, HolderAdds
    <2> HIDE DEF A
    <2>5. /\ IsFiniteSet(B) /\ Cardinality(B) = Cardinality(A) + Cardinality(U[b])
          /\ Cardinality(U[b]) \in Nat
      BY <2>2, <2>3, <2>4, HolderAdds
    <2> HIDE DEF B
    <2>6. /\ IsFiniteSet(C) /\ Cardinality(C) = Cardinality(B) + Cardinality(U[c])
          /\ Cardinality(U[c]) \in Nat
      BY <2>2, <2>3, <2>5, HolderAdds
    <2> HIDE DEF C
    <2>7. /\ IsFiniteSet(D) /\ Cardinality(D) = Cardinality(C) + Cardinality(U[d])
          /\ Cardinality(U[d]) \in Nat
      BY <2>2, <2>3, <2>6, HolderAdds
    <2> HIDE DEF D
    <2>8. /\ IsFiniteSet(E) /\ Cardinality(E) = Cardinality(D) + Cardinality(U[e])
          /\ Cardinality(U[e]) \in Nat
      BY <2>2, <2>3, <2>7, HolderAdds
    <2> HIDE DEF E
    <2> QED  BY <2>1, <2>4, <2>5, <2>6, <2>7, <2>8
  <1>4. /\ Cardinality(Everywhere(V))
             = Cardinality(R) + (Cardinality(V[a]) + Cardinality(V[b])
                 + Cardinality(V[c]) + Cardinality(V[d]) + Cardinality(V[e]))
        /\ Cardinality(Everywhere(W))
             = Cardinality(R) + (Cardinality(W[a]) + Cardinality(W[b])
                 + Cardinality(W[c]) + Cardinality(W[d]) + Cardinality(W[e]))
    BY <1>0, <1>2, <1>3
  <1> QED  BY <1>0, <1>4

-----------------------------------------------------------------------------
(* The state has its types, and who moves tasks to itself has some.        *)
PoolTypes ==
  /\ todo \in [Workers -> Seq(Tasks)] /\ queue \in [Workers -> Seq(Tasks)]
  /\ global \in Seq(Tasks)
  /\ moving \in [Workers -> [origin : {"none", "spill", "steal", "fetch"}, tasks : Seq(Tasks)]]
  /\ ran \in [Tasks -> Nat]
  /\ \A w \in Workers :
       moving[w].origin \in {"steal", "fetch"} => moving[w].tasks # <<>>

(* How often t is in what a step of w and a queue can change.              *)
Here(w, v, t) ==
  Count(todo[w], t) + Count(moving[w].tasks, t) + Count(queue[v], t)
    + Count(global, t) + ran[t]

LEMMA HoldersFinite ==
  ASSUME IsFiniteSet(Workers)
  PROVE  IsFiniteSet(Holders)
  <1>1. IsFiniteSet({"todo", "queue", "moving"} \X Workers)
    <2>1. IsFiniteSet({"todo", "queue", "moving"})
      <3>1. {"todo", "queue", "moving"} = {"todo"} \cup ({"queue"} \cup {"moving"})
        OBVIOUS
      <3>2. IsFiniteSet({"todo"}) /\ IsFiniteSet({"queue"}) /\ IsFiniteSet({"moving"})
        BY FS_Singleton
      <3>3. IsFiniteSet({"queue"} \cup {"moving"})
        BY <3>2, FS_Union
      <3> DEFINE T == {"queue"} \cup {"moving"}
      <3> HIDE DEF T
      <3>4. IsFiniteSet({"todo"} \cup T)
        BY <3>2, <3>3, FS_Union DEF T
      <3> QED  BY <3>1, <3>4 DEF T
    <2> QED  BY <2>1, FS_Product
  <1>2. IsFiniteSet({<<"global">>, <<"ran">>})
    <2>1. {<<"global">>, <<"ran">>} = {<<"global">>} \cup {<<"ran">>}
      OBVIOUS
    <2>2. IsFiniteSet({<<"global">>}) /\ IsFiniteSet({<<"ran">>})
      BY FS_Singleton
    <2> QED  BY <2>1, <2>2, FS_Union
  <1> QED  BY <1>1, <1>2, FS_Union DEF Holders

(* What is at each holder.                                                 *)
SpotsTyped(t) ==
  /\ DOMAIN Spots(t) = Holders
  /\ \A w \in Workers :
       /\ <<"todo", w>> \in Holders /\ <<"queue", w>> \in Holders
       /\ <<"moving", w>> \in Holders
       /\ Spots(t)[<<"todo", w>>] = Where(todo[w], t)
       /\ Spots(t)[<<"queue", w>>] = Where(queue[w], t)
       /\ Spots(t)[<<"moving", w>>] = Where(moving[w].tasks, t)
  /\ <<"global">> \in Holders /\ Spots(t)[<<"global">>] = Where(global, t)
  /\ <<"ran">> \in Holders /\ Spots(t)[<<"ran">>] = 1 .. ran[t]
  /\ Cardinality(1 .. ran[t]) = ran[t]
  /\ \A h \in Holders : IsFiniteSet(Spots(t)[h])

AllSpotsTyped == \A t \in Tasks : SpotsTyped(t)

LEMMA SpotsAt == PoolTypes => AllSpotsTyped
  <1> SUFFICES ASSUME PoolTypes, NEW t \in Tasks PROVE SpotsTyped(t)
    BY DEF AllSpotsTyped
  <1>1. DOMAIN Spots(t) = Holders /\ <<"global">> \in Holders /\ <<"ran">> \in Holders
    BY DEF Spots, Holders
  <1>2. Spots(t)[<<"global">>] = Where(global, t) /\ Spots(t)[<<"ran">>] = 1 .. ran[t]
    BY <1>1 DEF Spots
  <1>3. ASSUME NEW w \in Workers
        PROVE  /\ <<"todo", w>> \in Holders /\ <<"queue", w>> \in Holders
               /\ <<"moving", w>> \in Holders
               /\ Spots(t)[<<"todo", w>>] = Where(todo[w], t)
               /\ Spots(t)[<<"queue", w>>] = Where(queue[w], t)
               /\ Spots(t)[<<"moving", w>>] = Where(moving[w].tasks, t)
    <2>1. /\ <<"todo", w>> \in Holders /\ <<"queue", w>> \in Holders
          /\ <<"moving", w>> \in Holders
      BY DEF Holders
    <2> QED  BY <2>1 DEF Spots
  <1>4. PICK n \in Nat : n = ran[t]
    BY DEF PoolTypes
  <1>5. IsFiniteSet(1 .. n) /\ Cardinality(1 .. n) = n
    <2>1. IsFiniteSet(1 .. n) /\ Cardinality(1 .. n) = IF 1 > n THEN 0 ELSE n - 1 + 1
      BY FS_Interval
    <2> QED  BY <2>1
  <1>6. ASSUME NEW h \in Holders PROVE IsFiniteSet(Spots(t)[h])
    <2>1. IsFiniteSet(Where(global, t))
      BY WhereFinite DEF PoolTypes
    <2>2. ASSUME NEW w \in Workers
          PROVE  /\ IsFiniteSet(Where(todo[w], t)) /\ IsFiniteSet(Where(queue[w], t))
                 /\ IsFiniteSet(Where(moving[w].tasks, t))
      <3>1. todo[w] \in Seq(Tasks) /\ queue[w] \in Seq(Tasks) /\ moving[w].tasks \in Seq(Tasks)
        BY DEF PoolTypes
      <3> QED  BY <3>1, WhereFinite
    <2>3. CASE h \in {"todo", "queue", "moving"} \X Workers
      <3>1. PICK w \in Workers : h = <<"todo", w>> \/ h = <<"queue", w>> \/ h = <<"moving", w>>
        BY <2>3
      <3> QED  BY <1>3, <2>2, <3>1
    <2>4. CASE h \in {<<"global">>, <<"ran">>}
      BY <1>2, <1>4, <1>5, <2>1, <2>4
    <2> QED  BY <2>3, <2>4 DEF Holders
  <1> QED  BY <1>1, <1>2, <1>3, <1>4, <1>5, <1>6 DEF SpotsTyped

LEMMA SpotsAtNext == PoolTypes' => AllSpotsTyped'
  BY SpotsAt, PTL

(* A step that moves tasks between what w schedules, what it moves, the    *)
(* queue of v, the shared queue and the tasks that ran loses none.         *)
LEMMA Transfer ==
  ASSUME IsFiniteSet(Workers), PoolTypes, PoolTypes', NEW w \in Workers, NEW v \in Workers,
         NEW t \in Tasks,
         \A u \in Workers \ {w} : todo'[u] = todo[u] /\ moving'[u] = moving[u],
         \A u \in Workers \ {v} : queue'[u] = queue[u],
         Here(w, v, t)' = Here(w, v, t)
  PROVE  Cardinality(Everywhere(Spots(t)))' = Cardinality(Everywhere(Spots(t)))
  <1> DEFINE H == Holders
             a == <<"todo", w>>
             b == <<"moving", w>>
             c == <<"queue", v>>
             d == <<"global">>
             e == <<"ran">>
  <1>1. PICK V : V = Spots(t)'
    OBVIOUS
  <1>2. PICK W : W = Spots(t)
    OBVIOUS
  <1>0. SpotsTyped(t) /\ SpotsTyped(t)'
    BY SpotsAt, SpotsAtNext DEF AllSpotsTyped
  <1>3. IsFiniteSet(H)
    BY HoldersFinite
  <1>4. /\ DOMAIN W = H /\ \A h \in H : IsFiniteSet(W[h])
        /\ a \in H /\ b \in H /\ c \in H /\ d \in H /\ e \in H
        /\ Cardinality(W[a]) = Count(todo[w], t)
            /\ Cardinality(W[b]) = Count(moving[w].tasks, t)
        /\ Cardinality(W[c]) = Count(queue[v], t) /\ Cardinality(W[d]) = Count(global, t)
        /\ Cardinality(W[e]) = ran[t]
    BY <1>0, <1>2 DEF Count, SpotsTyped
  <1>5. /\ DOMAIN V = H /\ \A h \in H : IsFiniteSet(V[h])
        /\ Cardinality(V[a]) = Count(todo[w], t)'
            /\ Cardinality(V[b]) = Count(moving[w].tasks, t)'
        /\ Cardinality(V[c]) = Count(queue[v], t)' /\ Cardinality(V[d]) = Count(global, t)'
        /\ Cardinality(V[e]) = ran'[t]
    BY <1>0, <1>1 DEF Count, SpotsTyped
  <1>6. ASSUME NEW h \in H \ {a, b, c, d, e} PROVE V[h] = W[h]
    <2>1. PICK u \in Workers : h = <<"todo", u>> \/ h = <<"moving", u>> \/ h = <<"queue", u>>
      BY DEF Holders
    <2>2. /\ h = <<"todo", u>> => u # w
          /\ h = <<"moving", u>> => u # w
          /\ h = <<"queue", u>> => u # v
      OBVIOUS
    <2>3. /\ W[<<"todo", u>>] = Where(todo[u], t)
            /\ W[<<"moving", u>>] = Where(moving[u].tasks, t)
          /\ W[<<"queue", u>>] = Where(queue[u], t)
      BY <1>0, <1>2 DEF SpotsTyped
    <2>4. /\ V[<<"todo", u>>] = Where(todo'[u], t)
            /\ V[<<"moving", u>>] = Where(moving'[u].tasks, t)
          /\ V[<<"queue", u>>] = Where(queue'[u], t)
      BY <1>0, <1>1 DEF SpotsTyped
    <2>5. CASE h = <<"todo", u>>
      BY <2>2, <2>3, <2>4, <2>5
    <2>6. CASE h = <<"moving", u>>
      BY <2>2, <2>3, <2>4, <2>6
    <2>7. CASE h = <<"queue", u>>
      BY <2>2, <2>3, <2>4, <2>7
    <2> QED  BY <2>1, <2>5, <2>6, <2>7
  <1>7. /\ a # b /\ a # c /\ a # d /\ a # e /\ b # c /\ b # d /\ b # e
        /\ c # d /\ c # e /\ d # e
    OBVIOUS
  <1>8. Cardinality(V[a]) + Cardinality(V[b]) + Cardinality(V[c])
           + Cardinality(V[d]) + Cardinality(V[e])
         = Cardinality(W[a]) + Cardinality(W[b]) + Cardinality(W[c])
             + Cardinality(W[d]) + Cardinality(W[e])
    BY <1>4, <1>5 DEF Here
  <1>9. \A h \in H : IsFiniteSet(V[h]) /\ IsFiniteSet(W[h])
    BY <1>4, <1>5
  <1> HIDE DEF H, a, b, c, d, e
  <1>10. FiveMove(H, V, W, a, b, c, d, e)
    BY <1>3, <1>4, <1>5, <1>6, <1>7, <1>8, <1>9 DEF FiveMove
  <1>11. Cardinality(Everywhere(V)) = Cardinality(Everywhere(W))
    BY <1>10, FiveChange
  <1> QED  BY <1>1, <1>2, <1>11

-----------------------------------------------------------------------------
(* What a step of w on the queue of v has to be.                           *)
Moved(w, v) ==
  /\ PoolTypes'
  /\ \A u \in Workers \ {w} : todo'[u] = todo[u] /\ moving'[u] = moving[u]
  /\ \A u \in Workers \ {v} : queue'[u] = queue[u]
  /\ \A t \in Tasks : Here(w, v, t)' = Here(w, v, t)

LEMMA CountNat ==
  ASSUME NEW s \in Seq(Tasks), NEW t
  PROVE  Count(s, t) \in Nat
  BY WhereFinite

LEMMA RunCounts ==
  ASSUME PoolTypes, NEW h \in Tasks, Run(h)
  PROVE  /\ ran' \in [Tasks -> Nat]
         /\ \A t \in Tasks : ran[t] \in Nat /\ ran'[t] = ran[t] + Count(<<h>>, t)
  <1>1. ran \in [Tasks -> Nat]
    BY DEF PoolTypes
  <1>2. ran' = [ran EXCEPT ![h] = @ + 1]
    BY DEF Run
  <1>3. \A t \in Tasks : Count(<<h>>, t) = IF h = t THEN 1 ELSE 0
    BY CountOne
  <1> QED  BY <1>1, <1>2, <1>3

LEMMA Types ==
  ASSUME PoolTypes, NEW w \in Workers
  PROVE  /\ todo[w] \in Seq(Tasks) /\ queue[w] \in Seq(Tasks) /\ global \in Seq(Tasks)
         /\ moving[w].tasks \in Seq(Tasks)
         /\ moving[w].origin \in {"none", "spill", "steal", "fetch"}
         /\ \A t \in Tasks : ran[t] \in Nat
  BY DEF PoolTypes

LEMMA PushMoves ==
  ASSUME PoolTypes, NEW w \in Workers, Push(w)
  PROVE  Moved(w, w)
  <1>1. PICK s \in Seq(Tasks), q \in Seq(Tasks) : s = todo[w] /\ q = queue[w]
    BY Types
  <1>2. s # <<>> /\ Head(s) \in Tasks /\ Tail(s) \in Seq(Tasks)
    BY <1>1 DEF Push
  <1>3. PICK h \in Tasks, r \in Seq(Tasks) : h = Head(s) /\ r = Tail(s)
    BY <1>2
  <1>4. Append(q, h) \in Seq(Tasks) /\ <<h>> \in Seq(Tasks)
    BY <1>3
  <1>5. /\ todo' = [todo EXCEPT ![w] = r] /\ queue' = [queue EXCEPT ![w] = Append(q, h)]
        /\ UNCHANGED <<global, moving, ran>>
    BY <1>1, <1>3 DEF Push
  <1>6. PoolTypes'
    BY <1>3, <1>4, <1>5 DEF PoolTypes
  <1>7. ASSUME NEW t \in Tasks PROVE Here(w, w, t)' = Here(w, w, t)
    <2>1. Count(s, t) = Count(<<h>>, t) + Count(r, t)
      BY <1>2, <1>3, CountFirst
    <2>2. Count(Append(q, h), t) = Count(q, t) + Count(<<h>>, t)
      BY <1>3, CountLast
    <2>3. todo'[w] = r /\ queue'[w] = Append(q, h)
      BY <1>5 DEF PoolTypes
    <2>4. /\ Count(<<h>>, t) \in Nat /\ Count(r, t) \in Nat /\ Count(q, t) \in Nat
          /\ Count(global, t) \in Nat /\ Count(moving[w].tasks, t) \in Nat /\ ran[t] \in Nat
      BY <1>3, <1>4, Types, CountNat
    <2> QED  BY <1>1, <1>5, <2>1, <2>2, <2>3, <2>4 DEF Here
  <1>8. /\ \A u \in Workers \ {w} : todo'[u] = todo[u] /\ moving'[u] = moving[u]
        /\ \A u \in Workers \ {w} : queue'[u] = queue[u]
    BY <1>5 DEF PoolTypes
  <1> QED  BY <1>6, <1>7, <1>8 DEF Moved

LEMMA PushSharedMoves ==
  ASSUME PoolTypes, NEW w \in Workers, PushShared(w)
  PROVE  Moved(w, w)
  <1>1. PICK s \in Seq(Tasks), g \in Seq(Tasks) : s = todo[w] /\ g = global
    BY Types
  <1>2. s # <<>> /\ Head(s) \in Tasks /\ Tail(s) \in Seq(Tasks)
    BY <1>1 DEF PushShared
  <1>3. PICK h \in Tasks, r \in Seq(Tasks) : h = Head(s) /\ r = Tail(s)
    BY <1>2
  <1>4. Append(g, h) \in Seq(Tasks) /\ <<h>> \in Seq(Tasks)
    BY <1>3
  <1>5. /\ todo' = [todo EXCEPT ![w] = r] /\ global' = Append(g, h)
        /\ UNCHANGED <<queue, moving, ran>>
    BY <1>1, <1>3 DEF PushShared
  <1>6. PoolTypes'
    BY <1>3, <1>4, <1>5 DEF PoolTypes
  <1>7. ASSUME NEW t \in Tasks PROVE Here(w, w, t)' = Here(w, w, t)
    <2>1. Count(s, t) = Count(<<h>>, t) + Count(r, t)
      BY <1>2, <1>3, CountFirst
    <2>2. Count(Append(g, h), t) = Count(g, t) + Count(<<h>>, t)
      BY <1>3, CountLast
    <2>3. todo'[w] = r
      BY <1>5 DEF PoolTypes
    <2>4. /\ Count(<<h>>, t) \in Nat /\ Count(r, t) \in Nat /\ Count(g, t) \in Nat
          /\ Count(queue[w], t) \in Nat /\ Count(moving[w].tasks, t) \in Nat /\ ran[t] \in Nat
      BY <1>3, <1>4, Types, CountNat
    <2> QED  BY <1>1, <1>5, <2>1, <2>2, <2>3, <2>4 DEF Here
  <1>8. /\ \A u \in Workers \ {w} : todo'[u] = todo[u] /\ moving'[u] = moving[u]
        /\ \A u \in Workers \ {w} : queue'[u] = queue[u]
    BY <1>5 DEF PoolTypes
  <1> QED  BY <1>6, <1>7, <1>8 DEF Moved

LEMMA SpillOutMoves ==
  ASSUME PoolTypes, Capacity \in Nat, NEW w \in Workers, SpillOut(w)
  PROVE  Moved(w, w)
  <1>1. PICK q \in Seq(Tasks) : q = queue[w]
    BY Types
  <1>2. PICK n \in Nat, k \in Nat :
          n = Capacity /\ n = Len(q) /\ k = Capacity \div 2 /\ k \in 0 .. n
    BY <1>1 DEF SpillOut
  <1>3. PICK a, b : a = SubSeq(q, 1, k) /\ b = SubSeq(q, k + 1, n)
    OBVIOUS
  <1>4. /\ a \in Seq(Tasks) /\ b \in Seq(Tasks)
        /\ \A t : Count(q, t) = Count(a, t) + Count(b, t)
    BY <1>2, <1>3, CountCut
  <1>5. /\ queue' = [queue EXCEPT ![w] = b]
        /\ moving' = [moving EXCEPT ![w] = [origin |-> "spill", tasks |-> a]]
        /\ UNCHANGED <<todo, global, ran>> /\ moving[w] = Nothing
    BY <1>1, <1>2, <1>3 DEF SpillOut
  <1>6. PoolTypes'
    BY <1>4, <1>5 DEF PoolTypes
  <1>7. ASSUME NEW t \in Tasks PROVE Here(w, w, t)' = Here(w, w, t)
    <2>1. Count(moving[w].tasks, t) = 0
      BY <1>5, CountNone DEF Nothing
    <2>2. queue'[w] = b /\ moving'[w].tasks = a
      BY <1>5 DEF PoolTypes
    <2>3. /\ Count(a, t) \in Nat /\ Count(b, t) \in Nat /\ Count(todo[w], t) \in Nat
          /\ Count(global, t) \in Nat /\ ran[t] \in Nat
      BY <1>4, Types, CountNat
    <2> QED  BY <1>1, <1>4, <1>5, <2>1, <2>2, <2>3 DEF Here
  <1>8. /\ \A u \in Workers \ {w} : todo'[u] = todo[u] /\ moving'[u] = moving[u]
        /\ \A u \in Workers \ {w} : queue'[u] = queue[u]
    BY <1>5 DEF PoolTypes
  <1> QED  BY <1>6, <1>7, <1>8 DEF Moved

LEMMA SpillInMoves ==
  ASSUME PoolTypes, NEW w \in Workers, SpillIn(w)
  PROVE  Moved(w, w)
  <1>1. PICK s \in Seq(Tasks), g \in Seq(Tasks), m \in Seq(Tasks) :
          s = todo[w] /\ g = global /\ m = moving[w].tasks
    BY Types
  <1>2. s # <<>> /\ Head(s) \in Tasks /\ Tail(s) \in Seq(Tasks)
    BY <1>1 DEF SpillIn
  <1>3. PICK h \in Tasks, r \in Seq(Tasks) : h = Head(s) /\ r = Tail(s)
    BY <1>2
  <1>4. Append(m, h) \in Seq(Tasks) /\ <<h>> \in Seq(Tasks) /\ g \o Append(m, h) \in Seq(Tasks)
        /\ <<>> \in Seq(Tasks)
    BY <1>3
  <1>5. /\ todo' = [todo EXCEPT ![w] = r] /\ global' = g \o Append(m, h)
        /\ moving' = [moving EXCEPT ![w] = Nothing]
        /\ UNCHANGED <<queue, ran>>
    BY <1>1, <1>3 DEF SpillIn
  <1>6. PoolTypes'
    BY <1>3, <1>4, <1>5 DEF PoolTypes, Nothing
  <1>7. ASSUME NEW t \in Tasks PROVE Here(w, w, t)' = Here(w, w, t)
    <2>1. Count(s, t) = Count(<<h>>, t) + Count(r, t)
      BY <1>2, <1>3, CountFirst
    <2>2. Count(Append(m, h), t) = Count(m, t) + Count(<<h>>, t)
      BY <1>3, CountLast
    <2>3. Count(g \o Append(m, h), t) = Count(g, t) + Count(Append(m, h), t)
      BY <1>4, CountJoin
    <2>4. todo'[w] = r /\ moving'[w].tasks = <<>> /\ Count(<<>>, t) = 0
      BY <1>5, CountNone DEF PoolTypes, Nothing
    <2>5. /\ Count(<<h>>, t) \in Nat /\ Count(r, t) \in Nat /\ Count(g, t) \in Nat
          /\ Count(queue[w], t) \in Nat /\ Count(m, t) \in Nat /\ ran[t] \in Nat
      BY <1>3, <1>4, Types, CountNat
    <2>6. PICK i \in Nat, j \in Nat, k \in Nat, l \in Nat, c \in Nat, n \in Nat :
            /\ i = Count(<<h>>, t) /\ j = Count(r, t) /\ k = Count(g, t)
            /\ l = Count(queue[w], t) /\ c = Count(m, t) /\ n = ran[t]
      BY <2>5
    <2>7. Here(w, w, t) = (i + j) + c + l + k + n
      BY <1>1, <2>1, <2>6 DEF Here
    <2>8. Here(w, w, t)' = j + 0 + l + (k + (c + i)) + n
      BY <1>5, <2>2, <2>3, <2>4, <2>6 DEF Here
    <2> QED  BY <2>7, <2>8
  <1>8. /\ \A u \in Workers \ {w} : todo'[u] = todo[u] /\ moving'[u] = moving[u]
        /\ \A u \in Workers \ {w} : queue'[u] = queue[u]
    BY <1>5 DEF PoolTypes
  <1> QED  BY <1>6, <1>7, <1>8 DEF Moved

LEMMA PopMoves ==
  ASSUME PoolTypes, NEW w \in Workers, Pop(w)
  PROVE  Moved(w, w)
  <1>1. PICK q \in Seq(Tasks) : q = queue[w]
    BY Types
  <1>2. q # <<>> /\ Head(q) \in Tasks /\ Tail(q) \in Seq(Tasks)
    BY <1>1 DEF Pop
  <1>3. PICK h \in Tasks, r \in Seq(Tasks) : h = Head(q) /\ r = Tail(q)
    BY <1>2
  <1>4. /\ queue' = [queue EXCEPT ![w] = r] /\ Run(h)
        /\ UNCHANGED <<todo, global, moving>>
    BY <1>1, <1>3 DEF Pop
  <1>5. /\ ran' \in [Tasks -> Nat]
        /\ \A t \in Tasks : ran[t] \in Nat /\ ran'[t] = ran[t] + Count(<<h>>, t)
    BY <1>4, RunCounts
  <1>6. PoolTypes'
    BY <1>3, <1>4, <1>5 DEF PoolTypes
  <1>7. ASSUME NEW t \in Tasks PROVE Here(w, w, t)' = Here(w, w, t)
    <2>1. Count(q, t) = Count(<<h>>, t) + Count(r, t)
      BY <1>2, <1>3, CountFirst
    <2>2. queue'[w] = r
      BY <1>4 DEF PoolTypes
    <2>3. <<h>> \in Seq(Tasks)
      OBVIOUS
    <2>4. /\ Count(<<h>>, t) \in Nat /\ Count(r, t) \in Nat /\ Count(todo[w], t) \in Nat
          /\ Count(global, t) \in Nat /\ Count(moving[w].tasks, t) \in Nat
      BY <2>3, Types, CountNat
    <2>5. PICK i \in Nat, j \in Nat, k \in Nat, l \in Nat, m \in Nat, n \in Nat :
            /\ i = Count(<<h>>, t) /\ j = Count(r, t) /\ k = Count(todo[w], t)
            /\ l = Count(moving[w].tasks, t) /\ m = Count(global, t) /\ n = ran[t]
      BY <1>5, <2>4
    <2>6. Here(w, w, t) = k + l + (i + j) + m + n
      BY <1>1, <2>1, <2>5 DEF Here
    <2>7. Here(w, w, t)' = k + l + j + m + (n + i)
      BY <1>4, <1>5, <2>2, <2>5 DEF Here
    <2> QED  BY <2>6, <2>7
  <1>8. /\ \A u \in Workers \ {w} : todo'[u] = todo[u] /\ moving'[u] = moving[u]
        /\ \A u \in Workers \ {w} : queue'[u] = queue[u]
    BY <1>4 DEF PoolTypes
  <1> QED  BY <1>6, <1>7, <1>8 DEF Moved

LEMMA StealOutMoves ==
  ASSUME PoolTypes, NEW w \in Workers, NEW v \in Workers, StealOut(w, v)
  PROVE  Moved(w, v)
  <1>1. PICK q \in Seq(Tasks), n \in Nat : q = queue[v] /\ n = Len(q)
    BY Types
  <1>2. PICK k \in 1 .. Half(n) :
          /\ moving' = [moving EXCEPT ![w] = [origin |-> "steal", tasks |-> SubSeq(q, 1, k)]]
          /\ queue' = [queue EXCEPT ![v] = SubSeq(q, k + 1, n)]
    BY <1>1 DEF StealOut, PoolTypes
  <1>3. k \in 0 .. n /\ k > 0 /\ 1 \in 1 .. k
    BY DEF Half
  <1>4. PICK a, b : a = SubSeq(q, 1, k) /\ b = SubSeq(q, k + 1, n)
    OBVIOUS
  <1>5. /\ a \in Seq(Tasks) /\ b \in Seq(Tasks)
        /\ \A t : Count(q, t) = Count(a, t) + Count(b, t)
    BY <1>1, <1>3, <1>4, CountCut
  <1>6. a # <<>>
    <2>1. Len(a) = k
      BY <1>1, <1>3, <1>4
    <2> QED  BY <1>3, <2>1
  <1>7. /\ queue' = [queue EXCEPT ![v] = b]
        /\ moving' = [moving EXCEPT ![w] = [origin |-> "steal", tasks |-> a]]
        /\ UNCHANGED <<todo, global, ran>> /\ moving[w] = Nothing
    BY <1>2, <1>4 DEF StealOut
  <1>8. PoolTypes'
    BY <1>5, <1>6, <1>7 DEF PoolTypes
  <1>9. ASSUME NEW t \in Tasks PROVE Here(w, v, t)' = Here(w, v, t)
    <2>1. Count(moving[w].tasks, t) = 0
      BY <1>7, CountNone DEF Nothing
    <2>2. queue'[v] = b /\ moving'[w].tasks = a
      BY <1>7 DEF PoolTypes
    <2>3. /\ Count(a, t) \in Nat /\ Count(b, t) \in Nat /\ Count(todo[w], t) \in Nat
          /\ Count(global, t) \in Nat /\ ran[t] \in Nat
      BY <1>5, Types, CountNat
    <2> QED  BY <1>1, <1>5, <1>7, <2>1, <2>2, <2>3 DEF Here
  <1>10. /\ \A u \in Workers \ {w} : todo'[u] = todo[u] /\ moving'[u] = moving[u]
         /\ \A u \in Workers \ {v} : queue'[u] = queue[u]
    BY <1>7 DEF PoolTypes
  <1> QED  BY <1>8, <1>9, <1>10 DEF Moved

LEMMA StealInMoves ==
  ASSUME PoolTypes, NEW w \in Workers, StealIn(w)
  PROVE  Moved(w, w)
  <1>1. PICK s \in Seq(Tasks), q \in Seq(Tasks) : s = moving[w].tasks /\ q = queue[w]
    BY Types
  <1>2. s # <<>>
    BY <1>1 DEF StealIn, PoolTypes
  <1>3. PICK n \in Nat, k \in Nat : n = Len(s) /\ n = k + 1 /\ k = n - 1 /\ k \in 0 .. n
    <2>1. Len(s) \in Nat /\ Len(s) # 0
      BY <1>2
    <2>2. Len(s) - 1 \in Nat
      BY <2>1
    <2> QED  BY <2>1, <2>2
  <1>4. PICK h \in Tasks : h = s[n]
    <2>1. n \in 1 .. Len(s)
      BY <1>3
    <2> QED  BY <2>1
  <1>5. SubSeq(s, n, n) = <<h>>
    <2>1. n \in 1 .. n + 1 /\ \A i \in n .. n : s[i] \in Tasks
      BY <1>3, <1>4
    <2>2. /\ SubSeq(s, n, n) \in Seq(Tasks)
            /\ Len(SubSeq(s, n, n)) = IF n <= n THEN n - n + 1 ELSE 0
          /\ \A i \in 1 .. n - n + 1 : SubSeq(s, n, n)[i] = s[n + i - 1]
      BY <2>1, SubSeqProperties
    <2>3. /\ SubSeq(s, n, n) \in Seq(Tasks) /\ Len(SubSeq(s, n, n)) = 1
          /\ SubSeq(s, n, n)[1] = h
      BY <1>3, <1>4, <2>2
    <2>4. <<h>> \in Seq(Tasks) /\ Len(<<h>>) = 1 /\ <<h>>[1] = h
      OBVIOUS
    <2> DEFINE a == SubSeq(s, n, n)
               b == <<h>>
    <2>5. a \in Seq(Tasks) /\ b \in Seq(Tasks) /\ Len(a) = 1 /\ Len(b) = 1 /\ a[1] = b[1]
      BY <2>3, <2>4
    <2> HIDE DEF a, b
    <2>6. \A i \in 1 .. 1 : a[i] = b[i]
      BY <2>5
    <2>7. a = b
      BY <2>5, <2>6, SeqEqual
    <2> QED  BY <2>7 DEF a, b
  <1>6. PICK a : a = SubSeq(s, 1, k)
    OBVIOUS
  <1>7. a \in Seq(Tasks) /\ \A t : Count(s, t) = Count(a, t) + Count(<<h>>, t)
    <2>1. SubSeq(s, k + 1, n) = <<h>>
      BY <1>3, <1>5
    <2>2. /\ SubSeq(s, 1, k) \in Seq(Tasks)
          /\ \A t : Count(s, t) = Count(SubSeq(s, 1, k), t) + Count(SubSeq(s, k + 1, n), t)
      <3>1. n \in Nat /\ n = Len(s) /\ k \in 0 .. n
        BY <1>3
      <3> QED  BY <3>1, CountCut
    <2> QED  BY <1>6, <2>1, <2>2
  <1>8. q \o a \in Seq(Tasks) /\ <<>> \in Seq(Tasks) /\ <<h>> \in Seq(Tasks)
    BY <1>7
  <1>9. /\ queue' = [queue EXCEPT ![w] = q \o a] /\ Run(h)
        /\ moving' = [moving EXCEPT ![w] = Nothing]
        /\ UNCHANGED <<todo, global>>
    BY <1>1, <1>3, <1>4, <1>6 DEF StealIn
  <1>10. /\ ran' \in [Tasks -> Nat]
         /\ \A t \in Tasks : ran[t] \in Nat /\ ran'[t] = ran[t] + Count(<<h>>, t)
    BY <1>9, RunCounts
  <1>11. PoolTypes'
    BY <1>8, <1>9, <1>10 DEF PoolTypes, Nothing
  <1>12. ASSUME NEW t \in Tasks PROVE Here(w, w, t)' = Here(w, w, t)
    <2>1. Count(q \o a, t) = Count(q, t) + Count(a, t)
      BY <1>7, CountJoin
    <2>2. queue'[w] = q \o a /\ moving'[w].tasks = <<>> /\ Count(<<>>, t) = 0
      BY <1>9, CountNone DEF PoolTypes, Nothing
    <2>3. PICK i \in Nat, j \in Nat, x \in Nat, l \in Nat, m \in Nat, r \in Nat :
            /\ i = Count(<<h>>, t) /\ j = Count(a, t) /\ x = Count(todo[w], t)
            /\ l = Count(q, t) /\ m = Count(global, t) /\ r = ran[t]
      BY <1>7, <1>8, Types, CountNat
    <2>4. Here(w, w, t) = x + (j + i) + l + m + r
      BY <1>1, <1>7, <2>3 DEF Here
    <2>5. Here(w, w, t)' = x + 0 + (l + j) + m + (r + i)
      BY <1>9, <1>10, <2>1, <2>2, <2>3 DEF Here
    <2> QED  BY <2>4, <2>5
  <1>13. /\ \A u \in Workers \ {w} : todo'[u] = todo[u] /\ moving'[u] = moving[u]
         /\ \A u \in Workers \ {w} : queue'[u] = queue[u]
    BY <1>9 DEF PoolTypes
  <1> QED  BY <1>11, <1>12, <1>13 DEF Moved

LEMMA TakeSharedMoves ==
  ASSUME PoolTypes, NEW w \in Workers, TakeShared(w)
  PROVE  Moved(w, w)
  <1>1. PICK g \in Seq(Tasks) : g = global
    BY Types
  <1>2. g # <<>> /\ Head(g) \in Tasks /\ Tail(g) \in Seq(Tasks)
    BY <1>1 DEF TakeShared
  <1>3. PICK h \in Tasks, r \in Seq(Tasks) : h = Head(g) /\ r = Tail(g)
    BY <1>2
  <1>4. global' = r /\ Run(h) /\ UNCHANGED <<todo, queue, moving>>
    BY <1>1, <1>3 DEF TakeShared
  <1>5. /\ ran' \in [Tasks -> Nat]
        /\ \A t \in Tasks : ran[t] \in Nat /\ ran'[t] = ran[t] + Count(<<h>>, t)
    BY <1>4, RunCounts
  <1>6. PoolTypes'
    BY <1>3, <1>4, <1>5 DEF PoolTypes
  <1>7. ASSUME NEW t \in Tasks PROVE Here(w, w, t)' = Here(w, w, t)
    <2>1. Count(g, t) = Count(<<h>>, t) + Count(r, t)
      BY <1>2, <1>3, CountFirst
    <2>2. <<h>> \in Seq(Tasks)
      OBVIOUS
    <2>3. PICK i \in Nat, j \in Nat, k \in Nat, l \in Nat, m \in Nat, n \in Nat :
            /\ i = Count(<<h>>, t) /\ j = Count(r, t) /\ k = Count(todo[w], t)
            /\ l = Count(moving[w].tasks, t) /\ m = Count(queue[w], t) /\ n = ran[t]
      BY <2>2, Types, CountNat
    <2>4. Here(w, w, t) = k + l + m + (i + j) + n
      BY <1>1, <2>1, <2>3 DEF Here
    <2>5. Here(w, w, t)' = k + l + m + j + (n + i)
      BY <1>4, <1>5, <2>3 DEF Here
    <2> QED  BY <2>4, <2>5
  <1> QED  BY <1>4, <1>6, <1>7 DEF Moved

LEMMA FetchOutMoves ==
  ASSUME PoolTypes, NEW w \in Workers, FetchOut(w)
  PROVE  Moved(w, w)
  <1>1. PICK g \in Seq(Tasks), n \in Nat : g = global /\ n = Len(g)
    BY Types
  <1>2. PICK k \in 1 .. n :
          /\ moving' = [moving EXCEPT ![w] = [origin |-> "fetch", tasks |-> SubSeq(g, 1, k)]]
          /\ global' = SubSeq(g, k + 1, n)
    BY <1>1 DEF FetchOut
  <1>3. k \in 0 .. n /\ k > 0
    OBVIOUS
  <1>4. PICK a, b : a = SubSeq(g, 1, k) /\ b = SubSeq(g, k + 1, n)
    OBVIOUS
  <1>5. /\ a \in Seq(Tasks) /\ b \in Seq(Tasks)
        /\ \A t : Count(g, t) = Count(a, t) + Count(b, t)
    BY <1>1, <1>3, <1>4, CountCut
  <1>6. a # <<>>
    <2>1. Len(a) = k
      BY <1>1, <1>3, <1>4
    <2> QED  BY <1>3, <2>1
  <1>7. /\ global' = b
        /\ moving' = [moving EXCEPT ![w] = [origin |-> "fetch", tasks |-> a]]
        /\ UNCHANGED <<todo, queue, ran>> /\ moving[w] = Nothing
    BY <1>2, <1>4 DEF FetchOut
  <1>8. PoolTypes'
    BY <1>5, <1>6, <1>7 DEF PoolTypes
  <1>9. ASSUME NEW t \in Tasks PROVE Here(w, w, t)' = Here(w, w, t)
    <2>1. Count(moving[w].tasks, t) = 0
      BY <1>7, CountNone DEF Nothing
    <2>2. moving'[w].tasks = a
      BY <1>7 DEF PoolTypes
    <2>3. /\ Count(a, t) \in Nat /\ Count(b, t) \in Nat /\ Count(todo[w], t) \in Nat
          /\ Count(queue[w], t) \in Nat /\ ran[t] \in Nat
      BY <1>5, Types, CountNat
    <2> QED  BY <1>1, <1>5, <1>7, <2>1, <2>2, <2>3 DEF Here
  <1>10. \A u \in Workers \ {w} : todo'[u] = todo[u] /\ moving'[u] = moving[u]
    BY <1>7 DEF PoolTypes
  <1> QED  BY <1>7, <1>8, <1>9, <1>10 DEF Moved

LEMMA FetchInMoves ==
  ASSUME PoolTypes, NEW w \in Workers, FetchIn(w)
  PROVE  Moved(w, w)
  <1>1. PICK s \in Seq(Tasks), q \in Seq(Tasks) : s = moving[w].tasks /\ q = queue[w]
    BY Types
  <1>2. s # <<>>
    BY <1>1 DEF FetchIn, PoolTypes
  <1>3. PICK h \in Tasks, a \in Seq(Tasks) : h = Head(s) /\ a = Tail(s)
    <2>1. Head(s) \in Tasks /\ Tail(s) \in Seq(Tasks)
      BY <1>2
    <2> QED  BY <2>1
  <1>4. \A t : Count(s, t) = Count(<<h>>, t) + Count(a, t)
    BY <1>2, <1>3, CountFirst
  <1>5. q \o a \in Seq(Tasks) /\ <<>> \in Seq(Tasks) /\ <<h>> \in Seq(Tasks)
    OBVIOUS
  <1>6. /\ queue' = [queue EXCEPT ![w] = q \o a] /\ Run(h)
        /\ moving' = [moving EXCEPT ![w] = Nothing]
        /\ UNCHANGED <<todo, global>>
    BY <1>1, <1>3 DEF FetchIn
  <1>7. /\ ran' \in [Tasks -> Nat]
        /\ \A t \in Tasks : ran[t] \in Nat /\ ran'[t] = ran[t] + Count(<<h>>, t)
    BY <1>6, RunCounts
  <1>8. PoolTypes'
    BY <1>5, <1>6, <1>7 DEF PoolTypes, Nothing
  <1>9. ASSUME NEW t \in Tasks PROVE Here(w, w, t)' = Here(w, w, t)
    <2>1. Count(q \o a, t) = Count(q, t) + Count(a, t)
      BY CountJoin
    <2>2. queue'[w] = q \o a /\ moving'[w].tasks = <<>> /\ Count(<<>>, t) = 0
      BY <1>6, CountNone DEF PoolTypes, Nothing
    <2>3. PICK i \in Nat, j \in Nat, x \in Nat, l \in Nat, m \in Nat, r \in Nat :
            /\ i = Count(<<h>>, t) /\ j = Count(a, t) /\ x = Count(todo[w], t)
            /\ l = Count(q, t) /\ m = Count(global, t) /\ r = ran[t]
      BY <1>5, Types, CountNat
    <2>4. Here(w, w, t) = x + (i + j) + l + m + r
      BY <1>1, <1>4, <2>3 DEF Here
    <2>5. Here(w, w, t)' = x + 0 + (l + j) + m + (r + i)
      BY <1>6, <1>7, <2>1, <2>2, <2>3 DEF Here
    <2> QED  BY <2>4, <2>5
  <1>10. /\ \A u \in Workers \ {w} : todo'[u] = todo[u] /\ moving'[u] = moving[u]
         /\ \A u \in Workers \ {w} : queue'[u] = queue[u]
    BY <1>6 DEF PoolTypes
  <1> QED  BY <1>8, <1>9, <1>10 DEF Moved

-----------------------------------------------------------------------------
Known ==
  /\ IsFiniteSet(Workers) /\ Spawned \in [Workers -> Seq(Tasks)] /\ Capacity \in Nat

PoolInv == PoolTypes /\ NeitherLostNorTwice

Places(t) == Everywhere([w \in Workers |-> Where(Spawned[w], t)])

LEMMA PoolStarts ==
  ASSUME Known, Init
  PROVE  PoolInv
  <1>1. PoolTypes
    <2>1. <<>> \in Seq(Tasks)
      OBVIOUS
    <2> QED  BY <2>1 DEF Known, Init, PoolTypes, Nothing
  <1>2. ASSUME NEW t \in Tasks
        PROVE  Cardinality(Everywhere(Spots(t))) = Cardinality(Places(t))
    <2> DEFINE P == Places(t)
               f == [p \in P |-> <<<<"todo", p[1]>>, p[2]>>]
    <2>1. P = UNION {{w} \X Where(Spawned[w], t) : w \in Workers}
      BY DEF Places, Everywhere
    <2>2. SpotsTyped(t)
      BY <1>1, SpotsAt DEF AllSpotsTyped
    <2>3. Everywhere(Spots(t)) = UNION {{h} \X Spots(t)[h] : h \in Holders}
      BY <2>2 DEF Everywhere, SpotsTyped
    <2>4. ASSUME NEW w \in Workers
          PROVE  /\ Spots(t)[<<"todo", w>>] = Where(Spawned[w], t)
                 /\ Spots(t)[<<"queue", w>>] = {} /\ Spots(t)[<<"moving", w>>] = {}
      <3>1. todo[w] = Spawned[w] /\ queue[w] = <<>> /\ moving[w].tasks = <<>>
        BY DEF Init, Nothing
      <3>2. Where(<<>>, t) = {}
        BY DEF Where
      <3> QED  BY <2>2, <3>1, <3>2 DEF SpotsTyped
    <2>5. Spots(t)[<<"global">>] = {} /\ Spots(t)[<<"ran">>] = {}
      BY <2>2 DEF SpotsTyped, Init, Where
    <2>6. Everywhere(Spots(t)) = {<<<<"todo", p[1]>>, p[2]>> : p \in P}
      <3>1. ASSUME NEW x \in Everywhere(Spots(t))
            PROVE  \E p \in P : x = <<<<"todo", p[1]>>, p[2]>>
        <4>1. PICK h \in Holders : x \in {h} \X Spots(t)[h]
          BY <2>3
        <4>2. PICK w \in Workers : h = <<"todo", w>>
          <5>1. Spots(t)[h] # {}
            BY <4>1
          <5>2. h # <<"global">> /\ h # <<"ran">>
            BY <2>5, <5>1
          <5>3. PICK w \in Workers :
                  h = <<"todo", w>> \/ h = <<"queue", w>> \/ h = <<"moving", w>>
            BY <5>2 DEF Holders
          <5>4. h # <<"queue", w>> /\ h # <<"moving", w>>
            BY <2>4, <5>1
          <5> QED  BY <5>3, <5>4
        <4>3. x[2] \in Where(Spawned[w], t) /\ x = <<<<"todo", w>>, x[2]>>
          <5>1. x[2] \in Spots(t)[<<"todo", w>>] /\ x = <<h, x[2]>>
            BY <4>1, <4>2
          <5> QED  BY <2>4, <4>2, <5>1
        <4>4. <<w, x[2]>> \in P
          BY <2>1, <4>3
        <4> QED  BY <4>3, <4>4
      <3>2. ASSUME NEW p \in P
            PROVE  <<<<"todo", p[1]>>, p[2]>> \in Everywhere(Spots(t))
        <4>1. PICK w \in Workers : p \in {w} \X Where(Spawned[w], t)
          BY <2>1
        <4>2. <<"todo", w>> \in Holders /\ p[2] \in Spots(t)[<<"todo", w>>] /\ p[1] = w
          BY <2>2, <2>4, <4>1 DEF SpotsTyped
        <4> QED  BY <2>3, <4>2
      <3> QED  BY <3>1, <3>2
    <2>7. IsFiniteSet(P)
      <3>1. \A w \in Workers : IsFiniteSet({w} \X Where(Spawned[w], t))
        BY WhereFinite, PairsCount DEF Known
      <3> DEFINE T == {{w} \X Where(Spawned[w], t) : w \in Workers}
                 g == [w \in Workers |-> {w} \X Where(Spawned[w], t)]
      <3>2. g \in [Workers -> T] /\ (\A x \in T : \E w \in Workers : g[w] = x)
            /\ \A x \in T : IsFiniteSet(x)
        BY <3>1
      <3>3. P = UNION T
        BY <2>1
      <3> HIDE DEF g, T, P
      <3>4. g \in Surjection(Workers, T)
        BY <3>2 DEF Surjection
      <3>5. IsFiniteSet(T)
        BY <3>4, FS_Surjection DEF Known
      <3> QED  BY <3>2, <3>3, <3>5, FS_UNION
    <2>8. f \in Bijection(P, Everywhere(Spots(t)))
      <3>1. \A p \in P : p = <<p[1], p[2]>>
        BY <2>1
      <3>2. f \in [P -> Everywhere(Spots(t))]
        BY <2>6
      <3>3. \A p, q \in P : f[p] = f[q] => p = q
        BY <3>1
      <3>4. \A x \in Everywhere(Spots(t)) : \E p \in P : f[p] = x
        BY <2>6
      <3> HIDE DEF f, P
      <3> QED  BY <3>2, <3>3, <3>4 DEF Bijection, Injection, Surjection, IsInjective
    <2> HIDE DEF f, P
    <2>9. Cardinality(Everywhere(Spots(t))) = Cardinality(P)
      BY <2>7, <2>8, FS_Bijection DEF ExistsBijection
    <2> QED  BY <2>9 DEF P
  <1> QED  BY <1>1, <1>2 DEF PoolInv, NeitherLostNorTwice, Places

LEMMA PoolStep ==
  ASSUME Known, PoolInv, [Next]_poolVars
  PROVE  PoolInv'
  <1>1. ASSUME NEW w \in Workers, NEW v \in Workers, Moved(w, v)
        PROVE  PoolInv'
    <2>1. ASSUME NEW t \in Tasks
          PROVE  Cardinality(Everywhere(Spots(t)))' = Cardinality(Everywhere(Spots(t)))
      BY <1>1, Transfer DEF Moved, Known, PoolInv
    <2> QED  BY <1>1, <2>1 DEF PoolInv, NeitherLostNorTwice, Moved
  <1>2. CASE UNCHANGED poolVars
    <2>1. PoolTypes'
      BY <1>2 DEF PoolInv, PoolTypes, poolVars
    <2>2. \A t : Spots(t)' = Spots(t)
      BY <1>2 DEF Spots, poolVars
    <2> QED  BY <2>1, <2>2 DEF PoolInv, NeitherLostNorTwice
  <1>3. ASSUME NEW w \in Workers,
               \/ Push(w) \/ PushShared(w) \/ SpillOut(w) \/ SpillIn(w)
               \/ Pop(w) \/ StealIn(w) \/ TakeShared(w) \/ FetchOut(w) \/ FetchIn(w)
        PROVE  Moved(w, w)
    BY <1>3, PushMoves, PushSharedMoves, SpillOutMoves, SpillInMoves, PopMoves, StealInMoves,
       TakeSharedMoves, FetchOutMoves, FetchInMoves DEF Known, PoolInv
  <1>4. ASSUME NEW w \in Workers, NEW v \in Workers, StealOut(w, v)
        PROVE  Moved(w, v)
    BY <1>4, StealOutMoves DEF PoolInv
  <1> QED  BY <1>1, <1>2, <1>3, <1>4 DEF Next

(* However the workers move tasks between their queues, the shared queue   *)
(* and what they run, every task stays in as many places as it was         *)
(* spawned in: the promise of the run queues (queue.hpp:20-318) to the     *)
(* scheduler.                                                              *)
THEOREM TasksConserved ==
  ASSUME Known
  PROVE  Spec => []NeitherLostNorTwice
  <1>1. Init => PoolInv
    BY PoolStarts
  <1>2. PoolInv /\ [Next]_poolVars => PoolInv'
    BY PoolStep
  <1>3. PoolInv => NeitherLostNorTwice
    BY DEF PoolInv
  <1> QED  BY <1>1, <1>2, <1>3, PTL DEF Spec
=============================================================================
