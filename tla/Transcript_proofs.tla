------------------------- MODULE Transcript_proofs --------------------------
(***************************************************************************)
(* Proofs for transcripts: lists of messages that a strict provider        *)
(* accepts can be put together, cut before a message that is no result,    *)
(* and compacted in both ways, and are accepted again.                     *)
(*                                                                         *)
(* The repair of a request makes an accepted list of any list and changes  *)
(* no list that was accepted.                                              *)
(*                                                                         *)
(* First what Pick returns: as many elements as there are positions, each  *)
(* of them once, in their order.  Two facts about numbers stand in for     *)
(* induction: a set of naturals has a least element, a bounded one a       *)
(* greatest.                                                               *)
(***************************************************************************)
EXTENDS Transcript, FiniteSetTheorems, SequenceTheorems, TLAPS

\* A non-empty set of naturals has a least element.
LEMMA SmallestNat ==
    ASSUME NEW U, U \subseteq Nat, U # {}
    PROVE  \E u \in U : \A v \in U : u <= v
  <1> DEFINE R == OpToRel(<, Nat)
  <1>1. PICK u \in U : \A v \in U : <<v, u>> \notin R
    <2>1. IsWellFoundedOn(R, Nat)
      BY NatLessThanWellFounded
    <2> HIDE DEF R
    <2> QED
      BY <2>1, WFMin
  <1>2. \A v \in U : u \in Nat /\ v \in Nat /\ (v < u => <<v, u>> \in R)
    BY DEF OpToRel
  <1> HIDE DEF R
  <1>3. ASSUME NEW v \in U PROVE u <= v
    <2>1. u \in Nat /\ v \in Nat /\ ~(v < u)
      BY <1>1, <1>2
    <2> QED
      BY <2>1
  <1> QED
    BY <1>3

\* The maximum of a bounded set is one of its elements, and the largest.
LEMMA MaxIs ==
    ASSUME NEW n \in Nat, NEW T, T \subseteq 0 .. n, T # {}
    PROVE  Max(T) \in T /\ \A y \in T : y <= Max(T)
  <1> DEFINE U == {n - x : x \in T}
  <1>1. \A x \in T : x \in Nat /\ x <= n /\ n - x \in Nat /\ n - x \in U
    OBVIOUS
  <1>2. U \subseteq Nat /\ U # {}
    BY <1>1
  <1>3. PICK u \in U : \A v \in U : u <= v
    <2> HIDE DEF U
    <2> QED
      BY <1>2, SmallestNat
  <1>4. PICK x \in T : u = n - x
    BY <1>3
  <1>5. \A y \in T : x >= y
    <2> HIDE DEF U
    <2> QED
      BY <1>1, <1>3, <1>4
  <1>6. Max(T) \in T /\ \A y \in T : Max(T) >= y
    BY <1>5 DEF Max
  <1> QED
    BY <1>1, <1>6

\* Concatenation of three.
LEMMA Concat3 ==
    ASSUME NEW S, NEW a \in Seq(S), NEW b \in Seq(S), NEW c \in Seq(S)
    PROVE  (a \o b) \o c = a \o (b \o c)
  BY ConcatAssociative

\* Adding to the end of a concatenation adds to its second part.
LEMMA ConcatAppend ==
    ASSUME NEW S, NEW a \in Seq(S), NEW b \in Seq(S), NEW m \in S
    PROVE  /\ Append(a \o b, m) = a \o Append(b, m)
           /\ Append(a \o b, m) \in Seq(S)
  <1>1. PICK c \in Seq(S) : c = a \o b
    BY ConcatProperties
  <1>2. PICK w \in Seq(S) : w = <<m>>
    <2>1. <<m>> \in Seq(S)
      OBVIOUS
    <2> QED
      BY <2>1, Zenon
  <1>3. Append(c, m) = c \o w /\ Append(b, m) = b \o w /\ c \o w \in Seq(S)
    BY <1>2, AppendIsConcat, ConcatProperties
  <1>4. (a \o b) \o w = a \o (b \o w)
    BY SMTT(30), Concat3
  <1> QED
    BY <1>1, <1>3, <1>4

\* `f` numbers the positions `at` in their order, and `p` is `s` read along it.
Picked(s, at, f, p) ==
    /\ f \in [1 .. Len(p) -> at]
    /\ \A k \in 1 .. Len(p) : p[k] = s[f[k]]
    /\ \A k, n \in 1 .. Len(p) : k < n => f[k] < f[n]
    /\ \A i \in at : \E k \in 1 .. Len(p) : f[k] = i

\* The rank of a position counts it and those before it.
LEMMA RankIs ==
    ASSUME NEW n \in Nat, NEW at, at \subseteq 1 .. n
    PROVE  /\ IsFiniteSet(at) /\ Cardinality(at) \in 0 .. n
           /\ \A i \in at : Rank(at, i) \in 1 .. Cardinality(at)
           /\ \A i, j \in at : i < j => Rank(at, i) < Rank(at, j)
  <1>1. \A i \in at : i \in Nat
    OBVIOUS
  <1>2. IsFiniteSet(1 .. n) /\ Cardinality(1 .. n) = n
    BY FS_Interval
  <1>3. /\ IsFiniteSet(at) /\ Cardinality(at) \in Nat
        /\ Cardinality(at) <= n
    BY <1>2, FS_Subset, FS_CardinalityType
  <1>4. ASSUME NEW i \in at
        PROVE  /\ IsFiniteSet((1 .. i) \cap at) /\ Rank(at, i) \in Nat
               /\ Rank(at, i) <= Cardinality(at) /\ Rank(at, i) # 0
    <2> DEFINE B == (1 .. i) \cap at
    <2>1. i \in B
      OBVIOUS
    <2>2. B \in SUBSET at
      OBVIOUS
    <2> HIDE DEF B
    <2>3. /\ IsFiniteSet(B) /\ Cardinality(B) <= Cardinality(at)
          /\ Cardinality(B) \in Nat
      BY <1>3, <2>2, FS_Subset, FS_CardinalityType
    <2>4. Cardinality(B) # 0
      BY <2>1, <2>3, FS_EmptySet
    <2> QED
      BY <2>3, <2>4 DEF B, Rank
  <1>5. ASSUME NEW i \in at, NEW j \in at, i < j
        PROVE  Rank(at, i) < Rank(at, j)
    <2> DEFINE A == (1 .. i) \cap at
               B == (1 .. j) \cap at
    <2>1. A \in SUBSET B /\ j \in B /\ j \notin A
      <3>1. i \in Nat /\ j \in Nat
        BY <1>1
      <3>2. \A k \in at : k <= i => k <= j
        BY <1>1, <1>5, <3>1
      <3>3. j <= j /\ ~(j <= i)
        BY <1>5, <3>1
      <3> QED
        BY <3>2, <3>3
    <2>2. /\ IsFiniteSet(B) /\ Rank(at, i) \in Nat /\ Rank(at, j) \in Nat
          /\ Rank(at, i) = Cardinality(A) /\ Rank(at, j) = Cardinality(B)
      BY <1>4 DEF Rank
    <2> HIDE DEF A, B
    <2>3. Cardinality(A) <= Cardinality(B) /\ Cardinality(A) # Cardinality(B)
      BY <2>1, <2>2, FS_Subset
    <2> QED
      BY <2>2, <2>3
  <1>6. ASSUME NEW i \in at PROVE Rank(at, i) \in 1 .. Cardinality(at)
    <2>1. PICK r \in Nat : r = Rank(at, i)
      BY <1>4, <1>6
    <2>2. r <= Cardinality(at) /\ r # 0
      BY <1>4, <1>6, <2>1
    <2> QED
      BY <1>3, <2>1, <2>2
  <1>7. Cardinality(at) \in 0 .. n
    BY <1>3
  <1> QED
    BY <1>3, <1>5, <1>6, <1>7

\* Every rank is taken: there are as many positions as ranks.
LEMMA RankOnto ==
    ASSUME NEW n \in Nat, NEW at, at \subseteq 1 .. n,
           NEW k \in 1 .. Cardinality(at)
    PROVE  \E i \in at : Rank(at, i) = k
  <1> DEFINE c == Cardinality(at)
             f == [i \in at |-> Rank(at, i)]
  <1>1. /\ IsFiniteSet(at) /\ c \in 0 .. n
        /\ \A i \in at : Rank(at, i) \in 1 .. c
        /\ \A i, j \in at : i < j => Rank(at, i) < Rank(at, j)
    BY RankIs, Zenon
  <1>2. /\ IsFiniteSet(at) /\ c \in Nat /\ \A i \in at : i \in Nat
        /\ \A i \in at : Rank(at, i) \in 1 .. c
        /\ \A i, j \in at : i < j => Rank(at, i) < Rank(at, j)
    <2>1. c \in Nat /\ \A i \in at : i \in Nat
      BY <1>1
    <2> QED
      BY <1>1, <2>1
  <1>3. IsFiniteSet(1 .. c) /\ Cardinality(1 .. c) = c
    BY <1>2, FS_Interval
  <1>4. f \in Injection(at, 1 .. c)
    <2>1. ASSUME NEW i \in at, NEW j \in at, i # j
          PROVE  Rank(at, i) # Rank(at, j)
      <3>1. i < j \/ j < i
        BY <1>2, <2>1
      <3>2. Rank(at, i) \in Nat /\ Rank(at, j) \in Nat
        BY <1>2
      <3> QED
        BY <1>2, <3>1, <3>2
    <2>2. f \in [at -> 1 .. c]
      BY <1>2
    <2> QED
      BY <2>1, <2>2 DEF Injection, IsInjective
  <1> HIDE DEF f
  <1>5. f \in Surjection(at, 1 .. c)
    BY <1>2, <1>3, <1>4, FS_Injection
  <1>6. PICK i \in at : f[i] = k
    BY <1>5 DEF Surjection
  <1> QED
    BY <1>6 DEF f

\* Pick reads every position once, in their order.
LEMMA PickIs ==
    ASSUME NEW S, NEW s \in Seq(S), NEW at, at \subseteq 1 .. Len(s)
    PROVE  /\ Pick(s, at) \in Seq(S) /\ Len(Pick(s, at)) = Cardinality(at)
           /\ Len(Pick(s, at)) <= Len(s)
           /\ \E f : Picked(s, at, f, Pick(s, at))
  <1> DEFINE c == Cardinality(at)
             f == [k \in 1 .. c |-> CHOOSE i \in at : Rank(at, i) = k]
  <1>1. Len(s) \in Nat
    OBVIOUS
  <1>2. /\ c \in 0 .. Len(s)
        /\ \A i \in at : Rank(at, i) \in 1 .. c
        /\ \A i, j \in at : i < j => Rank(at, i) < Rank(at, j)
    BY <1>1, RankIs, Zenon
  <1>3. /\ c \in Nat /\ c <= Len(s) /\ \A i \in at : i \in Nat
        /\ \A i \in at : Rank(at, i) \in 1 .. c
        /\ \A i, j \in at : i < j => Rank(at, i) < Rank(at, j)
    <2>1. c \in Nat /\ c <= Len(s) /\ \A i \in at : i \in Nat
      BY <1>1, <1>2
    <2> QED
      BY <1>2, <2>1
  <1>4. \A k \in 1 .. c : \E i \in at : Rank(at, i) = k
    BY <1>1, RankOnto, Zenon
  <1>5. \A k \in 1 .. c : f[k] \in at /\ Rank(at, f[k]) = k
    BY <1>4
  <1>6. f \in [1 .. c -> at]
    BY <1>5
  <1>7. \A i \in at : i \in 1 .. Len(s) /\ s[i] \in S
    OBVIOUS
  <1>8. Pick(s, at) = [k \in 1 .. c |-> s[f[k]]]
    BY DEF Pick
  <1> HIDE DEF f
  <1>9. /\ Pick(s, at) \in [1 .. c -> S]
        /\ \A k \in 1 .. c : Pick(s, at)[k] = s[f[k]]
    BY <1>5, <1>7, <1>8
  <1> DEFINE p == Pick(s, at)
  <1> HIDE DEF p
  <1>10. p \in Seq(S) /\ Len(p) = c /\ c \in Nat /\ c <= Len(s)
    <2>1. p \in [1 .. c -> S] /\ c \in Nat
      BY <1>3, <1>9 DEF p
    <2> QED
      BY <1>3, <2>1
  <1>11. ASSUME NEW k \in 1 .. c, NEW m \in 1 .. c, k < m
        PROVE  f[k] < f[m]
    <2>1. f[k] \in Nat /\ f[m] \in Nat
      BY <1>3, <1>5
    <2>2. f[k] # f[m]
      BY <1>5, <1>11
    <2>3. ~(f[m] < f[k])
      <3>1. f[m] < f[k] => Rank(at, f[m]) < Rank(at, f[k])
        BY <1>3, <1>5
      <3>2. f[m] < f[k] => m < k
        BY <1>5, <3>1
      <3> QED
        BY <1>11, <3>2
    <2> QED
      BY <2>1, <2>2, <2>3
  <1>12. ASSUME NEW i \in at
         PROVE  \E k \in 1 .. c : f[k] = i
    <2>1. Rank(at, i) \in 1 .. c
      BY <1>3
    <2>2. PICK k \in 1 .. c : k = Rank(at, i)
      BY <2>1
    <2>3. f[k] \in at /\ Rank(at, f[k]) = Rank(at, i)
      BY <1>5, <2>2
    <2>4. f[k] = i
      <3>1. f[k] \in Nat /\ i \in Nat /\ Rank(at, i) \in Nat
        <4>1. k \in Nat
          BY <1>3
        <4> QED
          BY <1>3, <2>2, <2>3, <4>1
      <3>2. ~(f[k] < i) /\ ~(i < f[k])
        BY <1>3, <2>3, <3>1
      <3> QED
        BY <3>1, <3>2
    <2> QED
      BY <2>4
  <1>13. Picked(s, at, f, p)
    BY <1>6, <1>9, <1>10, <1>11, <1>12 DEF Picked, p
  <1> QED
    BY <1>10, <1>13 DEF p

-----------------------------------------------------------------------------
\* The message at `k` is one of the results right behind the message at `i`.
Follows(msgs, i, k) ==
    /\ i < k /\ msgs[i].role = "assistant"
    /\ \A n \in i + 1 .. k : msgs[n].role = "tool"

\* The calls of the message at `i` have their results.
CallsAnswered(msgs, i) ==
    \A id \in ToSet(msgs[i].ids) \ {NoId} :
        \E k \in 1 .. Len(msgs) : Follows(msgs, i, k) /\ msgs[k].id = id

\* The result at `k` is the only one of a call of the message at `i`.
OwnResult(msgs, i, k) ==
    /\ Follows(msgs, i, k)
    /\ \/ NoId \in ToSet(msgs[i].ids)
       \/ /\ msgs[k].id \in ToSet(msgs[i].ids)
          /\ \A n \in 1 .. Len(msgs) :
               Follows(msgs, i, n) /\ msgs[n].id = msgs[k].id => n = k

\* Accepted, message by message.
LEMMA AcceptedIs ==
    ASSUME NEW S, NEW msgs \in Seq(S)
    PROVE  Accepted(msgs) <=>
             /\ \A i \in 1 .. Len(msgs) :
                  msgs[i].role = "assistant" => CallsAnswered(msgs, i)
             /\ \A k \in 1 .. Len(msgs) :
                  msgs[k].role = "tool" =>
                    \E i \in 1 .. Len(msgs) : OwnResult(msgs, i, k)
  <1>1. Len(msgs) \in Nat
    OBVIOUS
  <1>2. ASSUME NEW i \in 1 .. Len(msgs), msgs[i].role = "assistant"
        PROVE  \A k : k \in ResultsAfter(msgs, i) <=>
                        k \in 1 .. Len(msgs) /\ Follows(msgs, i, k)
    BY <1>1, <1>2 DEF ResultsAfter, Follows
  <1>3. ASSUME NEW i \in 1 .. Len(msgs), msgs[i].role = "assistant"
        PROVE  CallsAnswered(msgs, i) <=>
                 \A id \in ToSet(msgs[i].ids) \ {NoId} :
                   \E k \in ResultsAfter(msgs, i) : msgs[k].id = id
    BY <1>2, <1>3 DEF CallsAnswered
  <1>4. ASSUME NEW k \in 1 .. Len(msgs), msgs[k].role = "tool"
        PROVE  (\E i \in 1 .. Len(msgs) : OwnResult(msgs, i, k)) <=>
               \E i \in 1 .. (k - 1) :
                 /\ msgs[i].role = "assistant"
                 /\ k \in ResultsAfter(msgs, i)
                 /\ \/ NoId \in ToSet(msgs[i].ids)
                    \/ /\ msgs[k].id \in ToSet(msgs[i].ids)
                       /\ \A n \in ResultsAfter(msgs, i) :
                             msgs[n].id = msgs[k].id => n = k
    <2>1. ASSUME NEW i \in 1 .. Len(msgs), OwnResult(msgs, i, k)
          PROVE  /\ i \in 1 .. (k - 1) /\ msgs[i].role = "assistant"
                 /\ k \in ResultsAfter(msgs, i)
                 /\ \/ NoId \in ToSet(msgs[i].ids)
                    \/ /\ msgs[k].id \in ToSet(msgs[i].ids)
                       /\ \A n \in ResultsAfter(msgs, i) :
                             msgs[n].id = msgs[k].id => n = k
      <3>1. i \in 1 .. (k - 1) /\ msgs[i].role = "assistant"
        BY <1>1, <2>1 DEF OwnResult, Follows
      <3> QED
        BY <1>2, <2>1, <3>1 DEF OwnResult
    <2>2. ASSUME NEW i \in 1 .. (k - 1), msgs[i].role = "assistant",
                 k \in ResultsAfter(msgs, i),
                 \/ NoId \in ToSet(msgs[i].ids)
                 \/ /\ msgs[k].id \in ToSet(msgs[i].ids)
                    /\ \A n \in ResultsAfter(msgs, i) :
                          msgs[n].id = msgs[k].id => n = k
          PROVE  i \in 1 .. Len(msgs) /\ OwnResult(msgs, i, k)
      <3>1. i \in 1 .. Len(msgs)
        BY <1>1
      <3> QED
        BY <1>2, <2>2, <3>1 DEF OwnResult
    <2> QED
      BY <2>1, <2>2
  <1> QED
    BY <1>3, <1>4 DEF Accepted

\* `q` is a part of `p`, read along `f`, that cuts no message off its results.
Embedded(q, p, f) ==
    /\ f \in [1 .. Len(q) -> 1 .. Len(p)]
    /\ \A k \in 1 .. Len(q) : q[k] = p[f[k]]
    /\ \A k, n \in 1 .. Len(q) : k < n => f[k] < f[n]
    /\ \A k \in 1 .. Len(q) :
         q[k].role = "tool" => k > 1 /\ f[k - 1] = f[k] - 1
    /\ \A k \in 1 .. Len(q) :
         /\ q[k].role \in {"assistant", "tool"}
         /\ f[k] < Len(p) /\ p[f[k] + 1].role = "tool"
         => k < Len(q) /\ f[k + 1] = f[k] + 1

\* The numbers in an embedding.
LEMMA EmbeddedTypes ==
    ASSUME NEW S, NEW p \in Seq(S), NEW q \in Seq(S), NEW f,
           Embedded(q, p, f)
    PROVE  /\ Len(q) \in Nat /\ Len(p) \in Nat
           /\ \A n \in 1 .. Len(q) : f[n] \in Nat /\ f[n] \in 1 .. Len(p)
  <1>1. Len(q) \in Nat /\ Len(p) \in Nat
    OBVIOUS
  <1>2. \A n \in 1 .. Len(q) : f[n] \in 1 .. Len(p)
    BY DEF Embedded
  <1>3. \A m \in 1 .. Len(p) : m \in Nat
    BY <1>1
  <1> QED
    BY <1>1, <1>2, <1>3

\* Results that stand together in the part stood together in the whole.
LEMMA RunDown ==
    ASSUME NEW S, NEW p \in Seq(S), NEW q \in Seq(S), NEW f,
           Embedded(q, p, f),
           NEW i \in 1 .. Len(q), NEW k \in 1 .. Len(q), Follows(q, i, k)
    PROVE  /\ \A n \in i .. k : f[n] = f[i] + (n - i)
           /\ Follows(p, f[i], f[k])
  <1>1. /\ Len(q) \in Nat /\ Len(p) \in Nat
        /\ \A n \in 1 .. Len(q) : f[n] \in Nat /\ f[n] \in 1 .. Len(p)
        /\ \A n \in 1 .. Len(q) : q[n] = p[f[n]]
        /\ \A n \in 1 .. Len(q) :
             q[n].role = "tool" => n > 1 /\ f[n - 1] = f[n] - 1
    <2>1. /\ Len(q) \in Nat /\ Len(p) \in Nat
          /\ \A n \in 1 .. Len(q) : f[n] \in Nat /\ f[n] \in 1 .. Len(p)
      BY EmbeddedTypes
    <2> QED
      BY <2>1 DEF Embedded
  <1>2. /\ i < k /\ q[i].role = "assistant"
        /\ \A n \in i + 1 .. k : q[n].role = "tool"
    BY DEF Follows
  <1>3. \A n \in i .. k : f[n] = f[i] + (n - i)
    <2> DEFINE U == {n \in i .. k : f[n] # f[i] + (n - i)}
    <2> SUFFICES ASSUME U # {} PROVE FALSE
      OBVIOUS
    <2>1. U \subseteq Nat
      BY <1>1
    <2>2. PICK n \in U : \A m \in U : n <= m
      <3> HIDE DEF U
      <3> QED
        BY <2>1, SmallestNat
    <2>3. n # i /\ n \in i + 1 .. k
      BY <1>1, <2>2
    <2>4. n - 1 \in i .. k /\ n - 1 \notin U
      BY <1>1, <2>1, <2>2, <2>3
    <2>5. f[n - 1] = f[i] + ((n - 1) - i)
      BY <2>4
    <2>6. f[n - 1] = f[n] - 1
      <3>1. n \in 1 .. Len(q) /\ q[n].role = "tool"
        BY SMTT(100), <1>1, <1>2, <2>3
      <3> QED
        BY <1>1, <3>1
    <2>7. f[n] \in Nat /\ f[i] \in Nat
      BY <1>1, <2>3
    <2>8. f[n] = f[i] + (n - i)
      BY SMTT(30), <1>1, <2>3, <2>5, <2>6, <2>7
    <2> QED
      BY <2>2, <2>8
  <1>4. Follows(p, f[i], f[k])
    <2>1. f[k] = f[i] + (k - i) /\ f[i] \in Nat /\ f[k] \in Nat
      <3>1. k \in i .. k
        BY <1>1, <1>2
      <3> QED
        BY <1>1, <1>3, <3>1
    <2>2. f[i] < f[k] /\ p[f[i]].role = "assistant"
      BY <1>1, <1>2, <2>1
    <2>3. ASSUME NEW m \in f[i] + 1 .. f[k]
          PROVE  p[m].role = "tool"
      <3>1. PICK n \in i + 1 .. k : n = i + (m - f[i])
        BY <1>1, <2>1
      <3>2. f[n] = m
        <4>1. n \in i .. k
          BY <1>1
        <4>2. f[n] = f[i] + (n - i)
          BY <1>3, <4>1
        <4>3. i \in Nat /\ m \in Nat
          BY <1>1, <2>1
        <4>4. PICK a \in Nat : a = f[i]
          BY <2>1
        <4>5. n = i + (m - a) /\ n \in Nat
          BY <3>1, <4>1, <4>3, <4>4
        <4>6. a + (n - i) = m
          BY <4>3, <4>5
        <4> QED
          BY <4>2, <4>4, <4>6, Zenon
      <3>3. n \in 1 .. Len(q)
        BY <1>1
      <3> QED
        BY <1>1, <1>2, <3>2, <3>3
    <2> QED
      BY <2>2, <2>3 DEF Follows
  <1> QED
    BY <1>3, <1>4

\* Results that stood behind a message of the part are in the part.
LEMMA RunUp ==
    ASSUME NEW S, NEW p \in Seq(S), NEW q \in Seq(S), NEW f,
           Embedded(q, p, f),
           NEW i \in 1 .. Len(q), NEW m \in 1 .. Len(p), Follows(p, f[i], m)
    PROVE  \E k \in 1 .. Len(q) : f[k] = m /\ Follows(q, i, k)
  <1>1. /\ Len(q) \in Nat /\ Len(p) \in Nat
        /\ \A n \in 1 .. Len(q) : f[n] \in Nat /\ f[n] \in 1 .. Len(p)
        /\ \A n \in 1 .. Len(q) : q[n] = p[f[n]]
        /\ \A n \in 1 .. Len(q) :
             /\ q[n].role \in {"assistant", "tool"}
             /\ f[n] < Len(p) /\ p[f[n] + 1].role = "tool"
             => n < Len(q) /\ f[n + 1] = f[n] + 1
    <2>1. /\ Len(q) \in Nat /\ Len(p) \in Nat
          /\ \A n \in 1 .. Len(q) : f[n] \in Nat /\ f[n] \in 1 .. Len(p)
      BY EmbeddedTypes
    <2>2. \A n \in 1 .. Len(q) : q[n] = p[f[n]]
      BY Zenon DEF Embedded
    <2>3. \A n \in 1 .. Len(q) :
            /\ q[n].role \in {"assistant", "tool"}
            /\ f[n] < Len(p) /\ p[f[n] + 1].role = "tool"
            => n < Len(q) /\ f[n + 1] = f[n] + 1
      BY Zenon DEF Embedded
    <2> QED
      BY <2>1, <2>2, <2>3, Zenon
  <1>2. /\ f[i] < m /\ p[f[i]].role = "assistant"
        /\ \A n \in f[i] + 1 .. m : p[n].role = "tool"
    BY DEF Follows
  <1>3. PICK c \in Nat : c = m - f[i]
    BY <1>1, <1>2
  <1>4. \A d \in 0 .. c : i + d <= Len(q) /\ f[i + d] = f[i] + d
    <2> DEFINE U == {d \in 0 .. c : ~(i + d <= Len(q) /\ f[i + d] = f[i] + d)}
    <2> SUFFICES ASSUME U # {} PROVE FALSE
      OBVIOUS
    <2>1. U \subseteq Nat
      OBVIOUS
    <2>2. PICK d \in U : \A e \in U : d <= e
      <3> HIDE DEF U
      <3> QED
        BY <2>1, SmallestNat
    <2>3. d # 0
      BY <1>1, <2>2
    <2>4. d - 1 \in 0 .. c /\ d - 1 \notin U
      BY SMTT(30), <2>2, <2>3
    <2>5. PICK n \in 1 .. Len(q) : n = i + (d - 1) /\ f[n] = f[i] + (d - 1)
      BY <1>1, <2>4
    <2>6. q[n].role \in {"assistant", "tool"}
      <3>1. CASE d = 1
        BY <1>1, <1>2, <2>5, <3>1
      <3>2. CASE d # 1
        <4>1. f[n] \in f[i] + 1 .. m
          <5>1. f[i] \in Nat /\ m \in Nat /\ d \in 2 .. c
            BY <1>1, <2>2, <2>3, <3>2
          <5>2. PICK a \in Nat : a = f[i]
            BY <5>1
          <5>3. c = m - a /\ f[n] = a + (d - 1)
            BY <1>3, <2>5, <5>2
          <5>4. a + (d - 1) \in a + 1 .. m
            BY <5>1, <5>3
          <5> QED
            BY <5>2, <5>3, <5>4, Zenon
        <4>2. p[f[n]].role = "tool"
          BY <1>2, <4>1, Zenon
        <4>3. q[n] = p[f[n]]
          BY <1>1, Zenon
        <4> QED
          BY <4>2, <4>3, Zenon
      <3> QED
        BY <3>1, <3>2
    <2>7. f[n] < Len(p) /\ f[n] + 1 \in f[i] + 1 .. m
      <3>1. f[i] \in Nat /\ m \in Nat /\ m <= Len(p) /\ d \in 1 .. c
        BY <1>1, <2>2, <2>3
      <3> QED
        BY SMTT(100), <1>1, <1>3, <2>5, <3>1
    <2>8. n < Len(q) /\ f[n + 1] = f[n] + 1
      BY <1>1, <1>2, <2>6, <2>7
    <2>9. i + d <= Len(q) /\ f[i + d] = f[i] + d
      <3>1. n + 1 = i + d
        BY <1>1, <2>2, <2>5
      <3>2. i + d <= Len(q) /\ f[i + d] = f[n] + 1
        BY <1>1, <2>8, <3>1
      <3>3. f[i] \in Nat /\ d \in Nat
        BY <1>1, <2>2
      <3>4. f[n] + 1 = f[i] + d
        BY SMTT(30), <2>5, <3>3
      <3> QED
        BY <3>2, <3>4
    <2> QED
      BY <2>2, <2>9
  <1>5. PICK k \in 1 .. Len(q) : k = i + c
    BY <1>1, <1>3, <1>4
  <1>6. f[k] = m
    <2>1. f[k] = f[i] + c
      BY SMTT(30), <1>3, <1>4, <1>5
    <2>2. f[i] \in Nat /\ m \in Nat
      BY <1>1
    <2> QED
      BY <1>3, <2>1, <2>2
  <1>7. i < k /\ q[i].role = "assistant"
    BY SMTT(30), <1>1, <1>2, <1>3, <1>5
  <1>8. ASSUME NEW n \in i + 1 .. k
        PROVE  q[n].role = "tool"
    <2>1. PICK d \in 0 .. c : n = i + d /\ d # 0
      BY <1>1, <1>3, <1>5
    <2>2. n \in 1 .. Len(q) /\ f[n] = f[i] + d
      BY <1>1, <1>4, <1>5, <2>1
    <2>3. f[n] \in f[i] + 1 .. m
      BY SMTT(30), <1>1, <1>3, <2>1, <2>2
    <2> QED
      BY <1>1, <1>2, <2>2, <2>3
  <1> QED
    BY <1>6, <1>7, <1>8 DEF Follows

\* The message a result of the part answers is in the part.
LEMMA RunBack ==
    ASSUME NEW S, NEW p \in Seq(S), NEW q \in Seq(S), NEW f,
           Embedded(q, p, f),
           NEW k \in 1 .. Len(q), NEW j \in 1 .. Len(p), Follows(p, j, f[k])
    PROVE  \E i \in 1 .. Len(q) : f[i] = j /\ Follows(q, i, k)
  <1>1. /\ Len(q) \in Nat /\ Len(p) \in Nat
        /\ \A n \in 1 .. Len(q) : f[n] \in Nat /\ f[n] \in 1 .. Len(p)
    BY EmbeddedTypes
  <1>2. /\ \A n \in 1 .. Len(q) : q[n] = p[f[n]]
        /\ \A n \in 1 .. Len(q) :
             q[n].role = "tool" => n > 1 /\ f[n - 1] = f[n] - 1
    BY DEF Embedded
  <1>3. /\ j < f[k] /\ p[j].role = "assistant"
        /\ \A n \in j + 1 .. f[k] : p[n].role = "tool"
    BY DEF Follows
  <1>4. PICK c \in Nat : c = f[k] - j
    BY <1>1, <1>3
  <1>5. \A d \in 0 .. c : k - d \in 1 .. Len(q) /\ f[k - d] = f[k] - d
    <2> DEFINE U == {d \in 0 .. c :
                       ~(k - d \in 1 .. Len(q) /\ f[k - d] = f[k] - d)}
    <2> SUFFICES ASSUME U # {} PROVE FALSE
      OBVIOUS
    <2>1. U \subseteq Nat
      OBVIOUS
    <2>2. PICK d \in U : \A e \in U : d <= e
      <3> HIDE DEF U
      <3> QED
        BY <2>1, SmallestNat
    <2>3. d # 0
      BY <1>1, <2>2
    <2>4. d - 1 \in 0 .. c /\ d - 1 \notin U
      BY <2>2, <2>3
    <2>5. PICK n \in 1 .. Len(q) : n = k - (d - 1) /\ f[n] = f[k] - (d - 1)
      BY <1>1, <2>4
    <2>6. f[n] \in j + 1 .. f[k]
      <3>1. f[k] \in Nat /\ j \in Nat /\ d \in 1 .. c
        BY <1>1, <2>2, <2>3
      <3> QED
        BY SMTT(30), <1>4, <2>5, <3>1
    <2>7. q[n].role = "tool"
      BY <1>2, <1>3, <2>6
    <2>8. n > 1 /\ f[n - 1] = f[n] - 1
      BY <1>2, <2>7
    <2>9. k - d \in 1 .. Len(q) /\ f[k - d] = f[n] - 1
      <3>1. n - 1 = k - d /\ n - 1 \in 1 .. Len(q)
        BY <1>1, <2>2, <2>5, <2>8
      <3> QED
        BY <2>8, <3>1
    <2>10. f[n] - 1 = f[k] - d
      <3>1. d \in Nat
        BY <2>2
      <3>2. PICK g \in Nat : g = f[k]
        BY <1>1
      <3>3. f[n] = g - (d - 1)
        BY <2>5, <3>2
      <3>4. f[n] - 1 = g - d
        BY <3>1, <3>3
      <3> QED
        BY <3>2, <3>4
    <2> QED
      BY <2>2, <2>9, <2>10
  <1>6. PICK i \in 1 .. Len(q) : i = k - c /\ f[i] = f[k] - c
    BY <1>4, <1>5
  <1>7. f[i] = j /\ i < k
    <2>1. f[k] \in Nat /\ j \in Nat
      BY <1>1
    <2> QED
      BY <1>1, <1>3, <1>4, <1>6, <2>1
  <1>8. ASSUME NEW n \in i + 1 .. k
        PROVE  q[n].role = "tool"
    <2>1. PICK d \in 0 .. c : n = k - d /\ d # c
      <3>1. k \in Nat /\ i \in Nat /\ i = k - c /\ n \in Nat
        BY <1>1, <1>6
      <3>2. i + 1 <= n /\ n <= k
        BY <3>1
      <3>3. k - n \in 0 .. c /\ k - n # c
        BY <3>1, <3>2
      <3>4. n = k - (k - n)
        BY <3>1
      <3> QED
        BY <3>3, <3>4, Zenon
    <2>2. n \in 1 .. Len(q) /\ f[n] = f[k] - d
      BY <1>5, <2>1
    <2>3. f[n] \in j + 1 .. f[k]
      <3>1. f[k] \in Nat /\ j \in Nat
        BY <1>1
      <3> QED
        BY <1>4, <2>1, <2>2, <3>1
    <2> QED
      BY <1>2, <1>3, <2>2, <2>3
  <1> QED
    BY <1>2, <1>3, <1>7, <1>8 DEF Follows

\* A part that cuts no message off its results is accepted.
LEMMA EmbeddedAccepted ==
    ASSUME NEW S, NEW p \in Seq(S), NEW q \in Seq(S), NEW f,
           Embedded(q, p, f), Accepted(p)
    PROVE  Accepted(q)
  <1>1. /\ Len(q) \in Nat /\ Len(p) \in Nat
        /\ \A n \in 1 .. Len(q) : f[n] \in Nat /\ f[n] \in 1 .. Len(p)
    BY EmbeddedTypes
  <1>2. /\ \A n \in 1 .. Len(q) : q[n] = p[f[n]]
        /\ \A k, n \in 1 .. Len(q) : k < n => f[k] < f[n]
    BY DEF Embedded
  <1>3. ASSUME NEW i \in 1 .. Len(q), q[i].role = "assistant"
        PROVE  CallsAnswered(q, i)
    <2>1. CallsAnswered(p, f[i])
      BY <1>1, <1>2, <1>3, AcceptedIs
    <2>2. ASSUME NEW id \in ToSet(q[i].ids) \ {NoId}
          PROVE  \E k \in 1 .. Len(q) : Follows(q, i, k) /\ q[k].id = id
      <3>1. PICK m \in 1 .. Len(p) : Follows(p, f[i], m) /\ p[m].id = id
        BY <1>2, <2>1 DEF CallsAnswered
      <3>2. PICK k \in 1 .. Len(q) : f[k] = m /\ Follows(q, i, k)
        BY <3>1, RunUp
      <3> QED
        BY <1>2, <3>1, <3>2
    <2> QED
      BY <2>2 DEF CallsAnswered
  <1>4. ASSUME NEW k \in 1 .. Len(q), q[k].role = "tool"
        PROVE  \E i \in 1 .. Len(q) : OwnResult(q, i, k)
    <2>1. PICK j \in 1 .. Len(p) : OwnResult(p, j, f[k])
      BY <1>1, <1>2, <1>4, AcceptedIs
    <2>2. PICK i \in 1 .. Len(q) : f[i] = j /\ Follows(q, i, k)
      BY <2>1, RunBack DEF OwnResult
    <2>3. ASSUME NEW n \in 1 .. Len(q), Follows(q, i, n),
                 q[n].id = q[k].id, NoId \notin ToSet(q[i].ids)
          PROVE  n = k
      <3>1. Follows(p, j, f[n])
        BY <2>2, <2>3, RunDown
      <3>2. f[n] = f[k]
        BY <1>1, <1>2, <2>1, <2>2, <2>3, <3>1 DEF OwnResult
      <3>3. ~(n < k) /\ ~(k < n)
        BY <1>1, <1>2, <3>2
      <3> QED
        BY <1>1, <3>3
    <2>4. NoId \in ToSet(q[i].ids) \/ q[k].id \in ToSet(q[i].ids)
      BY <1>2, <2>1, <2>2 DEF OwnResult
    <2> QED
      BY <2>2, <2>3, <2>4 DEF OwnResult
  <1> QED
    BY <1>3, <1>4, AcceptedIs

\* In an accepted list a result is not the first message, and what precedes it
\* is a result or an assistant message.
LEMMA ToolBefore ==
    ASSUME NEW S, NEW p \in Seq(S), Accepted(p),
           NEW k \in 1 .. Len(p), p[k].role = "tool"
    PROVE  k > 1 /\ p[k - 1].role \in {"assistant", "tool"}
  <1>1. PICK i \in 1 .. Len(p) : OwnResult(p, i, k)
    BY AcceptedIs
  <1>2. /\ i < k /\ p[i].role = "assistant"
        /\ \A n \in i + 1 .. k : p[n].role = "tool"
    BY <1>1 DEF OwnResult, Follows
  <1>3. CASE i = k - 1
    BY <1>2, <1>3
  <1>4. CASE i # k - 1
    <2>1. k - 1 \in i + 1 .. k
      BY <1>2, <1>4
    <2> QED
      BY <1>2, <2>1
  <1> QED
    BY <1>3, <1>4

-----------------------------------------------------------------------------
\* Two accepted lists, one behind the other.
LEMMA ConcatAccepted ==
    ASSUME NEW S, NEW a \in Seq(S), NEW b \in Seq(S), Accepted(a), Accepted(b)
    PROVE  Accepted(a \o b)
  <1> DEFINE c == a \o b
  <1>1. PICK la \in Nat : la = Len(a)
    OBVIOUS
  <1>2. PICK lb \in Nat : lb = Len(b)
    OBVIOUS
  <1>3. /\ c \in Seq(S) /\ Len(c) = la + lb
        /\ \A n \in 1 .. la : c[n] = a[n]
        /\ \A n \in 1 .. lb : c[la + n] = b[n]
    BY <1>1, <1>2, ConcatProperties
  <1> HIDE DEF c
  <1>4. lb > 0 => b[1].role # "tool"
    BY <1>2, ToolBefore
  <1>5. ASSUME NEW i \in 1 .. la, NEW k \in 1 .. la
        PROVE  Follows(c, i, k) <=> Follows(a, i, k)
    <2>1. \A n \in i .. k : n \in 1 .. la
      OBVIOUS
    <2> QED
      BY SMTT(30), <1>3, <2>1 DEF Follows
  <1>6. ASSUME NEW i \in 1 .. la, NEW k \in 1 .. la + lb, Follows(c, i, k)
        PROVE  k \in 1 .. la
    <2> SUFFICES ASSUME k > la PROVE FALSE
      OBVIOUS
    <2>1. la + 1 \in i + 1 .. k /\ 1 \in 1 .. lb
      OBVIOUS
    <2>2. c[la + 1].role = "tool" /\ c[la + 1] = b[1]
      BY <1>3, <1>6, <2>1 DEF Follows
    <2> QED
      BY <1>4, <2>1, <2>2
  <1>7. ASSUME NEW i \in 1 .. lb, NEW k \in 1 .. lb
        PROVE  Follows(c, la + i, la + k) <=> Follows(b, i, k)
    <2>1. la + i < la + k <=> i < k
      OBVIOUS
    <2>2. (\A n \in la + i + 1 .. la + k : c[n].role = "tool") <=>
            \A n \in i + 1 .. k : b[n].role = "tool"
      <3>1. ASSUME \A n \in la + i + 1 .. la + k : c[n].role = "tool",
                   NEW n \in i + 1 .. k
            PROVE  b[n].role = "tool"
        <4>1. la + n \in la + i + 1 .. la + k /\ n \in 1 .. lb
          OBVIOUS
        <4> QED
          BY <1>3, <3>1, <4>1
      <3>2. ASSUME \A n \in i + 1 .. k : b[n].role = "tool",
                   NEW n \in la + i + 1 .. la + k
            PROVE  c[n].role = "tool"
        <4>1. PICK m \in i + 1 .. k : n = la + m
          <5>1. n - la \in i + 1 .. k /\ n = la + (n - la)
            OBVIOUS
          <5> QED
            BY <5>1
        <4>2. m \in 1 .. lb
          OBVIOUS
        <4> QED
          BY <1>3, <3>2, <4>1, <4>2
      <3> QED
        BY <3>1, <3>2
    <2> QED
      BY <1>3, <2>1, <2>2 DEF Follows
  <1>8. ASSUME NEW i \in 1 .. lb, NEW k \in 1 .. la + lb,
               Follows(c, la + i, k)
        PROVE  \E m \in 1 .. lb : k = la + m
    <2>1. la + i < k
      BY <1>8 DEF Follows
    <2>2. k - la \in 1 .. lb /\ k = la + (k - la)
      BY <2>1
    <2> QED
      BY <2>2
  <1>9. \A n \in 1 .. la + lb :
          n \in 1 .. la \/ \E m \in 1 .. lb : n = la + m
    <2> SUFFICES ASSUME NEW n \in 1 .. la + lb, n \notin 1 .. la
                 PROVE  \E m \in 1 .. lb : n = la + m
      OBVIOUS
    <2>1. n - la \in 1 .. lb /\ n = la + (n - la)
      OBVIOUS
    <2> QED
      BY <2>1
  <1>10. ASSUME NEW i \in 1 .. la + lb, c[i].role = "assistant"
         PROVE  CallsAnswered(c, i)
    <2>1. CASE i \in 1 .. la
      <3>1. CallsAnswered(a, i)
        BY <1>1, <1>3, <1>10, <2>1, AcceptedIs
      <3>2. \A k \in 1 .. la : k \in 1 .. la + lb
        OBVIOUS
      <3> QED
        BY <1>1, <1>3, <1>5, <2>1, <3>1, <3>2 DEF CallsAnswered
    <2>2. ASSUME NEW m \in 1 .. lb, i = la + m
          PROVE  CallsAnswered(c, i)
      <3>1. CallsAnswered(b, m) /\ c[i] = b[m]
        BY <1>2, <1>3, <1>10, <2>2, AcceptedIs
      <3>2. ASSUME NEW id \in ToSet(c[i].ids) \ {NoId}
            PROVE  \E k \in 1 .. la + lb : Follows(c, i, k) /\ c[k].id = id
        <4>1. PICK k \in 1 .. lb : Follows(b, m, k) /\ b[k].id = id
          BY <1>2, <3>1 DEF CallsAnswered
        <4>2. la + k \in 1 .. la + lb
          OBVIOUS
        <4> QED
          BY <1>3, <1>7, <2>2, <4>1, <4>2
      <3> QED
        BY <1>3, <3>2 DEF CallsAnswered
    <2> QED
      BY <1>9, <2>1, <2>2
  <1>11. ASSUME NEW k \in 1 .. la + lb, c[k].role = "tool"
         PROVE  \E i \in 1 .. la + lb : OwnResult(c, i, k)
    <2>1. CASE k \in 1 .. la
      <3>1. PICK i \in 1 .. la : OwnResult(a, i, k)
        BY <1>1, <1>3, <1>11, <2>1, AcceptedIs
      <3>2. ASSUME NEW n \in 1 .. la + lb, Follows(c, i, n),
                   c[n].id = c[k].id, NoId \notin ToSet(c[i].ids)
            PROVE  n = k
        <4>1. n \in 1 .. la
          BY <1>6, <3>2
        <4> QED
          BY <1>1, <1>3, <1>5, <2>1, <3>1, <3>2, <4>1 DEF OwnResult
      <3>3. i \in 1 .. la + lb /\ Follows(c, i, k)
        BY <1>5, <2>1, <3>1 DEF OwnResult
      <3> QED
        BY <1>3, <2>1, <3>1, <3>2, <3>3 DEF OwnResult
    <2>2. ASSUME NEW m \in 1 .. lb, k = la + m
          PROVE  \E i \in 1 .. la + lb : OwnResult(c, i, k)
      <3>1. PICK j \in 1 .. lb : OwnResult(b, j, m)
        BY <1>2, <1>3, <1>11, <2>2, AcceptedIs
      <3>2. PICK i \in 1 .. la + lb : i = la + j
        OBVIOUS
      <3>3. Follows(c, i, k) /\ c[i] = b[j] /\ c[k] = b[m]
        BY <1>3, <1>7, <2>2, <3>1, <3>2 DEF OwnResult
      <3>4. ASSUME NEW n \in 1 .. la + lb, Follows(c, i, n),
                   c[n].id = c[k].id, NoId \notin ToSet(c[i].ids)
            PROVE  n = k
        <4>1. PICK h \in 1 .. lb : n = la + h
          BY <1>8, <3>2, <3>4
        <4>2. Follows(b, j, h) /\ b[h].id = b[m].id
          BY <1>3, <1>7, <3>2, <3>3, <3>4, <4>1
        <4>3. h = m
          BY <1>2, <3>1, <3>3, <3>4, <4>2 DEF OwnResult
        <4> QED
          BY <2>2, <4>1, <4>3
      <3> QED
        BY <1>3, <3>1, <3>3, <3>4 DEF OwnResult
    <2> QED
      BY <1>9, <2>1, <2>2
  <1>12. Accepted(c)
    BY <1>3, <1>10, <1>11, AcceptedIs
  <1> QED
    BY <1>12 DEF c

\* Messages without calls and results are accepted.
LEMMA PlainAccepted ==
    ASSUME NEW S, NEW p \in Seq(S),
           \A i \in 1 .. Len(p) : /\ p[i].role # "tool"
                                  /\ p[i].role = "assistant" => p[i].ids = << >>
    PROVE  Accepted(p)
  <1>1. ToSet(<< >>) = {}
    BY DEF ToSet
  <1>2. ASSUME NEW i \in 1 .. Len(p), p[i].role = "assistant"
        PROVE  CallsAnswered(p, i)
    BY <1>1, <1>2 DEF CallsAnswered
  <1> QED
    BY <1>2, AcceptedIs

\* `p` is a message that makes the `n` different calls `ids`, and their results.
IsBlock(p, I, ids, n) ==
    /\ ids \in [1 .. n -> I] /\ Len(p) = n + 1 /\ Len(ids) = n
    /\ p[1].role = "assistant" /\ p[1].ids = ids
    /\ \A i \in 1 .. n : p[i + 1].role = "tool" /\ p[i + 1].id = ids[i]
    /\ \A i, j \in 1 .. n : ids[i] = ids[j] => i = j

\* A message and one result for each of its calls, in their order.
LEMMA BlockAccepted ==
    ASSUME NEW S, NEW p \in Seq(S), NEW I, NEW ids, NEW n \in Nat,
           IsBlock(p, I, ids, n)
    PROVE  Accepted(p)
  <1> USE DEF IsBlock
  <1>1. ToSet(ids) = {ids[i] : i \in 1 .. n}
    BY DEF ToSet
  <1>2. \A k \in 2 .. n + 1 : p[k].role = "tool" /\ p[k].id = ids[k - 1]
    <2> SUFFICES ASSUME NEW k \in 2 .. n + 1
                 PROVE  p[k].role = "tool" /\ p[k].id = ids[k - 1]
      OBVIOUS
    <2>1. PICK i \in 1 .. n : i = k - 1 /\ i + 1 = k
      <3>1. k - 1 \in 1 .. n /\ (k - 1) + 1 = k
        OBVIOUS
      <3> QED
        BY <3>1
    <2> QED
      BY <2>1
  <1>3. \A k \in 2 .. n + 1 : Follows(p, 1, k)
    BY <1>2 DEF Follows
  <1>4. ASSUME NEW i \in 1 .. n + 1, p[i].role = "assistant"
        PROVE  CallsAnswered(p, i)
    <2>1. i = 1
      BY <1>2, <1>4
    <2>2. ASSUME NEW id \in ToSet(ids)
          PROVE  \E k \in 1 .. n + 1 : Follows(p, 1, k) /\ p[k].id = id
      <3>1. PICK j \in 1 .. n : id = ids[j]
        BY <1>1
      <3>2. j + 1 \in 2 .. n + 1 /\ j + 1 \in 1 .. n + 1
        OBVIOUS
      <3> QED
        BY <1>3, <3>1, <3>2
    <2> QED
      BY <2>1, <2>2 DEF CallsAnswered
  <1>5. ASSUME NEW k \in 1 .. n + 1, p[k].role = "tool"
        PROVE  \E i \in 1 .. n + 1 : OwnResult(p, i, k)
    <2>1. k \in 2 .. n + 1
      BY <1>5
    <2>2. k - 1 \in 1 .. n
      BY <2>1
    <2>3. p[k].id \in ToSet(ids)
      BY <1>1, <1>2, <2>1, <2>2
    <2>4. ASSUME NEW m \in 1 .. n + 1, Follows(p, 1, m), p[m].id = p[k].id
          PROVE  m = k
      <3>1. m \in 2 .. n + 1
        BY <2>4 DEF Follows
      <3>2. m - 1 \in 1 .. n /\ ids[m - 1] = ids[k - 1]
        BY SMTT(30), <1>2, <2>1, <2>4, <3>1
      <3>3. m - 1 = k - 1
        BY <2>2, <3>2
      <3> QED
        BY <2>1, <3>1, <3>3
    <2>5. OwnResult(p, 1, k)
      BY <1>3, <2>1, <2>3, <2>4 DEF OwnResult
    <2> QED
      BY <2>5
  <1> QED
    BY <1>4, <1>5, AcceptedIs

\* An accepted list up to a message that is no result.
LEMMA PrefixAccepted ==
    ASSUME NEW S, NEW p \in Seq(S), Accepted(p), NEW n \in 0 .. Len(p),
           n < Len(p) => p[n + 1].role # "tool"
    PROVE  Accepted(SubSeq(p, 1, n))
  <1> DEFINE q == SubSeq(p, 1, n)
             f == [k \in 1 .. n |-> k]
  <1>1. /\ q \in Seq(S) /\ Len(q) = n /\ Len(p) \in Nat
        /\ \A k \in 1 .. n : q[k] = p[k]
    OBVIOUS
  <1> HIDE DEF q
  <1>2. \A k \in 1 .. n : q[k].role = "tool" => k > 1
    BY <1>1, ToolBefore
  <1>3. Embedded(q, p, f)
    <2>1. f \in [1 .. Len(q) -> 1 .. Len(p)]
      BY <1>1
    <2>2. ASSUME NEW k \in 1 .. n, q[k].role = "tool"
          PROVE  k > 1 /\ f[k - 1] = f[k] - 1
      BY <1>2, <2>2
    <2>3. ASSUME NEW k \in 1 .. n, f[k] < Len(p), p[f[k] + 1].role = "tool"
          PROVE  k < n /\ f[k + 1] = f[k] + 1
      <3>1. k # n
        BY <2>3
      <3> QED
        BY <3>1
    <2> QED
      BY <1>1, <2>1, <2>2, <2>3 DEF Embedded
  <1>4. Accepted(q)
    BY <1>1, <1>3, EmbeddedAccepted
  <1> QED
    BY <1>4 DEF q

\* An accepted list from a message on that is no result.
LEMMA SuffixAccepted ==
    ASSUME NEW S, NEW p \in Seq(S), Accepted(p), NEW n \in 1 .. Len(p),
           p[n].role # "tool"
    PROVE  Accepted(SubSeq(p, n, Len(p)))
  <1> DEFINE q == SubSeq(p, n, Len(p))
  <1>1. PICK l \in Nat : l = Len(p)
    OBVIOUS
  <1>2. PICK c \in Nat : c = l - n + 1
    BY <1>1
  <1>3. /\ q \in Seq(S) /\ Len(q) = c
        /\ \A k \in 1 .. c : q[k] = p[n - 1 + k]
    BY <1>1, <1>2
  <1> HIDE DEF q
  <1> DEFINE f == [k \in 1 .. c |-> n - 1 + k]
  <1>4. Embedded(q, p, f)
    <2>1. f \in [1 .. c -> 1 .. l]
      BY <1>1, <1>2
    <2>2. ASSUME NEW k \in 1 .. c, q[k].role = "tool"
          PROVE  k > 1 /\ f[k - 1] = f[k] - 1
      <3>1. k # 1
        BY <1>3, <2>2
      <3> QED
        BY <1>1, <1>2, <3>1
    <2>3. ASSUME NEW k \in 1 .. c, f[k] < l
          PROVE  k < c /\ f[k + 1] = f[k] + 1
      BY <1>1, <1>2, <2>3
    <2>4. \A k \in 1 .. c : q[k] = p[f[k]]
      BY <1>3
    <2>5. \A k, m \in 1 .. c : k < m => f[k] < f[m]
      BY <1>1, <1>2
    <2> HIDE DEF f
    <2> QED
      BY <1>1, <1>3, <2>1, <2>2, <2>3, <2>4, <2>5 DEF Embedded
  <1> HIDE DEF f
  <1>5. Accepted(q)
    BY <1>3, <1>4, EmbeddedAccepted
  <1> QED
    BY <1>5 DEF q

-----------------------------------------------------------------------------
\* LastRealUser is the place of the last prompt, 0 when there is none.
LEMMA LastRealUserIs ==
    ASSUME NEW S, NEW p \in Seq(S)
    PROVE  /\ LastRealUser(p) \in 0 .. Len(p)
           /\ LastRealUser(p) # 0 => RealUserTurn(p[LastRealUser(p)])
           /\ \A i \in 1 .. Len(p) :
                RealUserTurn(p[i]) => i <= LastRealUser(p)
  <1> DEFINE T == {0} \cup {i \in 1 .. Len(p) : RealUserTurn(p[i])}
  <1>1. Len(p) \in Nat /\ T \subseteq 0 .. Len(p) /\ T # {}
    OBVIOUS
  <1>2. LastRealUser(p) = Max(T)
    BY DEF LastRealUser
  <1>3. \A i : i \in T <=>
          i = 0 \/ (i \in 1 .. Len(p) /\ RealUserTurn(p[i]))
    OBVIOUS
  <1> HIDE DEF T
  <1>4. Max(T) \in T /\ \A y \in T : y <= Max(T)
    BY <1>1, MaxIs
  <1> QED
    BY <1>1, <1>2, <1>3, <1>4

\* The positions apply_full_replace keeps.
KeptBy(p) == {i \in LastRealUser(p) .. Len(p) :
                /\ LastRealUser(p) # 0 /\ ~IsCarrier(p[i])
                /\ i = LastRealUser(p) => HasText(p[LastRealUser(p)])}

\* What apply_full_replace keeps is a part of the list that cuts no message off
\* its results.
LEMMA KeptAccepted ==
    ASSUME NEW S, NEW p \in Seq(S), Accepted(p)
    PROVE  Pick(p, KeptBy(p)) \in Seq(S) /\ Accepted(Pick(p, KeptBy(p)))
  <1> DEFINE q == Pick(p, KeptBy(p))
  <1>1. PICK at \in Nat : at = LastRealUser(p)
    BY LastRealUserIs
  <1>2. Len(p) \in Nat /\ KeptBy(p) \subseteq 1 .. Len(p)
    BY <1>1 DEF KeptBy
  <1>3. q \in Seq(S) /\ \E f : Picked(p, KeptBy(p), f, q)
    BY <1>2, PickIs
  <1> HIDE DEF q
  <1>4. PICK f : Picked(p, KeptBy(p), f, q)
    BY <1>3
  <1>5. /\ Len(q) \in Nat /\ f \in [1 .. Len(q) -> KeptBy(p)]
        /\ \A k \in 1 .. Len(q) : q[k] = p[f[k]]
        /\ \A k, n \in 1 .. Len(q) : k < n => f[k] < f[n]
        /\ \A i \in KeptBy(p) : \E k \in 1 .. Len(q) : f[k] = i
    BY <1>3, <1>4 DEF Picked
  <1>6. \A k \in 1 .. Len(q) : /\ f[k] \in Nat /\ f[k] \in 1 .. Len(p)
                               /\ f[k] >= at /\ at # 0
    <2>1. \A i \in KeptBy(p) : i \in Nat /\ i \in 1 .. Len(p)
                               /\ i >= at /\ at # 0
      BY <1>1, <1>2 DEF KeptBy
    <2> QED
      BY <1>5, <2>1
  \* Neighbours stay neighbours.
  <1>7. ASSUME NEW j \in 1 .. Len(q), NEW k \in 1 .. Len(q), f[j] = f[k] - 1
        PROVE  j = k - 1
    <2>1. j < k
      <3>1. ~(k < j) /\ k # j
        BY <1>5, <1>6, <1>7
      <3> QED
        BY <1>5, <3>1
    <2>2. ASSUME j # k - 1 PROVE FALSE
      <3>1. k - 1 \in 1 .. Len(q) /\ j < k - 1 /\ k - 1 < k
        BY <1>5, <2>1, <2>2
      <3>2. f[j] < f[k - 1] /\ f[k - 1] < f[k]
        BY <1>5, <3>1
      <3>3. f[j] \in Nat /\ f[k - 1] \in Nat /\ f[k] \in Nat
        BY <1>6, <3>1
      <3> QED
        BY <1>7, <3>2, <3>3
    <2> QED
      BY <2>2
  <1>8. ASSUME NEW i \in 1 .. Len(p), i >= at, at # 0,
               p[i].role \in {"assistant", "tool"}
        PROVE  i \in KeptBy(p)
    <2>1. p[at].role = "user"
      BY <1>1, <1>8, LastRealUserIs DEF RealUserTurn
    <2>2. i # at
      BY <1>8, <2>1
    <2> QED
      BY <1>1, <1>2, <1>8, <2>2 DEF KeptBy, IsCarrier
  <1>9. at # 0 => at \in 1 .. Len(p) /\ p[at].role = "user"
    BY <1>1, LastRealUserIs DEF RealUserTurn
  <1>10. ASSUME NEW k \in 1 .. Len(q), q[k].role = "tool"
         PROVE  k > 1 /\ f[k - 1] = f[k] - 1
    <2>1. f[k] # at
      BY <1>5, <1>6, <1>9, <1>10
    <2>2. f[k] > 1 /\ p[f[k] - 1].role \in {"assistant", "tool"}
      BY <1>5, <1>6, <1>10, ToolBefore
    <2>3. f[k] - 1 \in 1 .. Len(p) /\ f[k] - 1 >= at /\ at # 0
      BY <1>2, <1>6, <2>1, <2>2
    <2>4. f[k] - 1 \in KeptBy(p)
      BY <1>8, <2>2, <2>3
    <2>5. PICK j \in 1 .. Len(q) : f[j] = f[k] - 1
      BY <1>5, <2>4
    <2>6. j = k - 1
      BY <1>7, <2>5
    <2> QED
      BY <1>5, <2>5, <2>6
  <1>11. ASSUME NEW k \in 1 .. Len(q), f[k] < Len(p),
                p[f[k] + 1].role = "tool"
         PROVE  k < Len(q) /\ f[k + 1] = f[k] + 1
    <2>1. f[k] + 1 \in 1 .. Len(p) /\ f[k] + 1 >= at /\ at # 0
      BY <1>1, <1>2, <1>6, <1>11
    <2>2. f[k] + 1 \in KeptBy(p)
      BY <1>8, <1>11, <2>1
    <2>3. PICK j \in 1 .. Len(q) : f[j] = f[k] + 1
      BY <1>5, <2>2
    <2>4. f[k] = f[j] - 1
      BY <1>6, <2>3
    <2>5. k = j - 1
      BY <1>7, <2>4
    <2> QED
      BY <1>5, <2>3, <2>5
  <1>12. Embedded(q, p, f)
    <2>1. f \in [1 .. Len(q) -> 1 .. Len(p)]
      BY <1>2, <1>5
    <2> QED
      BY <1>5, <1>10, <1>11, <2>1 DEF Embedded
  <1>13. Accepted(q)
    BY <1>3, <1>12, EmbeddedAccepted
  <1> QED
    BY <1>3, <1>13 DEF q

\* What apply_full_replace leaves.
LEMMA FullReplaceIs ==
    ASSUME NEW p
    PROVE  FullReplace(p) = IF p = << >> THEN << >>
                            ELSE Append(Pick(p, KeptBy(p)), Carrier)
  BY DEF FullReplace, KeptBy

\* A full replacement of an accepted list is accepted.
LEMMA FullReplaceAccepted ==
    ASSUME NEW S, NEW p \in Seq(S), Accepted(p), Carrier \in S
    PROVE  FullReplace(p) \in Seq(S) /\ Accepted(FullReplace(p))
  <1>1. CASE p = << >>
    BY <1>1, FullReplaceIs
  <1>2. CASE p # << >>
    <2> DEFINE q == Pick(p, KeptBy(p))
    <2>1. FullReplace(p) = Append(q, Carrier)
      BY <1>2, FullReplaceIs
    <2>2. q \in Seq(S) /\ Accepted(q)
      BY KeptAccepted
    <2> HIDE DEF q
    <2> DEFINE c == <<Carrier>>
    <2>3. c \in Seq(S) /\ Accepted(c)
      <3>1. c \in Seq(S) /\ Len(c) = 1 /\ c[1] = Carrier
        OBVIOUS
      <3>2. Carrier.role = "user"
        BY DEF Carrier
      <3> HIDE DEF c
      <3>3. \A i \in 1 .. Len(c) : c[i].role = "user"
        BY <3>1, <3>2
      <3> QED
        BY <3>1, <3>3, PlainAccepted
    <2>4. Append(q, Carrier) = q \o c
      BY <2>2, AppendIsConcat
    <2> HIDE DEF c
    <2>5. q \o c \in Seq(S) /\ Accepted(q \o c)
      BY <2>2, <2>3, ConcatAccepted
    <2> QED
      BY <2>1, <2>4, <2>5
  <1> QED
    BY <1>1, <1>2

\* A native compaction of an accepted list is accepted.
LEMMA NativeReplaceAccepted ==
    ASSUME NEW S, NEW p \in Seq(S), Accepted(p), NativeBlock \in S,
           NativeCut(p)
    PROVE  NativeReplace(p) \in Seq(S) /\ Accepted(NativeReplace(p))
  <1>1. PICK at \in Nat : at = LastRealUser(p)
    BY LastRealUserIs
  <1>2. at \in 1 .. Len(p) /\ p[at].role # "tool"
    BY <1>1, LastRealUserIs DEF NativeCut, RealUserTurn
  <1> DEFINE q == SubSeq(p, at, Len(p))
             c == <<NativeBlock>>
  <1>3. q \in Seq(S) /\ Accepted(q)
    BY <1>2, SuffixAccepted
  <1>4. c \in Seq(S) /\ Accepted(c)
    <2>1. c \in Seq(S) /\ Len(c) = 1 /\ c[1] = NativeBlock
      OBVIOUS
    <2>2. NativeBlock.role = "assistant" /\ NativeBlock.ids = << >>
      BY DEF NativeBlock, Assistant
    <2> HIDE DEF c
    <2>3. \A i \in 1 .. Len(c) : /\ c[i].role # "tool"
                                 /\ c[i].ids = << >>
      BY <2>1, <2>2
    <2> QED
      BY <2>1, <2>3, PlainAccepted
  <1>5. NativeReplace(p) = c \o q
    BY <1>1 DEF NativeReplace
  <1> HIDE DEF c, q
  <1> QED
    BY <1>3, <1>4, <1>5, ConcatAccepted

\* Pick of the first positions is the beginning of the list.
LEMMA PickAll ==
    ASSUME NEW S, NEW s \in Seq(S), NEW r \in Seq(S), Len(r) <= Len(s),
           \A k \in 1 .. Len(r) : s[k] = r[k]
    PROVE  Pick(s, 1 .. Len(r)) = r
  <1>1. PICK n \in Nat : n = Len(r)
    OBVIOUS
  <1>2. Len(s) \in Nat /\ 1 .. n \subseteq 1 .. Len(s)
    BY <1>1
  <1> DEFINE p == Pick(s, 1 .. n)
  <1>3. /\ p \in Seq(S) /\ Len(p) = Cardinality(1 .. n)
        /\ \E f : Picked(s, 1 .. n, f, p)
    BY <1>2, PickIs
  <1> HIDE DEF p
  <1>4. Len(p) = n
    BY <1>3, FS_Interval
  <1>5. PICK f : Picked(s, 1 .. n, f, p)
    BY <1>3
  <1>6. /\ \A k \in 1 .. n : f[k] \in 1 .. n /\ p[k] = s[f[k]]
        /\ \A k, m \in 1 .. n : k < m => f[k] < f[m]
        /\ \A i \in 1 .. n : \E k \in 1 .. n : f[k] = i
    BY <1>4, <1>5 DEF Picked
  <1>7. \A k \in 1 .. n : f[k] = k
    <2> DEFINE U == {k \in 1 .. n : f[k] # k}
    <2> SUFFICES ASSUME U # {} PROVE FALSE
      OBVIOUS
    <2>1. U \subseteq Nat
      OBVIOUS
    <2>2. PICK k \in U : \A m \in U : k <= m
      <3> HIDE DEF U
      <3> QED
        BY <2>1, SmallestNat
    <2>3. k \in 1 .. n /\ f[k] # k /\ f[k] \in 1 .. n
      BY <1>6, <2>2
    <2>4. \A m \in 1 .. n : m < k => f[m] = m
      BY <2>2
    <2>5. ~(f[k] < k)
      <3> SUFFICES ASSUME f[k] < k PROVE FALSE
        OBVIOUS
      <3>1. PICK m \in 1 .. n : m = f[k]
        BY <2>3
      <3>2. f[m] = m /\ f[m] < f[k]
        BY <1>6, <2>3, <2>4, <3>1
      <3> QED
        BY <3>1, <3>2
    <2>6. PICK m \in 1 .. n : f[m] = k
      BY <1>6, <2>3
    <2>7. ~(m < k) /\ m # k
      BY <2>3, <2>4, <2>6
    <2>8. f[k] < f[m]
      <3>1. k < m
        BY <2>3, <2>7
      <3> QED
        BY <1>6, <2>3, <3>1
    <2> QED
      BY <2>3, <2>5, <2>6, <2>8
  <1>8. \A k \in 1 .. n : p[k] = r[k]
    BY SMTT(100), <1>1, <1>6, <1>7
  <1>9. p = r
    BY <1>1, <1>3, <1>4, <1>8, SeqEqual
  <1> QED
    BY <1>1, <1>9 DEF p

\* With a prompt in the list, what is kept begins with the last one if it has a
\* text; no other prompt and no carrier is kept.
LEMMA KeptIs ==
    ASSUME NEW S, NEW p \in Seq(S), LastRealUser(p) # 0
    PROVE  LET r == Pick(p, KeptBy(p))
               at == LastRealUser(p)
           IN  /\ r \in Seq(S)
               /\ \A k \in 1 .. Len(r) : ~IsCarrier(r[k])
               /\ \A k \in 1 .. Len(r) :
                    RealUserTurn(r[k]) => k = 1 /\ HasText(p[at])
               /\ HasText(p[at]) => /\ Len(r) \in Nat \ {0}
                                    /\ r[1] = p[at] /\ RealUserTurn(r[1])
  <1> DEFINE r == Pick(p, KeptBy(p))
  <1>1. PICK at \in Nat : at = LastRealUser(p)
    BY LastRealUserIs
  <1>2. /\ at \in 1 .. Len(p) /\ RealUserTurn(p[at]) /\ Len(p) \in Nat
        /\ \A i \in 1 .. Len(p) : RealUserTurn(p[i]) => i <= at
    BY <1>1, LastRealUserIs
  <1>3. KeptBy(p) = {i \in at .. Len(p) :
                       ~IsCarrier(p[i]) /\ (i = at => HasText(p[at]))}
    BY <1>1 DEF KeptBy
  <1>4. /\ KeptBy(p) \subseteq 1 .. Len(p)
        /\ at \in KeptBy(p) <=> HasText(p[at])
    BY <1>2, <1>3 DEF IsCarrier, RealUserTurn
  <1>5. r \in Seq(S) /\ \E f : Picked(p, KeptBy(p), f, r)
    BY <1>4, PickIs
  <1> HIDE DEF r
  <1>6. PICK f : Picked(p, KeptBy(p), f, r)
    BY <1>5
  <1>7. /\ Len(r) \in Nat
        /\ \A k \in 1 .. Len(r) : f[k] \in KeptBy(p) /\ r[k] = p[f[k]]
        /\ \A k, n \in 1 .. Len(r) : k < n => f[k] < f[n]
        /\ \A i \in KeptBy(p) : \E k \in 1 .. Len(r) : f[k] = i
    BY <1>5, <1>6 DEF Picked
  <1>8. \A k \in 1 .. Len(r) : f[k] \in at .. Len(p) /\ ~IsCarrier(r[k])
    BY <1>3, <1>7
  \* The position of the last prompt comes first.
  <1>9. ASSUME NEW k \in 1 .. Len(r), f[k] = at
        PROVE  k = 1
    <2> SUFFICES ASSUME k # 1 PROVE FALSE
      OBVIOUS
    <2>1. 1 \in 1 .. Len(r) /\ 1 < k
      BY <1>7
    <2>2. f[1] < at /\ f[1] \in at .. Len(p)
      BY <1>7, <1>8, <1>9, <2>1
    <2> QED
      BY <2>2
  <1>10. ASSUME NEW k \in 1 .. Len(r), RealUserTurn(r[k])
         PROVE  k = 1 /\ HasText(p[at])
    <2>1. f[k] \in at .. Len(p) /\ RealUserTurn(p[f[k]])
      BY <1>7, <1>8, <1>10
    <2>2. f[k] = at
      BY <1>2, <2>1
    <2> QED
      BY <1>4, <1>7, <1>9, <2>2
  <1>11. ASSUME HasText(p[at])
         PROVE  /\ Len(r) \in Nat \ {0}
                /\ r[1] = p[at] /\ RealUserTurn(r[1])
    <2>1. PICK j \in 1 .. Len(r) : f[j] = at
      BY <1>4, <1>7, <1>11
    <2>2. j = 1
      BY <1>9, <2>1
    <2> QED
      BY <1>2, <1>7, <2>1, <2>2
  <1> QED
    BY <1>1, <1>5, <1>8, <1>10, <1>11 DEF r

\* A second full replacement changes nothing when the last prompt has a text or
\* there is none; otherwise it leaves the carrier only.
LEMMA FullReplaceSettles ==
    ASSUME NEW S, NEW p \in Seq(S)
    PROVE  LET at == LastRealUser(p)
               once == FullReplace(p)
               twice == FullReplace(once)
           IN  /\ at = 0 => twice = once
               /\ at # 0 /\ HasText(p[at]) => once[1] = p[at] /\ twice = once
               /\ at # 0 /\ ~HasText(p[at]) => twice = <<Carrier>>
  <1>1. PICK at \in Nat : at = LastRealUser(p)
    BY LastRealUserIs
  <1>2. CASE p = << >>
    <2>1. at = 0
      <3>1. at \in 0 .. Len(p) /\ Len(p) = 0
        BY <1>1, <1>2, LastRealUserIs
      <3> QED
        BY <3>1
    <2> QED
      BY <1>1, <1>2, <2>1, FullReplaceIs
  <1>3. CASE p # << >>
    <2> DEFINE r == Pick(p, KeptBy(p))
               q == Append(r, Carrier)
               T == S \cup {Carrier}
    <2>1. FullReplace(p) = q
      BY <1>3, FullReplaceIs
    <2>2. p \in Seq(T)
      OBVIOUS
    <2>3. r \in Seq(T)
      <3>1. KeptBy(p) \subseteq 1 .. Len(p)
        BY LastRealUserIs DEF KeptBy
      <3> QED
        BY <2>2, <3>1, PickIs
    <2>4. /\ \A k \in 1 .. Len(r) : ~IsCarrier(r[k])
          /\ \A k \in 1 .. Len(r) :
               RealUserTurn(r[k]) => k = 1 /\ at # 0 /\ HasText(p[at])
          /\ at = 0 => Len(r) = 0
          /\ at # 0 /\ HasText(p[at]) => /\ Len(r) \in Nat \ {0}
                                         /\ RealUserTurn(r[1])
                                         /\ r[1] = p[at]
      <3>1. CASE at = 0
        <4>1. KeptBy(p) = {}
          BY <1>1, <3>1 DEF KeptBy
        <4>2. Len(r) = 0
          BY <4>1, PickIs, FS_EmptySet
        <4> QED
          BY <3>1, <4>2
      <3>2. CASE at # 0
        BY <1>1, <3>2, KeptIs
      <3> QED
        BY <3>1, <3>2
    <2> HIDE DEF r
    <2>5. /\ q \in Seq(T) /\ Len(q) = Len(r) + 1 /\ Len(r) \in Nat
          /\ q[Len(r) + 1] = Carrier
          /\ \A k \in 1 .. Len(r) : q[k] = r[k]
      BY <2>3
    <2>6. q # << >>
      BY <2>5
    <2>7. q = Append(r, Carrier)
      OBVIOUS
    <2> HIDE DEF q
    <2>8. IsCarrier(Carrier) /\ ~RealUserTurn(Carrier)
      BY DEF IsCarrier, RealUserTurn, Carrier
    <2>9. /\ LastRealUser(q) \in 0 .. Len(q)
          /\ LastRealUser(q) # 0 => RealUserTurn(q[LastRealUser(q)])
          /\ \A i \in 1 .. Len(q) : RealUserTurn(q[i]) => i <= LastRealUser(q)
      BY <2>5, LastRealUserIs
    \* No prompt is kept: the second pass keeps nothing.
    <2>10. ASSUME ~(at # 0 /\ HasText(p[at]))
           PROVE  FullReplace(q) = <<Carrier>>
      <3>1. \A i \in 1 .. Len(q) : ~RealUserTurn(q[i])
        <4>1. ASSUME NEW i \in 1 .. Len(q) PROVE ~RealUserTurn(q[i])
          <5>1. i \in 1 .. Len(r) \/ i = Len(r) + 1
            BY <2>5
          <5> QED
            BY <2>4, <2>5, <2>8, <2>10, <5>1
        <4> QED
          BY <4>1
      <3>2. LastRealUser(q) = 0
        BY <2>5, <2>9, <3>1
      <3>3. KeptBy(q) = {}
        BY <3>2 DEF KeptBy
      <3>4. Pick(q, KeptBy(q)) = << >>
        BY <2>5, <3>3, PickIs, FS_EmptySet
      <3> QED
        BY <2>6, <3>4, FullReplaceIs
    \* The last prompt is kept, in front: the second pass keeps the same.
    <2>11. ASSUME at # 0, HasText(p[at])
           PROVE  FullReplace(q) = q /\ q[1] = p[at]
      <3>1. RealUserTurn(q[1]) /\ 1 \in 1 .. Len(q) /\ q[1] = p[at]
        BY <2>4, <2>5, <2>11
      <3>2. LastRealUser(q) # 0
        BY <2>9, <3>1
      <3>3. LastRealUser(q) # Len(r) + 1
        BY <2>5, <2>8, <2>9, <3>2
      <3>4. LastRealUser(q) \in 1 .. Len(r)
        BY <2>5, <2>9, <3>2, <3>3
      <3>5. LastRealUser(q) = 1
        BY <2>4, <2>5, <2>9, <3>2, <3>4
      <3>6. \A i \in 1 .. Len(q) : IsCarrier(q[i]) <=> i = Len(r) + 1
        BY <2>4, <2>5, <2>8
      <3>7. KeptBy(q) = 1 .. Len(r)
        BY <2>5, <2>11, <3>1, <3>5, <3>6 DEF KeptBy
      <3>8. Pick(q, KeptBy(q)) = r
        BY <2>3, <2>5, <3>7, PickAll
      <3> QED
        BY <2>6, <2>7, <3>1, <3>8, FullReplaceIs
    <2>12. at = 0 => q = <<Carrier>>
      <3>1. at = 0 => r = << >>
        BY <2>3, <2>4
      <3> QED
        BY <2>7, <3>1
    <2> QED
      BY <1>1, <2>1, <2>10, <2>11, <2>12
  <1> QED
    BY <1>2, <1>3

-----------------------------------------------------------------------------
(***************************************************************************)
(* The repair of a request.                                                *)
(***************************************************************************)

\* What holds of 0, and of a number whenever of the one before, holds of all.
LEMMA CountUp ==
    ASSUME NEW U, NEW n \in Nat, 0 \in U,
           \A k \in 0 .. n : k < n /\ k \in U => k + 1 \in U
    PROVE  \A k \in 0 .. n : k \in U
  <1> DEFINE V == {k \in 0 .. n : k \notin U}
  <1> SUFFICES ASSUME V # {} PROVE FALSE
    OBVIOUS
  <1>1. V \subseteq Nat
    OBVIOUS
  <1>2. PICK v \in V : \A k \in V : v <= k
    <2> HIDE DEF V
    <2> QED
      BY <1>1, SmallestNat
  <1>3. v \in 0 .. n /\ v \notin U /\ v # 0
    BY <1>2
  <1>4. v - 1 \in 0 .. n /\ v - 1 < n /\ (v - 1) + 1 = v /\ v - 1 < v
    BY <1>3
  <1>5. v - 1 \in U
    BY <1>2, <1>3, <1>4
  <1> QED
    BY <1>3, <1>4, <1>5

\* The walk before its first message.
Start == [out |-> << >>, open |-> << >>, lenient |-> FALSE]

\* The walk is made of its steps.
LEMMA WalkIs ==
    ASSUME NEW S, NEW msgs \in Seq(S)
    PROVE  /\ Walk(msgs)[0] = Start
           /\ \A n \in 1 .. Len(msgs) :
                Walk(msgs)[n] = PairStep(Walk(msgs)[n - 1], msgs[n])
  <1> DEFINE Def(g, i) == IF i = 0 THEN Start ELSE PairStep(g[i - 1], msgs[i])
             U == {n \in Nat : \E g : g = [i \in 0 .. n |-> Def(g, i)]}
  <1>1. PICK l \in Nat : l = Len(msgs)
    OBVIOUS
  <1>2. 0 \in U
    <2> DEFINE g == [i \in 0 .. 0 |-> Start]
    <2>1. g = [i \in 0 .. 0 |-> Def(g, i)]
      <3>1. \A i \in 0 .. 0 : Def(g, i) = Start
        OBVIOUS
      <3> QED
        BY <3>1
    <2> QED
      BY <2>1
  <1>3. ASSUME NEW k \in 0 .. l, k < l, k \in U
        PROVE  k + 1 \in U
    <2>1. PICK g : g = [i \in 0 .. k |-> Def(g, i)]
      BY <1>3
    <2> DEFINE h == [i \in 0 .. k + 1 |-> IF i = k + 1
                                          THEN PairStep(g[k], msgs[k + 1])
                                          ELSE g[i]]
    <2>2. ASSUME NEW i \in 0 .. k + 1
          PROVE  h[i] = Def(h, i)
      <3>1. CASE i = 0
        BY <2>1, <3>1
      <3>2. CASE i \in 1 .. k
        <4>1. i - 1 \in 0 .. k + 1 /\ i - 1 # k + 1 /\ i # k + 1 /\ i \in 0 .. k
          BY <3>2
        <4>2. h[i - 1] = g[i - 1] /\ h[i] = g[i]
          BY <4>1
        <4>3. g[i] = PairStep(g[i - 1], msgs[i])
          BY <2>1, <3>2, <4>1
        <4> QED
          BY <3>2, <4>2, <4>3
      <3>3. CASE i = k + 1
        <4>1. (k + 1) - 1 = k /\ k \in 0 .. k + 1 /\ k # k + 1 /\ k + 1 # 0
          OBVIOUS
        <4>2. h[k] = g[k] /\ h[k + 1] = PairStep(g[k], msgs[k + 1])
          BY <4>1
        <4> QED
          BY <3>3, <4>1, <4>2
      <3> QED
        BY <3>1, <3>2, <3>3
    <2>3. h = [i \in 0 .. k + 1 |-> h[i]]
      OBVIOUS
    <2> HIDE DEF h, Def
    <2>4. h = [i \in 0 .. k + 1 |-> Def(h, i)]
      BY <2>2, <2>3
    <2>5. k + 1 \in Nat
      OBVIOUS
    <2> QED
      BY <2>4, <2>5
  <1>4. l \in U
    <2> HIDE DEF U
    <2>1. \A k \in 0 .. l : k \in U
      BY <1>2, <1>3, CountUp
    <2> QED
      BY <2>1
  <1>5. PICK g : g = [i \in 0 .. l |-> Def(g, i)]
    BY <1>4
  <1> DEFINE w == CHOOSE f : f = [i \in 0 .. l |-> Def(f, i)]
  <1>6. w = [i \in 0 .. l |-> Def(w, i)]
    BY <1>5
  <1>7. Walk(msgs) = w
    BY <1>1 DEF Walk, Start
  <1> HIDE DEF w
  <1>8. \A i \in 0 .. l : w[i] = Def(w, i)
    BY <1>6
  <1> QED
    BY <1>1, <1>7, <1>8

\* No id twice.
Distinct(ids) == \A i, j \in 1 .. Len(ids) : ids[i] = ids[j] => i = j

\* The ids but one.
LEMMA OthersIs ==
    ASSUME NEW I, NEW ids \in Seq(I), NEW id
    PROVE  /\ Others(ids, id) \in Seq(I \ {id})
           /\ ToSet(Others(ids, id)) = ToSet(ids) \ {id}
           /\ Distinct(ids) => Distinct(Others(ids, id))
  <1> DEFINE at == {i \in 1 .. Len(ids) : ids[i] # id}
             q == Pick(ids, at)
  <1>1. at \subseteq 1 .. Len(ids) /\ Others(ids, id) = q
    BY DEF Others
  <1> HIDE DEF at
  <1>2. q \in Seq(I) /\ \E f : Picked(ids, at, f, q)
    BY <1>1, PickIs
  <1> HIDE DEF q
  <1>3. PICK f : Picked(ids, at, f, q)
    BY <1>2
  <1>4. PICK n \in Nat : n = Len(q) /\ q \in [1 .. n -> I]
    BY <1>2
  <1>5. /\ \A k \in 1 .. n : f[k] \in at /\ q[k] = ids[f[k]]
        /\ \A k, m \in 1 .. n : k < m => f[k] < f[m]
        /\ \A i \in at : \E k \in 1 .. n : f[k] = i
    BY <1>3, <1>4 DEF Picked
  <1>6. \A i \in at : i \in 1 .. Len(ids) /\ i \in Nat /\ ids[i] # id
    BY DEF at
  <1>7. \A k \in 1 .. n : q[k] # id /\ q[k] \in I /\ q[k] \in ToSet(ids)
    BY <1>4, <1>5, <1>6 DEF ToSet
  <1>8. q \in Seq(I \ {id})
    <2>1. q \in [1 .. n -> I \ {id}]
      BY <1>4, <1>7
    <2> QED
      BY <2>1
  <1>9. ToSet(q) = ToSet(ids) \ {id}
    <2>1. ASSUME NEW x \in ToSet(ids) \ {id} PROVE x \in ToSet(q)
      <3>1. PICK i \in 1 .. Len(ids) : ids[i] = x
        BY DEF ToSet
      <3>2. i \in at
        BY <3>1 DEF at
      <3>3. PICK k \in 1 .. n : f[k] = i
        BY <1>5, <3>2
      <3> QED
        BY <1>4, <1>5, <3>1, <3>3 DEF ToSet
    <2>2. ASSUME NEW x \in ToSet(q) PROVE x \in ToSet(ids) \ {id}
      <3>1. PICK k \in 1 .. n : q[k] = x
        BY <1>4 DEF ToSet
      <3> QED
        BY <1>7, <3>1
    <2> QED
      BY <2>1, <2>2
  <1>10. ASSUME Distinct(ids) PROVE Distinct(q)
    <2> SUFFICES ASSUME NEW k \in 1 .. n, NEW m \in 1 .. n, q[k] = q[m]
                 PROVE  k = m
      BY <1>4 DEF Distinct
    <2>1. /\ f[k] \in 1 .. Len(ids) /\ f[m] \in 1 .. Len(ids)
          /\ f[k] \in Nat /\ ids[f[k]] = ids[f[m]]
      BY <1>5, <1>6
    <2>2. f[k] = f[m]
      BY <1>10, <2>1, Zenon DEF Distinct
    <2>3. ~(k < m) /\ ~(m < k)
      BY <1>5, <2>1, <2>2
    <2> QED
      BY <2>3
  <1> QED
    BY <1>1, <1>8, <1>9, <1>10

\* The messages the walk reads and writes, with ids of `I`: the calls of one
\* message have different ids.
Sound(M, I) ==
    /\ \A m \in M : /\ m.role \in {"user", "assistant", "tool"}
                    /\ m.role = "tool" => m.id \in I
                    /\ m.role = "assistant" => m.ids \in Seq(I) /\ Distinct(m.ids)
    /\ \A id \in I \ {NoId} : Result(id, "missing") \in M

\* The end of the walk's output: nothing, a user's message, or a message with
\* calls and those of their results that were read; `open` are the others.
Partial(b, open, lenient) ==
    \/ Len(b) = 0 /\ open = << >> /\ ~lenient
    \/ Len(b) = 1 /\ b[1].role = "user" /\ open = << >> /\ ~lenient
    \/ /\ Len(b) > 0 /\ b[1].role = "assistant"
       /\ \A k \in 2 .. Len(b) : b[k].role = "tool"
       /\ lenient = (NoId \in ToSet(b[1].ids))
       /\ Distinct(open)
       /\ ToSet(open) = (ToSet(b[1].ids) \ {NoId})
                          \ {b[k].id : k \in 2 .. Len(b)}
       /\ ~lenient => /\ \A k \in 2 .. Len(b) : b[k].id \in ToSet(b[1].ids)
                      /\ \A k, n \in 2 .. Len(b) : b[k].id = b[n].id => k = n

\* The answers for the calls still open.
Missing(open) == [i \in 1 .. Len(open) |-> Result(open[i], "missing")]

\* With them the end of the output is accepted.
LEMMA CloseAccepted ==
    ASSUME NEW M, NEW I, Sound(M, I), NEW b \in Seq(M),
           NEW open \in Seq(I \ {NoId}), NEW lenient \in BOOLEAN,
           Partial(b, open, lenient)
    PROVE  Missing(open) \in Seq(M) /\ Accepted(b \o Missing(open))
  <1> DEFINE c == Missing(open)
             p == b \o c
  <1>1. PICK n \in Nat, u \in Nat : n = Len(b) /\ u = Len(open)
    OBVIOUS
  <1>2. \A i \in 1 .. u : open[i] \in I \ {NoId}
    BY <1>1
  <1>3. /\ c \in Seq(M) /\ Len(c) = u
        /\ \A i \in 1 .. u : c[i].role = "tool" /\ c[i].id = open[i]
    <2>1. c = [i \in 1 .. u |-> Result(open[i], "missing")]
      BY <1>1 DEF Missing
    <2>2. \A i \in 1 .. u : c[i] = Result(open[i], "missing") /\ c[i] \in M
      BY <1>2, <2>1 DEF Sound
    <2>3. c \in [1 .. u -> M]
      BY <2>1, <2>2
    <2>4. \A i \in 1 .. u : c[i].role = "tool" /\ c[i].id = open[i]
      <3>1. \A x : Result(x, "missing").role = "tool"
                   /\ Result(x, "missing").id = x
        BY DEF Result
      <3> HIDE DEF c
      <3> QED
        BY <2>2, <3>1
    <2> QED
      BY <1>1, <2>3, <2>4
  <1> HIDE DEF c
  <1>4. /\ p \in Seq(M) /\ Len(p) = n + u
        /\ \A k \in 1 .. n : p[k] = b[k]
        /\ \A i \in 1 .. u : p[n + i] = c[i]
    <2>1. PICK d \in Seq(M) : d = c /\ Len(d) = u
      BY <1>3
    <2>2. /\ b \o d \in Seq(M) /\ Len(b \o d) = n + u
          /\ \A k \in 1 .. n + u : (b \o d)[k] = IF k <= n THEN b[k] ELSE d[k - n]
      <3>1. /\ b \o d \in Seq(M) /\ Len(b \o d) = Len(b) + Len(d)
            /\ \A k \in 1 .. Len(b) + Len(d) :
                 (b \o d)[k] = IF k <= Len(b) THEN b[k] ELSE d[k - Len(b)]
        BY <2>1, ConcatProperties, Zenon
      <3> QED
        BY <1>1, <2>1, <3>1
    <2>3. b \o d = p
      BY <2>1
    <2> HIDE DEF p
    <2>4. \A k \in 1 .. n : k \in 1 .. n + u /\ k <= n
      OBVIOUS
    <2>5. \A i \in 1 .. u : n + i \in 1 .. n + u /\ ~(n + i <= n) /\ (n + i) - n = i
      OBVIOUS
    <2> QED
      BY <2>1, <2>2, <2>4, <2>5, <2>3
  <1> HIDE DEF p
  <1>5. CASE \/ Len(b) = 0 /\ open = << >>
             \/ Len(b) = 1 /\ b[1].role = "user" /\ open = << >>
    <2>1. u = 0 /\ n \in {0, 1} /\ (n = 1 => b[1].role = "user")
      BY <1>1, <1>5
    <2>2. \A k \in 1 .. Len(p) : p[k].role = "user"
      BY <1>4, <2>1
    <2>3. Accepted(p)
      BY <1>4, <2>2, PlainAccepted
    <2> QED
      BY <1>3, <2>3 DEF c, p
  <1>6. CASE /\ n > 0 /\ b[1].role = "assistant"
             /\ \A k \in 2 .. n : b[k].role = "tool"
             /\ lenient = (NoId \in ToSet(b[1].ids))
             /\ Distinct(open)
             /\ ToSet(open) = (ToSet(b[1].ids) \ {NoId})
                                \ {b[k].id : k \in 2 .. n}
             /\ ~lenient =>
                  /\ \A k \in 2 .. n : b[k].id \in ToSet(b[1].ids)
                  /\ \A k, m \in 2 .. n : b[k].id = b[m].id => k = m
    <2>1. \A k \in 1 .. n + u : k <= n \/ \E i \in 1 .. u : k = n + i
      <3> SUFFICES ASSUME NEW k \in 1 .. n + u, ~(k <= n)
                   PROVE  \E i \in 1 .. u : k = n + i
        OBVIOUS
      <3>1. k - n \in 1 .. u /\ k = n + (k - n)
        OBVIOUS
      <3> QED
        BY <3>1
    <2>2. ToSet(open) = {open[i] : i \in 1 .. u}
      BY <1>1 DEF ToSet
    <2>3. p[1] = b[1] /\ 1 \in 1 .. n + u
      BY <1>4, <1>6
    <2>4. \A k \in 2 .. n + u : p[k].role = "tool"
      <3> SUFFICES ASSUME NEW k \in 2 .. n + u PROVE p[k].role = "tool"
        OBVIOUS
      <3>1. CASE k <= n
        BY <1>4, <1>6, <3>1
      <3>2. ASSUME NEW i \in 1 .. u, k = n + i PROVE p[k].role = "tool"
        BY <1>3, <1>4, <3>2
      <3>3. k \in 1 .. n + u
        OBVIOUS
      <3> QED
        BY <2>1, <3>1, <3>2, <3>3
    <2>5. \A k \in 1 .. n + u : Follows(p, 1, k) <=> k \in 2 .. n + u
      BY <1>6, <2>3, <2>4 DEF Follows
    <2>6. ASSUME NEW i \in 1 .. n + u, p[i].role = "assistant"
          PROVE  CallsAnswered(p, i)
      <3>1. i = 1
        BY <2>4, <2>6
      <3>2. ASSUME NEW id \in ToSet(b[1].ids) \ {NoId}
            PROVE  \E k \in 1 .. n + u : Follows(p, 1, k) /\ p[k].id = id
        <4>1. CASE id \in {b[k].id : k \in 2 .. n}
          <5>1. PICK k \in 2 .. n : b[k].id = id
            BY <4>1
          <5>2. k \in 1 .. n + u /\ k \in 2 .. n + u /\ k \in 1 .. n
            OBVIOUS
          <5> QED
            BY <1>4, <2>5, <5>1, <5>2
        <4>2. CASE id \notin {b[k].id : k \in 2 .. n}
          <5>1. id \in ToSet(open)
            BY <1>6, <4>2
          <5>2. PICK j \in 1 .. u : open[j] = id
            BY <2>2, <5>1
          <5>3. n + j \in 1 .. n + u /\ n + j \in 2 .. n + u
            BY <1>6
          <5> QED
            BY <1>3, <1>4, <2>5, <5>2, <5>3
        <4> QED
          BY <4>1, <4>2
      <3> QED
        BY <1>4, <2>3, <3>1, <3>2 DEF CallsAnswered
    <2>7. ASSUME NEW k \in 1 .. n + u, p[k].role = "tool"
          PROVE  \E i \in 1 .. n + u : OwnResult(p, i, k)
      <3>1. k \in 2 .. n + u
        BY <1>6, <2>3, <2>7
      <3>2. CASE NoId \in ToSet(b[1].ids)
        BY <2>3, <2>5, <3>1, <3>2 DEF OwnResult
      <3>3. CASE NoId \notin ToSet(b[1].ids)
        <4>1. ~lenient
          BY <1>6, <3>3
        <4>2. ASSUME NEW h \in 2 .. n + u
              PROVE  /\ p[h].id \in ToSet(b[1].ids)
                     /\ \/ h \in 2 .. n /\ p[h] = b[h]
                        \/ \E i \in 1 .. u : h = n + i /\ p[h].id = open[i]
          <5>1. CASE h <= n
            <6>1. h \in 2 .. n /\ h \in 1 .. n
              BY <5>1
            <6> QED
              BY <1>4, <1>6, <4>1, <6>1
          <5>2. ASSUME NEW i \in 1 .. u, h = n + i
                PROVE  p[h].id = open[i] /\ p[h].id \in ToSet(b[1].ids)
            <6>1. p[h].id = open[i]
              BY <1>3, <1>4, <5>2
            <6>2. open[i] \in ToSet(open)
              BY <2>2
            <6> QED
              BY <1>6, <6>1, <6>2
          <5>3. h \in 1 .. n + u
            OBVIOUS
          <5>4. CASE ~(h <= n)
            BY <2>1, <5>2, <5>3, <5>4
          <5> QED
            BY <5>1, <5>4, <1>4, <5>3
        <4>3. ASSUME NEW h \in 2 .. n + u, p[h].id = p[k].id
              PROVE  h = k
          <5>1. ASSUME NEW j \in 2 .. n, NEW i \in 1 .. u
                PROVE  b[j].id # open[i]
            <6>1. open[i] \in ToSet(open)
              BY <2>2
            <6> QED
              BY <1>6, <6>1
          <5>2. \A i, j \in 1 .. u : open[i] = open[j] => i = j
            BY <1>1, <1>6 DEF Distinct
          <5> QED
            BY <1>6, <3>1, <4>1, <4>2, <4>3, <5>1, <5>2
        <4>4. OwnResult(p, 1, k)
          BY <1>4, <2>3, <2>5, <3>1, <4>2, <4>3 DEF OwnResult
        <4> QED
          BY <2>3, <4>4
      <3> QED
        BY <3>2, <3>3
    <2>8. Accepted(p)
      BY <1>4, <2>6, <2>7, AcceptedIs
    <2> QED
      BY <1>3, <2>8 DEF c, p
  <1> QED
    BY <1>1, <1>5, <1>6 DEF Partial

\* The output of the walk is accepted but for the calls that are open.
States(M, I) == [out : Seq(M), open : Seq(I \ {NoId}), lenient : BOOLEAN]

WalkInv(s, M, I) ==
    /\ s \in States(M, I)
    /\ \E a, b \in Seq(M) : /\ s.out = a \o b /\ Accepted(a)
                            /\ Partial(b, s.open, s.lenient)

\* close_open leaves an accepted output and no open calls.
LEMMA CloseIs ==
    ASSUME NEW M, NEW I, Sound(M, I), NEW s, WalkInv(s, M, I)
    PROVE  /\ CloseOpen(s) \in States(M, I)
           /\ Accepted(CloseOpen(s).out)
           /\ CloseOpen(s).open = << >> /\ CloseOpen(s).lenient = s.lenient
  <1>1. PICK out \in Seq(M), open \in Seq(I \ {NoId}), lenient \in BOOLEAN :
          s = [out |-> out, open |-> open, lenient |-> lenient]
    BY DEF WalkInv, States
  <1>2. PICK a \in Seq(M), b \in Seq(M) :
          out = a \o b /\ Accepted(a) /\ Partial(b, open, lenient)
    BY <1>1 DEF WalkInv
  <1>3. PICK c \in Seq(M) : c = Missing(open) /\ Accepted(b \o c)
    BY <1>2, CloseAccepted
  <1>4. b \o c \in Seq(M) /\ out \o c \in Seq(M) /\ out \o c = a \o (b \o c)
    BY SMTT(30), <1>2, <1>3, ConcatProperties, Concat3
  <1>5. Accepted(out \o c)
    BY <1>2, <1>3, <1>4, ConcatAccepted
  <1>6. CloseOpen(s) = [out |-> out \o c, open |-> << >>, lenient |-> lenient]
    <2>1. s.out = out /\ s.open = open /\ s.lenient = lenient
      BY <1>1
    <2>2. CloseOpen(s) = [s EXCEPT !.out = s.out \o Missing(s.open),
                                   !.open = << >>]
      BY DEF CloseOpen, Missing
    <2>3. CloseOpen(s) = [s EXCEPT !.out = out \o c, !.open = << >>]
      BY <1>3, <2>1, <2>2
    <2> QED
      BY <1>1, <2>3
  <1>7. << >> \in Seq(I \ {NoId})
    OBVIOUS
  <1>8. PICK q : q = out \o c /\ q \in Seq(M) /\ Accepted(q)
    BY <1>4, <1>5
  <1>9. CloseOpen(s) = [out |-> q, open |-> << >>, lenient |-> lenient]
        /\ s.lenient = lenient
    BY <1>1, <1>6, <1>8
  <1>10. CloseOpen(s) \in States(M, I)
    BY <1>7, <1>8, <1>9 DEF States
  <1>11. CloseOpen(s).out = q /\ CloseOpen(s).open = << >>
         /\ CloseOpen(s).lenient = s.lenient
    BY <1>9
  <1> QED
    BY <1>8, <1>10, <1>11

\* Every message keeps it.
LEMMA PairStepInv ==
    ASSUME NEW M, NEW I, Sound(M, I), NEW s, WalkInv(s, M, I), NEW m \in M
    PROVE  WalkInv(PairStep(s, m), M, I)
  <1>1. PICK out \in Seq(M), open \in Seq(I \ {NoId}), lenient \in BOOLEAN :
          s = [out |-> out, open |-> open, lenient |-> lenient]
    BY DEF WalkInv, States
  <1>2. PICK a \in Seq(M), b \in Seq(M) :
          out = a \o b /\ Accepted(a) /\ Partial(b, open, lenient)
    BY <1>1 DEF WalkInv
  <1>3. PICK d \in Seq(M) :
          /\ CloseOpen(s) = [out |-> d, open |-> << >>, lenient |-> lenient]
          /\ Accepted(d)
    <2>1. /\ CloseOpen(s) \in States(M, I) /\ Accepted(CloseOpen(s).out)
          /\ CloseOpen(s).open = << >> /\ CloseOpen(s).lenient = lenient
      BY <1>1, CloseIs
    <2> QED
      BY <2>1 DEF States
  <1>4. <<m>> \in Seq(M) /\ Append(d, m) = d \o <<m>> /\ d \o <<m>> \in Seq(M)
        /\ Len(<<m>>) = 1 /\ <<m>>[1] = m
    BY AppendIsConcat, ConcatProperties
  <1>5. CASE m.role = "user"
    <2>1. PairStep(s, m) = [out |-> d \o <<m>>, open |-> << >>, lenient |-> FALSE]
      <3>1. PICK c : c = CloseOpen(s)
        OBVIOUS
      <3>2. PairStep(s, m) = [c EXCEPT !.out = Append(@, m), !.lenient = FALSE]
        BY <1>5, <3>1 DEF PairStep
      <3>3. c = [out |-> d, open |-> << >>, lenient |-> lenient]
            /\ c.out = d
        BY <1>3, <3>1
      <3>4. PICK e : e = d \o <<m>> /\ e = Append(c.out, m)
        BY <1>4, <3>3
      <3>5. PairStep(s, m) = [c EXCEPT !.out = e, !.lenient = FALSE]
        BY <3>2, <3>4
      <3>6. PairStep(s, m) = [out |-> e, open |-> << >>, lenient |-> FALSE]
        BY <3>3, <3>5
      <3> QED
        BY <3>4, <3>6
    <2>2. Partial(<<m>>, << >>, FALSE)
      BY <1>4, <1>5 DEF Partial
    <2>3. PairStep(s, m) \in States(M, I)
      BY <1>4, <2>1 DEF States
    <2>4. /\ PairStep(s, m).out = d \o <<m>>
          /\ PairStep(s, m).open = << >> /\ PairStep(s, m).lenient = FALSE
      BY <2>1
    <2> QED
      BY <1>3, <1>4, <2>2, <2>3, <2>4 DEF WalkInv
  <1>6. CASE m.role = "assistant"
    <2>1. m.ids \in Seq(I) /\ Distinct(m.ids)
      BY <1>6 DEF Sound
    <2>2. PICK o \in Seq(I \ {NoId}) :
            /\ o = Others(m.ids, NoId)
            /\ ToSet(o) = ToSet(m.ids) \ {NoId} /\ Distinct(o)
      BY <2>1, OthersIs
    <2>3. PICK un : un = (NoId \in ToSet(m.ids))
      OBVIOUS
    <2>4. un \in BOOLEAN
      BY <2>3
    <2>5. PairStep(s, m) = [out |-> d \o <<m>>, open |-> o, lenient |-> un]
      <3>1. PICK c : c = CloseOpen(s)
        OBVIOUS
      <3>2. PairStep(s, m) = [c EXCEPT !.out = Append(@, m), !.open = o,
                                       !.lenient = un]
        BY <1>6, <2>2, <2>3, <3>1 DEF PairStep
      <3>3. c = [out |-> d, open |-> << >>, lenient |-> lenient]
            /\ c.out = d
        BY <1>3, <3>1
      <3>4. PICK e : e = d \o <<m>> /\ e = Append(c.out, m)
        BY <1>4, <3>3
      <3>5. PairStep(s, m) = [c EXCEPT !.out = e, !.open = o, !.lenient = un]
        BY <3>2, <3>4
      <3>6. PairStep(s, m) = [out |-> e, open |-> o, lenient |-> un]
        BY <3>3, <3>5
      <3> QED
        BY <3>4, <3>6
    <2>6. Partial(<<m>>, o, un)
      <3>1. 2 .. 1 = {}
        OBVIOUS
      <3> QED
        BY <1>4, <1>6, <2>2, <2>3, <3>1 DEF Partial
    <2>7. PairStep(s, m) \in States(M, I)
      BY <1>4, <2>2, <2>5, <2>4 DEF States
    <2>8. /\ PairStep(s, m).out = d \o <<m>>
          /\ PairStep(s, m).open = o /\ PairStep(s, m).lenient = un
      BY <2>5
    <2> QED
      BY <1>3, <1>4, <2>6, <2>7, <2>8 DEF WalkInv
  <1>7. CASE m.role = "tool"
    <2>1. PICK o \in Seq(I \ {NoId}) :
            /\ o = Others(open, m.id)
            /\ ToSet(o) = ToSet(open) \ {m.id}
            /\ Distinct(open) => Distinct(o)
      <3>1. \A x \in Seq((I \ {NoId}) \ {m.id}) : x \in Seq(I \ {NoId})
        OBVIOUS
      <3> QED
        BY <3>1, OthersIs
    <2>2. CASE m.id \in ToSet(open) \/ lenient
      <3>1. PairStep(s, m) = [out |-> Append(out, m), open |-> o,
                              lenient |-> lenient]
        BY <1>1, <1>7, <2>1, <2>2 DEF PairStep
      <3>2. PICK n \in Nat, e \in Seq(M) :
              /\ n = Len(b) /\ e = Append(b, m) /\ Len(e) = n + 1
              /\ e[n + 1] = m /\ \A k \in 1 .. n : e[k] = b[k]
        <4>1. PICK n \in Nat : n = Len(b)
          OBVIOUS
        <4>2. PICK e \in Seq(M) : e = Append(b, m)
          BY AppendProperties
        <4>3. /\ Len(e) = n + 1 /\ e[n + 1] = m
              /\ \A k \in 1 .. n : e[k] = b[k]
          BY <4>1, <4>2, AppendProperties
        <4> QED
          BY <4>1, <4>2, <4>3
      <3>3. Append(out, m) = a \o e /\ Append(out, m) \in Seq(M)
        <4>1. Append(a \o b, m) = a \o Append(b, m) /\ Append(a \o b, m) \in Seq(M)
          BY ConcatAppend
        <4>2. out = a \o b /\ e = Append(b, m)
          BY <1>2, <3>2
        <4> QED
          BY <4>1, <4>2
      <3>4. ToSet(<< >>) = {}
        BY DEF ToSet
      <3>5. /\ n > 0 /\ b[1].role = "assistant"
            /\ \A k \in 2 .. n : b[k].role = "tool"
            /\ lenient = (NoId \in ToSet(b[1].ids))
            /\ Distinct(open)
            /\ ToSet(open) = (ToSet(b[1].ids) \ {NoId})
                               \ {b[k].id : k \in 2 .. n}
            /\ ~lenient =>
                 /\ \A k \in 2 .. n : b[k].id \in ToSet(b[1].ids)
                 /\ \A k, h \in 2 .. n : b[k].id = b[h].id => k = h
        BY <1>2, <2>2, <3>2, <3>4 DEF Partial
      <3>6. e[1] = b[1] /\ \A k \in 2 .. n : e[k] = b[k]
        BY <3>2, <3>5
      <3>7. \A k \in 2 .. n + 1 : k \in 2 .. n \/ k = n + 1
        OBVIOUS
      <3>8. {e[k].id : k \in 2 .. n + 1} = {b[k].id : k \in 2 .. n} \cup {m.id}
        <4>1. \A k \in 2 .. n : k \in 2 .. n + 1
          OBVIOUS
        <4>2. n + 1 \in 2 .. n + 1
          BY <3>5
        <4> QED
          BY <3>2, <3>6, <3>7, <4>1, <4>2
      <3>9. ToSet(o) = (ToSet(e[1].ids) \ {NoId})
                         \ {e[k].id : k \in 2 .. n + 1}
        BY <2>1, <3>5, <3>6, <3>8
      <3>10. ASSUME ~lenient
             PROVE  /\ \A k \in 2 .. n + 1 : e[k].id \in ToSet(e[1].ids)
                    /\ \A k, h \in 2 .. n + 1 : e[k].id = e[h].id => k = h
        <4>1. m.id \in ToSet(b[1].ids) /\ \A k \in 2 .. n : b[k].id # m.id
          BY <2>2, <3>5, <3>10
        <4>2. \A k \in 2 .. n + 1 : e[k].id \in ToSet(e[1].ids)
          BY <3>2, <3>5, <3>6, <3>7, <3>10, <4>1
        <4>3. \A k, h \in 2 .. n + 1 : e[k].id = e[h].id => k = h
          BY <3>2, <3>5, <3>6, <3>7, <3>10, <4>1
        <4> QED
          BY <4>2, <4>3
      <3>11. \A k \in 2 .. n + 1 : e[k].role = "tool"
        BY <1>7, <3>2, <3>5, <3>6, <3>7
      <3>12. Partial(e, o, lenient)
        <4>1. Len(e) > 0 /\ e[1].role = "assistant" /\ Distinct(o)
              /\ lenient = (NoId \in ToSet(e[1].ids))
          BY <2>1, <3>2, <3>5, <3>6
        <4> QED
          BY <3>2, <3>9, <3>10, <3>11, <4>1 DEF Partial
      <3>13. PairStep(s, m) \in States(M, I)
        BY <3>1, <3>3 DEF States
      <3>14. /\ PairStep(s, m).out = a \o e
             /\ PairStep(s, m).open = o /\ PairStep(s, m).lenient = lenient
        BY <3>1, <3>3
      <3> QED
        BY <1>2, <3>12, <3>13, <3>14 DEF WalkInv
    <2>3. CASE ~(m.id \in ToSet(open) \/ lenient)
      <3>1. PairStep(s, m) = [out |-> out, open |-> o, lenient |-> lenient]
        BY <1>1, <1>7, <2>1, <2>3 DEF PairStep
      <3>2. ToSet(o) = ToSet(open)
        BY <2>1, <2>3
      <3>3. open = << >> => o = << >>
        <4>1. ASSUME open = << >>, Len(o) > 0 PROVE FALSE
          <5>1. 1 \in 1 .. Len(o)
            BY <4>1
          <5>2. o[1] \in ToSet(o)
            BY <5>1 DEF ToSet
          <5> QED
            BY <3>2, <4>1, <5>2 DEF ToSet
        <4> QED
          BY <4>1, EmptySeq
      <3>4. Partial(b, o, lenient)
        BY <1>2, <2>1, <3>2, <3>3 DEF Partial
      <3>5. PairStep(s, m) \in States(M, I)
        BY <3>1 DEF States
      <3>6. /\ PairStep(s, m).out = a \o b
            /\ PairStep(s, m).open = o /\ PairStep(s, m).lenient = lenient
        BY <1>2, <3>1
      <3> QED
        BY <1>2, <3>4, <3>5, <3>6 DEF WalkInv
    <2> QED
      BY <2>2, <2>3
  <1> QED
    BY <1>5, <1>6, <1>7 DEF Sound

\* paired_messages: whatever the transcript, the request is accepted.
LEMMA PairedAccepted ==
    ASSUME NEW M, NEW I, Sound(M, I), NEW msgs \in Seq(M)
    PROVE  PairedMessages(msgs) \in Seq(M) /\ Accepted(PairedMessages(msgs))
  <1> DEFINE w == Walk(msgs)
             U == {n \in Nat : WalkInv(w[n], M, I)}
  <1>1. PICK l \in Nat : l = Len(msgs)
    OBVIOUS
  <1>2. w[0] = Start /\ \A n \in 1 .. l : w[n] = PairStep(w[n - 1], msgs[n])
    BY <1>1, WalkIs
  <1> HIDE DEF w
  <1>3. WalkInv(Start, M, I)
    <2>1. << >> \in Seq(M) /\ << >> \o << >> = << >> /\ Accepted(<< >>)
      <3>1. << >> \in Seq(M) /\ Len(<< >>) = 0
        OBVIOUS
      <3>2. Accepted(<< >>)
        <4>1. PICK e : e = << >>
          OBVIOUS
        <4>2. e \in Seq(M) /\ Len(e) = 0 /\ 1 .. 0 = {}
          BY <3>1, <4>1
        <4>3. Accepted(e)
          BY <4>2, PlainAccepted
        <4> QED
          BY <4>1, <4>3
      <3> QED
        BY <3>1, <3>2
    <2>2. Partial(<< >>, << >>, FALSE)
      BY DEF Partial
    <2> QED
      <3>1. PICK e : e = << >>
        OBVIOUS
      <3>2. e = << >> /\ e \in Seq(M) /\ e \in Seq(I \ {NoId}) /\ e \o e = e
        BY <2>1, <3>1
      <3>3. Start = [out |-> e, open |-> e, lenient |-> FALSE]
        BY <3>2 DEF Start
      <3>4. Start.out = e /\ Start.open = e /\ Start.lenient = FALSE
            /\ Start \in States(M, I)
        BY <3>2, <3>3 DEF States
      <3> QED
        BY <2>1, <2>2, <3>2, <3>4 DEF WalkInv
  <1>4. 0 \in U
    BY <1>2, <1>3
  <1>5. ASSUME NEW k \in 0 .. l, k < l, k \in U
        PROVE  k + 1 \in U
    <2>1. k + 1 \in 1 .. l /\ (k + 1) - 1 = k /\ k + 1 \in Nat
      BY <1>5
    <2>2. w[k + 1] = PairStep(w[k], msgs[k + 1]) /\ msgs[k + 1] \in M
      BY <1>1, <1>2, <2>1
    <2>3. WalkInv(w[k + 1], M, I)
      BY <1>5, <2>2, PairStepInv
    <2> QED
      BY <2>1, <2>3
  <1>6. WalkInv(w[l], M, I)
    <2> HIDE DEF U
    <2>1. \A k \in 0 .. l : k \in U
      BY <1>4, <1>5, CountUp
    <2>2. l \in U
      BY <2>1
    <2> QED
      BY <2>2 DEF U
  <1>7. CloseOpen(w[l]) \in States(M, I) /\ Accepted(CloseOpen(w[l]).out)
    BY <1>6, CloseIs
  <1>8. PairedMessages(msgs) = CloseOpen(w[l]).out
    BY <1>1 DEF PairedMessages, w
  <1> QED
    BY <1>7, <1>8 DEF States

\* The calls open behind the first `n` messages: those of the message at `j`
\* that the results since do not answer.
OpenBehind(msgs, n, j, open, lenient) ==
    /\ j \in 1 .. n /\ msgs[j].role = "assistant"
    /\ \A k \in j + 1 .. n : msgs[k].role = "tool"
    /\ lenient = (NoId \in ToSet(msgs[j].ids))
    /\ ToSet(open) = (ToSet(msgs[j].ids) \ {NoId})
                       \ {msgs[k].id : k \in j + 1 .. n}

NoneBehind(msgs, n, open, lenient) ==
    (n > 0 => msgs[n].role = "user") /\ open = << >> /\ ~lenient

\* The walk over an accepted list copies it.
SameInv(s, msgs, n, M, I) ==
    /\ s \in States(M, I)
    /\ Len(s.out) = n /\ \A k \in 1 .. n : s.out[k] = msgs[k]
    /\ \/ NoneBehind(msgs, n, s.open, s.lenient)
       \/ \E j \in 1 .. n : OpenBehind(msgs, n, j, s.open, s.lenient)

\* In an accepted list no call is open where a message other than a result
\* comes, or at the end.
LEMMA NothingOpen ==
    ASSUME NEW M, NEW I, NEW msgs \in Seq(M), Accepted(msgs),
           NEW n \in 0 .. Len(msgs), n < Len(msgs) => msgs[n + 1].role # "tool",
           NEW s, SameInv(s, msgs, n, M, I)
    PROVE  s.open = << >> /\ CloseOpen(s) = s
  <1>1. PICK out \in Seq(M), open \in Seq(I \ {NoId}), lenient \in BOOLEAN :
          s = [out |-> out, open |-> open, lenient |-> lenient]
    BY DEF SameInv, States
  <1>2. PICK l \in Nat : l = Len(msgs) /\ n \in 0 .. l
    OBVIOUS
  <1>3. open = << >>
    <2>1. CASE NoneBehind(msgs, n, open, lenient)
      BY <2>1 DEF NoneBehind
    <2>2. ASSUME NEW j \in 1 .. n, OpenBehind(msgs, n, j, open, lenient)
          PROVE  open = << >>
      <3>1. j \in 1 .. l /\ msgs[j].role = "assistant"
        BY <1>2, <2>2 DEF OpenBehind
      <3>2. CallsAnswered(msgs, j)
        BY <1>2, <3>1, AcceptedIs
      <3>3. ASSUME NEW id \in ToSet(msgs[j].ids) \ {NoId}
            PROVE  id \in {msgs[k].id : k \in j + 1 .. n}
        <4>1. PICK k \in 1 .. l : Follows(msgs, j, k) /\ msgs[k].id = id
          BY <1>2, <3>2 DEF CallsAnswered
        <4>2. j < k /\ \A h \in j + 1 .. k : msgs[h].role = "tool"
          BY <4>1 DEF Follows
        <4>3. k <= n
          <5> SUFFICES ASSUME ~(k <= n) PROVE FALSE
            OBVIOUS
          <5>1. n + 1 \in j + 1 .. k /\ n < l
            BY <1>2, <4>2
          <5> QED
            BY <1>2, <4>2, <5>1
        <4>4. k \in j + 1 .. n
          BY <1>2, <4>2, <4>3
        <4> QED
          BY <4>1, <4>4
      <3>4. ToSet(open) = {}
        BY <2>2, <3>3 DEF OpenBehind
      <3>5. ASSUME Len(open) > 0 PROVE FALSE
        <4>1. 1 \in 1 .. Len(open)
          BY <3>5
        <4>2. open[1] \in ToSet(open)
          BY <4>1 DEF ToSet
        <4> QED
          BY <3>4, <4>2
      <3> QED
        BY <3>5, EmptySeq
    <2> QED
      BY <1>1, <2>1, <2>2 DEF SameInv
  <1>4. Missing(<< >>) = << >>
    BY DEF Missing
  <1>5. out \o << >> = out
    BY ConcatEmptySeq
  <1>6. CloseOpen(s) = [s EXCEPT !.out = s.out \o Missing(s.open),
                                 !.open = << >>]
    BY DEF CloseOpen, Missing
  <1>7. s.out = out /\ s.open = << >>
    BY <1>1, <1>3
  <1>8. CloseOpen(s) = [s EXCEPT !.out = out, !.open = << >>]
    BY <1>4, <1>5, <1>6, <1>7
  <1>9. CloseOpen(s) = s
    BY <1>1, <1>3, <1>8
  <1> QED
    BY <1>7, <1>9

\* Every message of an accepted list is copied.
LEMMA SameStep ==
    ASSUME NEW M, NEW I, Sound(M, I), NEW msgs \in Seq(M), Accepted(msgs),
           NEW n \in 0 .. Len(msgs), n < Len(msgs),
           NEW s, SameInv(s, msgs, n, M, I)
    PROVE  SameInv(PairStep(s, msgs[n + 1]), msgs, n + 1, M, I)
  <1>1. PICK out \in Seq(M), open \in Seq(I \ {NoId}), lenient \in BOOLEAN :
          s = [out |-> out, open |-> open, lenient |-> lenient]
    BY DEF SameInv, States
  <1>2. PICK l \in Nat : l = Len(msgs) /\ n \in 0 .. l /\ n + 1 \in 1 .. l
    OBVIOUS
  <1>3. PICK m \in M : m = msgs[n + 1]
    BY <1>2
  <1>4. PICK e \in Seq(M) :
          /\ e = Append(out, m) /\ Len(e) = n + 1
          /\ \A k \in 1 .. n + 1 : e[k] = msgs[k]
    <2>1. Len(out) = n /\ \A k \in 1 .. n : out[k] = msgs[k]
      BY <1>1 DEF SameInv
    <2>2. PICK e \in Seq(M) : e = Append(out, m)
      BY AppendProperties
    <2>3. /\ Len(e) = n + 1 /\ e[n + 1] = m
          /\ \A k \in 1 .. n : e[k] = out[k]
      BY <2>1, <2>2, AppendProperties
    <2>4. \A k \in 1 .. n + 1 : k \in 1 .. n \/ k = n + 1
      BY <1>2
    <2>5. \A k \in 1 .. n + 1 : e[k] = msgs[k]
      BY <1>3, <2>1, <2>3, <2>4
    <2> QED
      BY <2>2, <2>3, <2>5
  <1>5. ASSUME NEW o \in Seq(I \ {NoId}), NEW un \in BOOLEAN,
               PairStep(s, m) = [out |-> e, open |-> o, lenient |-> un],
               \/ NoneBehind(msgs, n + 1, o, un)
               \/ \E j \in 1 .. n + 1 : OpenBehind(msgs, n + 1, j, o, un)
        PROVE  SameInv(PairStep(s, msgs[n + 1]), msgs, n + 1, M, I)
    <2>1. PICK q : q = PairStep(s, m)
      OBVIOUS
    <2>2. /\ q \in States(M, I) /\ q.out = e /\ q.open = o /\ q.lenient = un
      BY <1>5, <2>1 DEF States
    <2>3. SameInv(q, msgs, n + 1, M, I)
      BY <1>4, <1>5, <2>2 DEF SameInv
    <2> QED
      BY <1>3, <2>1, <2>3
  <1>6. CASE m.role # "tool"
    <2>1. open = << >> /\ CloseOpen(s) = s
      BY <1>1, <1>2, <1>3, <1>6, NothingOpen
    <2>2. CASE m.role = "user"
      <3>1. PairStep(s, m) = [s EXCEPT !.out = Append(@, m), !.lenient = FALSE]
        BY <2>1, <2>2 DEF PairStep
      <3>2. PairStep(s, m) = [out |-> e, open |-> << >>, lenient |-> FALSE]
        BY <1>1, <1>4, <2>1, <3>1
      <3>3. NoneBehind(msgs, n + 1, << >>, FALSE)
        BY <1>3, <2>2 DEF NoneBehind
      <3>4. PICK o \in Seq(I \ {NoId}) : o = << >>
        <4>1. PICK o : o = << >>
          OBVIOUS
        <4>2. o \in Seq(I \ {NoId})
          BY <4>1
        <4> QED
          BY <4>1, <4>2
      <3>5. PICK un \in BOOLEAN : un = FALSE
        OBVIOUS
      <3>6. /\ PairStep(s, m) = [out |-> e, open |-> o, lenient |-> un]
            /\ NoneBehind(msgs, n + 1, o, un)
        BY <3>2, <3>3, <3>4, <3>5
      <3> QED
        BY <1>5, <3>4, <3>5, <3>6
    <2>3. CASE m.role = "assistant"
      <3>1. PICK o \in Seq(I \ {NoId}) :
              o = Others(m.ids, NoId) /\ ToSet(o) = ToSet(m.ids) \ {NoId}
        BY <2>3, OthersIs DEF Sound
      <3>2. PICK un : un = (NoId \in ToSet(m.ids))
        OBVIOUS
      <3>3. un \in BOOLEAN
        BY <3>2
      <3>4. PairStep(s, m) = [s EXCEPT !.out = Append(@, m), !.open = o,
                                       !.lenient = un]
        BY <2>1, <2>3, <3>1, <3>2 DEF PairStep
      <3>5. PairStep(s, m) = [out |-> e, open |-> o, lenient |-> un]
        BY <1>1, <1>4, <3>4
      <3>6. OpenBehind(msgs, n + 1, n + 1, o, un)
        <4>1. n + 1 \in 1 .. n + 1 /\ (n + 1) + 1 .. n + 1 = {}
          BY <1>2
        <4> QED
          BY <1>3, <2>3, <3>1, <3>2, <4>1 DEF OpenBehind
      <3>7. n + 1 \in 1 .. n + 1
        BY <1>2
      <3> QED
        BY <1>5, <3>3, <3>5, <3>6, <3>7
    <2> QED
      BY <1>6, <2>2, <2>3 DEF Sound
  <1>7. CASE m.role = "tool"
    <2>1. PICK i \in 1 .. l : OwnResult(msgs, i, n + 1)
      BY <1>2, <1>3, <1>7, AcceptedIs
    <2>2. /\ i < n + 1 /\ msgs[i].role = "assistant"
          /\ \A k \in i + 1 .. n + 1 : msgs[k].role = "tool"
      BY <2>1 DEF OwnResult, Follows
    <2>3. i \in 1 .. n /\ n > 0
      BY <1>2, <2>2
    <2>4. msgs[n].role # "user"
      <3>1. CASE i = n
        BY <2>2, <3>1
      <3>2. CASE i # n
        <4>1. n \in i + 1 .. n + 1
          BY <1>2, <2>3, <3>2
        <4> QED
          BY <2>2, <4>1
      <3> QED
        BY <3>1, <3>2
    <2>5. PICK j \in 1 .. n : OpenBehind(msgs, n, j, open, lenient)
      BY <1>1, <2>3, <2>4 DEF SameInv, NoneBehind
    <2>6. /\ msgs[j].role = "assistant"
          /\ \A k \in j + 1 .. n : msgs[k].role = "tool"
          /\ lenient = (NoId \in ToSet(msgs[j].ids))
          /\ ToSet(open) = (ToSet(msgs[j].ids) \ {NoId})
                             \ {msgs[k].id : k \in j + 1 .. n}
      BY <2>5 DEF OpenBehind
    <2>7. i = j
      <3>1. ~(i < j)
        <4> SUFFICES ASSUME i < j PROVE FALSE
          OBVIOUS
        <4>1. j \in i + 1 .. n + 1
          BY <1>2, <2>3
        <4> QED
          BY <2>2, <2>6, <4>1
      <3>2. ~(j < i)
        <4> SUFFICES ASSUME j < i PROVE FALSE
          OBVIOUS
        <4>1. i \in j + 1 .. n
          BY <1>2, <2>3
        <4> QED
          BY <2>2, <2>6, <4>1
      <3> QED
        BY <1>2, <2>3, <3>1, <3>2
    <2>8. m.id \in ToSet(open) \/ lenient
      <3> SUFFICES ASSUME ~lenient PROVE m.id \in ToSet(open)
        OBVIOUS
      <3>1. NoId \notin ToSet(msgs[j].ids)
        BY <2>6
      <3>2. /\ m.id \in ToSet(msgs[j].ids)
            /\ \A k \in 1 .. l :
                 Follows(msgs, j, k) /\ msgs[k].id = m.id => k = n + 1
        BY <1>2, <1>3, <2>1, <2>7, <3>1 DEF OwnResult
      <3>3. ASSUME NEW k \in j + 1 .. n PROVE msgs[k].id # m.id
        <4>1. k \in 1 .. l /\ j < k /\ k # n + 1
              /\ \A h \in j + 1 .. k : h \in j + 1 .. n
          BY <1>2
        <4>2. Follows(msgs, j, k)
          BY <2>6, <4>1 DEF Follows
        <4> QED
          BY <3>2, <4>1, <4>2
      <3> QED
        BY <2>6, <3>1, <3>2, <3>3
    <2>9. PICK o \in Seq(I \ {NoId}) :
            o = Others(open, m.id) /\ ToSet(o) = ToSet(open) \ {m.id}
      <3>1. \A x \in Seq((I \ {NoId}) \ {m.id}) : x \in Seq(I \ {NoId})
        OBVIOUS
      <3> QED
        BY <3>1, OthersIs
    <2>10. PairStep(s, m) = [out |-> e, open |-> o, lenient |-> lenient]
      BY <1>1, <1>4, <1>7, <2>8, <2>9 DEF PairStep
    <2>11. OpenBehind(msgs, n + 1, j, o, lenient) /\ j \in 1 .. n + 1
      <3>1. \A k \in j + 1 .. n + 1 : k \in j + 1 .. n \/ k = n + 1
        BY <1>2
      <3>2. n + 1 \in j + 1 .. n + 1 /\ j \in 1 .. n + 1
            /\ \A k \in j + 1 .. n : k \in j + 1 .. n + 1
        BY <1>2
      <3>3. {msgs[k].id : k \in j + 1 .. n + 1}
              = {msgs[k].id : k \in j + 1 .. n} \cup {m.id}
        BY <1>3, <3>1, <3>2
      <3>4. \A k \in j + 1 .. n + 1 : msgs[k].role = "tool"
        BY <1>3, <1>7, <2>6, <3>1
      <3> QED
        BY <2>6, <2>9, <3>2, <3>3, <3>4 DEF OpenBehind
    <2> QED
      BY <1>5, <2>10, <2>11
  <1> QED
    BY <1>6, <1>7

\* paired_messages changes nothing that was accepted.
LEMMA PairedSame ==
    ASSUME NEW M, NEW I, Sound(M, I), NEW msgs \in Seq(M), Accepted(msgs)
    PROVE  PairedMessages(msgs) = msgs
  <1> DEFINE w == Walk(msgs)
             U == {n \in Nat : SameInv(w[n], msgs, n, M, I)}
  <1>1. PICK l \in Nat : l = Len(msgs)
    OBVIOUS
  <1>2. w[0] = Start /\ \A n \in 1 .. l : w[n] = PairStep(w[n - 1], msgs[n])
    BY <1>1, WalkIs
  <1> HIDE DEF w
  <1>3. SameInv(Start, msgs, 0, M, I)
    <2>1. PICK e : e = << >>
      OBVIOUS
    <2>2. e \in Seq(M) /\ e \in Seq(I \ {NoId}) /\ Len(e) = 0
      BY <2>1
    <2>3. Start = [out |-> e, open |-> e, lenient |-> FALSE]
      BY <2>1 DEF Start
    <2>4. Start.out = e /\ Start.open = e /\ Start.lenient = FALSE
          /\ Start \in States(M, I)
      BY <2>2, <2>3 DEF States
    <2>5. NoneBehind(msgs, 0, Start.open, Start.lenient)
      BY <2>1, <2>4 DEF NoneBehind
    <2>6. Len(Start.out) = 0 /\ \A k \in 1 .. 0 : Start.out[k] = msgs[k]
      <3>1. 1 .. 0 = {}
        OBVIOUS
      <3> QED
        BY <2>2, <2>4, <3>1
    <2> QED
      BY <2>4, <2>5, <2>6 DEF SameInv
  <1>4. 0 \in U
    BY <1>2, <1>3
  <1>5. ASSUME NEW k \in 0 .. l, k < l, k \in U
        PROVE  k + 1 \in U
    <2>1. k + 1 \in 1 .. l /\ (k + 1) - 1 = k /\ k + 1 \in Nat
      BY <1>5
    <2>2. w[k + 1] = PairStep(w[k], msgs[k + 1])
      BY <1>1, <1>2, <2>1
    <2>3. SameInv(w[k + 1], msgs, k + 1, M, I)
      BY <1>1, <1>5, <2>2, SameStep
    <2> QED
      BY <2>1, <2>3
  <1>6. SameInv(w[l], msgs, l, M, I)
    <2> HIDE DEF U
    <2>1. \A k \in 0 .. l : k \in U
      BY <1>4, <1>5, CountUp
    <2>2. l \in U
      BY <2>1
    <2> QED
      BY <2>2 DEF U
  <1>7. CloseOpen(w[l]) = w[l]
    BY <1>1, <1>6, NothingOpen
  <1>8. PairedMessages(msgs) = w[l].out
    BY <1>1, <1>7 DEF PairedMessages, w
  <1>9. /\ w[l].out \in Seq(M) /\ Len(w[l].out) = l
        /\ \A k \in 1 .. l : w[l].out[k] = msgs[k]
    BY <1>6 DEF SameInv, States
  <1>10. w[l].out = msgs
    BY <1>1, <1>9, SeqEqual
  <1> QED
    BY <1>8, <1>10
=============================================================================
