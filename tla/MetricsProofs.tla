--------------------------- MODULE MetricsProofs ----------------------------
(***************************************************************************)
(* Proofs about Metrics, for any number of threads: no count is lost, every*)
(* page is a cut, and every stat on a page sums up the values observed.    *)
(*                                                                         *)
(* For the cut it must be known how far each thread may be ahead of the    *)
(* counters: a handler whose next effect is to count one more at a stage   *)
(* has counted at the stage before, so each stage's count and the handlers *)
(* that owe it one never exceed the count before it.                       *)
(*                                                                         *)
(* For the stats, the sum of a sequence, which Functions defines by a      *)
(* recursive function over the subsets of its domain, in whatever order    *)
(* CHOOSE takes them, must be shown to exist, not to depend on that order, *)
(* and to grow by what is appended.  WFMin of WellFoundedInduction gives a *)
(* least counterexample, and with it induction over sets and numbers.      *)
(***************************************************************************)
EXTENDS Metrics, Integers, FiniteSetTheorems, SequenceTheorems,
        WellFoundedInduction, TLAPS

(* Which threads are where.                                                *)
Places ==
    /\ \A h \in Handlers : /\ stage[h] \in Counters \cup Stats \cup {"idle"}
                           /\ at[h] \in {"outside", "inside", "half"}
    /\ \A p \in Pages : stage[p] \in {"idle", "snapshot", "shown"}
    /\ \A t \in Threads : at[t] # "outside" => stage[t] \in Calls

(* Only the holder of the lock is inside a call.                           *)
Mutex == \A t \in Threads : at[t] # "outside" => lock = t

(* What a thread took from the shared state is still true.                 *)
ValueInv ==
    \A h \in Handlers :
        at[h] = "half" =>
            /\ stage[h] \in Counters => value[h] = counters[stage[h]]
            /\ stage[h] \in Stats => value[h] \in Values

(* The handlers whose next effect is to count one more for name.           *)
AtCounter(name) == {h \in Handlers : stage[h] = name}
AtForward == {h \in Handlers : stage[h] = "forward_s" /\ at[h] # "half"}
AtPayload == {h \in Handlers : \/ stage[h] = "forward_s" /\ at[h] = "half"
                               \/ stage[h] = "payload_bytes" /\ at[h] # "half"}

Covered(n, owing, m) == n + Cardinality(owing) <= m

OwedInv ==
    /\ Covered(counters["messages_processed"],
               AtCounter("messages_processed"),
               counters["messages_received"])
    /\ Covered(counters["messages_forwarded"],
               AtCounter("messages_forwarded"),
               counters["messages_processed"])
    /\ Covered(stats["forward_s"].count, AtForward,
               counters["messages_forwarded"])
    /\ Covered(stats["payload_bytes"].count, AtPayload,
               stats["forward_s"].count)

(* What an HTTP thread has copied is still true while it copies the rest.  *)
PageInv ==
    \A p \in Pages :
        /\ stage[p] = "snapshot" /\ at[p] \in {"half", "last"} =>
              page[p].stats["forward_s"] = stats["forward_s"]
        /\ stage[p] = "snapshot" /\ at[p] = "last" =>
              page[p].stats["payload_bytes"] = stats["payload_bytes"]
        /\ stage[p] = "shown" => Ordered(page[p])

(* A stat sums up what was observed, except under the lock between the two *)
(* steps of an add.                                                        *)
Adding(h, name) == stage[h] = name /\ at[h] = "half"
Before(vs)      == SubSeq(vs, 1, Len(vs) - 1)

HalfAdded(stat, vs, v) ==
    /\ vs = Append(Before(vs), v)
    /\ stat = Counted(Summary(Before(vs)), v)

StatsInv ==
    \A name \in Stats :
        /\ (\A h \in Handlers : ~Adding(h, name)) =>
              stats[name] = Summary(seen[name])
        /\ \A h \in Handlers : Adding(h, name) =>
              HalfAdded(stats[name], seen[name], value[h])

IInv ==
    /\ TypeOK
    /\ Places
    /\ Mutex
    /\ ValueInv
    /\ CountersExact
    /\ OwedInv
    /\ PageInv
    /\ StatsInv
    /\ StatsExact

-----------------------------------------------------------------------------
(* Sums and extremes.                                                      *)

(* A set of numbers that is not empty has a least element.                 *)
LEMMA Least ==
    ASSUME NEW T, T \subseteq Nat, T # {}
    PROVE  \E n \in T : \A m \in T : n <= m
<1>1. PICK R : R = OpToRel(<, Nat)
  OBVIOUS
<1>2. IsWellFoundedOn(R, Nat)
  BY <1>1, NatLessThanWellFounded
<1>3. PICK n \in T : \A m \in T : <<m, n>> \notin R
  BY <1>2, WFMin
<1>4. \A m, k \in Nat : m < k => <<m, k>> \in R
  BY <1>1 DEF OpToRel
<1>5. \A m \in T : ~(m < n)
  BY <1>3, <1>4
<1>6. QED
  BY <1>3, <1>5

(* Induction over the subsets of a finite set, by their size.              *)
LEMMA BySize ==
    ASSUME NEW S, IsFiniteSet(S), NEW P,
           \A s \in SUBSET S :
              (\A u \in SUBSET S :
                  Cardinality(u) < Cardinality(s) => u \in P) => s \in P
    PROVE  SUBSET S \subseteq P
<1> DEFINE Bad == {s \in SUBSET S : s \notin P}
           Sizes == {Cardinality(s) : s \in Bad}
<1>1. SUFFICES ASSUME Bad # {} PROVE FALSE
  OBVIOUS
<1>2. \A s \in SUBSET S : Cardinality(s) \in Nat
  BY FS_Subset, FS_CardinalityType
<1>3. Sizes \subseteq Nat /\ Sizes # {}
  BY <1>1, <1>2
<1>4. PICK n \in Sizes : \A m \in Sizes : n <= m
  <2> HIDE DEF Sizes
  <2>1. QED
    BY <1>3, Least
<1>5. PICK s \in Bad : Cardinality(s) = n
  OBVIOUS
<1>6. ASSUME NEW u \in SUBSET S, Cardinality(u) < Cardinality(s), u \notin P
      PROVE  FALSE
  <2>1. Cardinality(u) \in Sizes
    BY <1>6
  <2>2. n <= Cardinality(u)
    BY <1>4, <2>1
  <2>3. QED
    BY <1>2, <1>5, <1>6, <2>2
<1>7. QED
  BY <1>5, <1>6

(* I sums f over the subsets of S, as the fold of Functions does.          *)
Sums(I, f, S) ==
    I = [s \in SUBSET S |->
            IF s = {} THEN 0
            ELSE LET x == CHOOSE x \in s : TRUE IN f[x] + I[s \ {x}]]

(* What it is for no index, and for some.                                  *)
LEMMA SumsFacts ==
    ASSUME NEW S, NEW f, NEW I, Sums(I, f, S)
    PROVE  /\ I[{}] = 0
           /\ \A s \in SUBSET S : s # {} =>
                 \E x \in s : /\ x = CHOOSE y \in s : TRUE
                              /\ I[s] = f[x] + I[s \ {x}]
<1>1. \A s \in SUBSET S :
         I[s] = IF s = {} THEN 0
                ELSE LET x == CHOOSE x \in s : TRUE IN f[x] + I[s \ {x}]
  <2>1. PICK J : J = I
    OBVIOUS
  <2>2. I = [s \in SUBSET S |->
            IF s = {} THEN 0
            ELSE LET x == CHOOSE x \in s : TRUE IN f[x] + J[s \ {x}]]
    BY <2>1 DEF Sums
  <2>3. QED
    BY <2>1, <2>2
<1>2. QED
  BY <1>1

(* A subset with one element less.                                         *)
LEMMA OneLess ==
    ASSUME NEW S, IsFiniteSet(S), NEW s \in SUBSET S, NEW x \in s
    PROVE  /\ s \ {x} \in SUBSET S
           /\ Cardinality(s) \in Nat
           /\ Cardinality(s \ {x}) = Cardinality(s) - 1
           /\ Cardinality(s \ {x}) < Cardinality(s)
<1>1. IsFiniteSet(s)
  BY FS_Subset
<1>2. Cardinality(s) \in Nat /\ Cardinality(s \ {x}) = Cardinality(s) - 1
  BY <1>1, FS_CardinalityType, FS_RemoveElement
<1>3. QED
  BY <1>2

(* A sum of numbers is a number.                                           *)
LEMMA SumsNat ==
    ASSUME NEW S, IsFiniteSet(S), NEW f, \A x \in S : f[x] \in Nat,
           NEW I, Sums(I, f, S)
    PROVE  \A s \in SUBSET S : I[s] \in Nat
<1> DEFINE P == {s \in SUBSET S : I[s] \in Nat}
<1>1. ASSUME NEW s \in SUBSET S,
             \A u \in SUBSET S : Cardinality(u) < Cardinality(s) => u \in P
      PROVE  s \in P
  <2>1. CASE s = {}
    BY <2>1, SumsFacts
  <2>2. CASE s # {}
    <3>1. PICK x \in s : I[s] = f[x] + I[s \ {x}]
      BY <2>2, SumsFacts
    <3>2. s \ {x} \in P
      BY <1>1, OneLess
    <3>3. QED
      BY <3>1, <3>2
  <2>3. QED
    BY <2>1, <2>2
<1>2. SUBSET S \subseteq P
  <2> HIDE DEF P
  <2>1. QED
    BY <1>1, BySize
<1>3. QED
  BY <1>2

(* Any index may be added last: the order that CHOOSE takes is immaterial. *)
LEMMA SumsTake ==
    ASSUME NEW S, IsFiniteSet(S), NEW f, \A x \in S : f[x] \in Nat,
           NEW I, Sums(I, f, S)
    PROVE  \A s \in SUBSET S : \A y \in s : I[s] = f[y] + I[s \ {y}]
<1> DEFINE P == {s \in SUBSET S : \A y \in s : I[s] = f[y] + I[s \ {y}]}
<1>1. ASSUME NEW s \in SUBSET S,
             \A u \in SUBSET S : Cardinality(u) < Cardinality(s) => u \in P
      PROVE  s \in P
  <2>1. ASSUME NEW y \in s
        PROVE  I[s] = f[y] + I[s \ {y}]
    <3>1. PICK x \in s : I[s] = f[x] + I[s \ {x}]
      BY SumsFacts
    <3>2. CASE x = y
      BY <3>1, <3>2
    <3>3. CASE x # y
      <4>1. s \ {x} \in P /\ s \ {y} \in P
        BY <1>1, OneLess
      <4>2. y \in s \ {x} /\ x \in s \ {y}
        BY <3>3
      <4>3. /\ I[s \ {x}] = f[y] + I[(s \ {x}) \ {y}]
            /\ I[s \ {y}] = f[x] + I[(s \ {y}) \ {x}]
        BY <4>1, <4>2
      <4>4. (s \ {x}) \ {y} = (s \ {y}) \ {x}
        OBVIOUS
      <4>5. /\ f[x] \in Nat /\ f[y] \in Nat
            /\ I[(s \ {y}) \ {x}] \in Nat
        BY SumsNat
      <4>6. \A a, b, c \in Nat : a + (b + c) = b + (a + c)
        OBVIOUS
      <4>7. f[x] + (f[y] + I[(s \ {y}) \ {x}])
               = f[y] + (f[x] + I[(s \ {y}) \ {x}])
        BY <4>5, <4>6
      <4>8. QED
        BY <3>1, <4>3, <4>4, <4>7
    <3>4. QED
      BY <3>2, <3>3
  <2>2. QED
    BY <2>1
<1>2. SUBSET S \subseteq P
  <2> HIDE DEF P
  <2>1. QED
    BY <1>1, BySize
<1>3. QED
  BY <1>2

(* Functions that agree on S have the same sums there.                     *)
LEMMA SumsAgree ==
    ASSUME NEW S, NEW T, IsFiniteSet(T), S \subseteq T,
           NEW f, NEW g, \A x \in S : f[x] = g[x],
           NEW I, Sums(I, f, S), NEW J, Sums(J, g, T)
    PROVE  \A s \in SUBSET S : I[s] = J[s]
<1> DEFINE P == {s \in SUBSET S : I[s] = J[s]}
<1>1. IsFiniteSet(S)
  BY FS_Subset
<1>2. ASSUME NEW s \in SUBSET S,
             \A u \in SUBSET S : Cardinality(u) < Cardinality(s) => u \in P
      PROVE  s \in P
  <2>1. CASE s = {}
    BY <2>1, SumsFacts
  <2>2. CASE s # {}
    <3>1. PICK x \in s : /\ x = CHOOSE y \in s : TRUE
                         /\ I[s] = f[x] + I[s \ {x}]
      BY <2>2, SumsFacts
    <3>2. J[s] = g[x] + J[s \ {x}]
      <4>1. s \in SUBSET T
        OBVIOUS
      <4>2. PICK z \in s : /\ z = CHOOSE y \in s : TRUE
                           /\ J[s] = g[z] + J[s \ {z}]
        BY <2>2, <4>1, SumsFacts
      <4>3. QED
        BY <3>1, <4>2
    <3>3. s \ {x} \in P
      BY <1>1, <1>2, OneLess
    <3>4. QED
      BY <3>1, <3>2, <3>3
  <2>3. QED
    BY <2>1, <2>2
<1>3. SUBSET S \subseteq P
  <2> HIDE DEF P
  <2>1. QED
    BY <1>1, <1>2, BySize
<1>4. QED
  BY <1>3

(* Induction over the numbers.                                             *)
LEMMA Induction ==
    ASSUME NEW P, 0 \in P, \A n \in Nat : n \in P => n + 1 \in P
    PROVE  Nat \subseteq P
<1> DEFINE T == {n \in Nat : n \notin P}
<1>1. SUFFICES ASSUME T # {} PROVE FALSE
  OBVIOUS
<1>2. PICK n \in T : \A m \in T : n <= m
  <2>1. T \subseteq Nat
    OBVIOUS
  <2> HIDE DEF T
  <2>2. QED
    BY <1>1, <2>1, Least
<1>3. n # 0 /\ n \in Nat
  OBVIOUS
<1>4. n - 1 \in Nat /\ n - 1 \notin T
  BY <1>2, <1>3
<1>5. QED
  BY <1>3, <1>4

(* There is such a sum: it is built up by the size of the subsets.         *)
SumsUpto(I, f, S, k) ==
    I = [s \in SUBSET S |->
            IF s = {} \/ Cardinality(s) > k THEN 0
            ELSE LET x == CHOOSE x \in s : TRUE IN f[x] + I[s \ {x}]]

LEMMA SumsUptoMore ==
    ASSUME NEW S, IsFiniteSet(S), NEW f, NEW k \in Nat,
           NEW I, SumsUpto(I, f, S, k)
    PROVE  \E J : SumsUpto(J, f, S, k + 1)
<1> DEFINE J == [s \in SUBSET S |->
                   IF s = {} \/ Cardinality(s) > k + 1 THEN 0
                   ELSE LET x == CHOOSE x \in s : TRUE IN f[x] + I[s \ {x}]]
<1>1. \A s \in SUBSET S : Cardinality(s) \in Nat
  BY FS_Subset, FS_CardinalityType
<1>2. ASSUME NEW s \in SUBSET S, Cardinality(s) <= k
      PROVE  J[s] = I[s]
  <2>1. PICK K : K = I
    OBVIOUS
  <2>2. I = [u \in SUBSET S |->
               IF u = {} \/ Cardinality(u) > k THEN 0
               ELSE LET x == CHOOSE x \in u : TRUE IN f[x] + K[u \ {x}]]
    BY <2>1 DEF SumsUpto
  <2>3. I[s] = IF s = {} THEN 0
               ELSE LET x == CHOOSE x \in s : TRUE IN f[x] + K[s \ {x}]
    BY <1>1, <1>2, <2>2
  <2>4. J[s] = IF s = {} THEN 0
               ELSE LET x == CHOOSE x \in s : TRUE IN f[x] + I[s \ {x}]
    BY <1>1, <1>2
  <2>5. QED
    BY <2>1, <2>3, <2>4
<1>3. ASSUME NEW s \in SUBSET S, Cardinality(s) <= k + 1, NEW x \in s
      PROVE  J[s \ {x}] = I[s \ {x}]
  <2>1. s \ {x} \in SUBSET S /\ Cardinality(s \ {x}) <= k
    BY <1>3, OneLess
  <2> HIDE DEF J
  <2>2. QED
    BY <1>2, <2>1
<1>4. ASSUME NEW s \in SUBSET S
      PROVE  (IF s = {} \/ Cardinality(s) > k + 1 THEN 0
              ELSE LET x == CHOOSE x \in s : TRUE IN f[x] + I[s \ {x}])
              = (IF s = {} \/ Cardinality(s) > k + 1 THEN 0
                 ELSE LET x == CHOOSE x \in s : TRUE IN f[x] + J[s \ {x}])
  <2> HIDE DEF J
  <2>1. CASE s = {} \/ Cardinality(s) > k + 1
    BY <2>1
  <2>2. CASE s # {} /\ Cardinality(s) <= k + 1
    <3>1. PICK x : x = CHOOSE y \in s : TRUE
      OBVIOUS
    <3>2. x \in s
      BY <2>2, <3>1
    <3>3. QED
      BY <1>3, <2>2, <3>1, <3>2
  <2>3. QED
    BY <1>1, <2>1, <2>2
<1>5. PICK K : K = J
  OBVIOUS
<1>6. K = [s \in SUBSET S |->
            IF s = {} \/ Cardinality(s) > k + 1 THEN 0
            ELSE LET x == CHOOSE x \in s : TRUE IN f[x] + K[s \ {x}]]
  BY <1>4, <1>5, ZenonT(40)
<1>7. QED
  BY <1>6, ZenonT(40) DEF SumsUpto

LEMMA SumsExist ==
    ASSUME NEW S, IsFiniteSet(S), NEW f
    PROVE  \E I : Sums(I, f, S)
<1> DEFINE P == {k \in Nat : \E I : SumsUpto(I, f, S, k)}
<1>1. \A s \in SUBSET S : /\ Cardinality(s) \in Nat
                          /\ s # {} => Cardinality(s) # 0
                          /\ Cardinality(s) <= Cardinality(S)
  BY FS_Subset, FS_CardinalityType, FS_EmptySet
<1>2. 0 \in P
  <2>1. PICK I : I = [s \in SUBSET S |-> 0]
    OBVIOUS
  <2>2. \A s \in SUBSET S :
           0 = IF s = {} \/ Cardinality(s) > 0 THEN 0
               ELSE LET x == CHOOSE x \in s : TRUE IN f[x] + I[s \ {x}]
    BY <1>1
  <2>3. SumsUpto(I, f, S, 0)
    BY <2>1, <2>2 DEF SumsUpto
  <2>4. QED
    BY <2>3
<1>3. ASSUME NEW k \in Nat, k \in P
      PROVE  k + 1 \in P
  BY <1>3, SumsUptoMore
<1>4. Nat \subseteq P
  <2> HIDE DEF P
  <2>1. QED
    BY <1>2, <1>3, Induction
<1>5. PICK I : SumsUpto(I, f, S, Cardinality(S))
  BY <1>1, <1>4
<1>6. \A s \in SUBSET S : ~(Cardinality(s) > Cardinality(S))
  BY <1>1
<1>7. Sums(I, f, S)
  BY <1>5, <1>6 DEF Sums, SumsUpto
<1>8. QED
  BY <1>7

(* SumFunction is such a sum.                                              *)
LEMMA SumFunctionSums ==
    ASSUME NEW f, IsFiniteSet(DOMAIN f)
    PROVE  \E I : Sums(I, f, DOMAIN f) /\ SumFunction(f) = I[DOMAIN f]
<1>1. PICK S : S = DOMAIN f
  OBVIOUS
<1>2. \E I : Sums(I, f, S)
  BY <1>1, SumsExist
<1>3. PICK I : I = CHOOSE J : Sums(J, f, S)
  OBVIOUS
<1>4. Sums(I, f, S)
  BY <1>2, <1>3
<1>5. SumFunction(f) = I[S]
  BY <1>1, <1>3 DEF SumFunction, SumFunctionOnSet, FoldFunctionOnSet,
     MapThenFoldSet, Sums
<1>6. QED
  BY <1>1, <1>4, <1>5

(* What SumFunction gives for a sequence, as it is appended to.            *)
LEMMA SumOfNone == SumFunction(<<>>) = 0
<1>1. DOMAIN <<>> = {} /\ IsFiniteSet({})
  BY FS_EmptySet
<1>2. PICK f : f = <<>>
  OBVIOUS
<1>3. PICK I : Sums(I, f, DOMAIN f) /\ SumFunction(f) = I[DOMAIN f]
  BY <1>1, <1>2, SumFunctionSums
<1>4. I[{}] = 0
  BY <1>3, SumsFacts
<1>5. QED
  BY <1>1, <1>2, <1>3, <1>4

LEMMA SumOfAppend ==
    ASSUME NEW vs \in Seq(Nat), NEW v \in Nat
    PROVE  SumFunction(Append(vs, v)) = SumFunction(vs) + v
<1> DEFINE n == Len(vs)
<1>1. PICK ws : ws = Append(vs, v)
  OBVIOUS
<1>2. /\ n \in Nat
      /\ DOMAIN vs = 1 .. n /\ DOMAIN ws = 1 .. n + 1
      /\ \A i \in 1 .. n : vs[i] = ws[i] /\ vs[i] \in Nat
      /\ ws[n + 1] = v
  BY <1>1, AppendProperties
<1>3. PICK S, T : S = 1 .. n /\ T = 1 .. n + 1
  OBVIOUS
<1>4. IsFiniteSet(S) /\ IsFiniteSet(T)
  BY <1>2, <1>3, FS_Interval
<1>5. PICK I : Sums(I, vs, S) /\ SumFunction(vs) = I[S]
  BY <1>2, <1>3, <1>4, SumFunctionSums
<1>6. PICK J : Sums(J, ws, T) /\ SumFunction(ws) = J[T]
  BY <1>2, <1>3, <1>4, SumFunctionSums
<1>7. /\ \A i \in S : vs[i] = ws[i] /\ vs[i] \in Nat
      /\ \A i \in T : ws[i] \in Nat
  BY <1>2, <1>3
<1>8. n + 1 \in T /\ T \ {n + 1} = S /\ S \subseteq T
  BY <1>2, <1>3
<1>9. J[T] = ws[n + 1] + J[S]
  <2>1. IsFiniteSet(T) /\ Sums(J, ws, T) /\ \A i \in T : ws[i] \in Nat
    BY <1>4, <1>6, <1>7
  <2>2. ASSUME NEW s \in SUBSET T, NEW y \in s
        PROVE  J[s] = ws[y] + J[s \ {y}]
    BY <2>1, SumsTake
  <2>3. QED
    BY <1>8, <2>2
<1>10. J[S] = I[S]
  <2>1. \A s \in SUBSET S : I[s] = J[s]
    BY <1>4, <1>5, <1>6, <1>7, <1>8, SumsAgree
  <2>2. QED
    BY <2>1
<1>11. I[S] \in Nat
  <2>1. \A s \in SUBSET S : I[s] \in Nat
    BY <1>4, <1>5, <1>7, SumsNat
  <2>2. QED
    BY <2>1
<1>12. J[T] = I[S] + v
  BY <1>2, <1>9, <1>10, <1>11
<1>13. QED
  BY <1>1, <1>5, <1>6, <1>12

(* The values of a sequence, and the least and the greatest of them.       *)
LEMMA RangeOfAppend ==
    ASSUME NEW S, NEW vs \in Seq(S), NEW v \in S
    PROVE  /\ Range(Append(vs, v)) = Range(vs) \cup {v}
           /\ Range(vs) \subseteq S
           /\ vs # <<>> => Range(vs) # {}
           /\ vs = <<>> => Range(vs) = {}
<1>1. PICK ws : ws = Append(vs, v)
  OBVIOUS
<1>2. /\ Len(vs) \in Nat
      /\ DOMAIN vs = 1 .. Len(vs) /\ DOMAIN ws = 1 .. Len(vs) + 1
      /\ \A i \in 1 .. Len(vs) : vs[i] = ws[i] /\ vs[i] \in S
      /\ ws[Len(vs) + 1] = v
  BY <1>1, AppendProperties
<1>3. 1 .. Len(vs) + 1 = (1 .. Len(vs)) \cup {Len(vs) + 1}
  BY <1>2
<1>4. Range(ws) = Range(vs) \cup {v}
  BY <1>2, <1>3 DEF Range
<1>5. Range(vs) \subseteq S
  BY <1>2 DEF Range
<1>6. vs # <<>> => 1 \in DOMAIN vs
  BY <1>2
<1>7. vs = <<>> => DOMAIN vs = {}
  BY <1>2
<1>8. QED
  BY <1>1, <1>4, <1>5, <1>6, <1>7 DEF Range

LEMMA LeastOf ==
    ASSUME NEW T, T \subseteq Nat, T # {}
    PROVE  LET m == CHOOSE v \in T : \A w \in T : v <= w
           IN  m \in T /\ \A w \in T : m <= w
BY Least

LEMMA GreatestOf ==
    ASSUME NEW T, T \subseteq Nat, T # {}, NEW b \in Nat, \A w \in T : w <= b
    PROVE  LET m == CHOOSE v \in T : \A w \in T : v >= w
           IN  m \in T /\ \A w \in T : m >= w
<1> DEFINE U == {b - w : w \in T}
<1>1. U \subseteq Nat /\ U # {}
  <2>1. \A w \in T : b - w \in Nat
    OBVIOUS
  <2>2. QED
    BY <2>1
<1>2. PICK u \in U : \A x \in U : u <= x
  <2> HIDE DEF U
  <2>1. QED
    BY <1>1, Least
<1>3. PICK v \in T : u = b - v
  OBVIOUS
<1>4. ASSUME NEW w \in T
      PROVE  v >= w
  <2>1. b - v <= b - w
    BY <1>2, <1>3
  <2>2. v \in Nat /\ w \in Nat
    OBVIOUS
  <2>3. QED
    BY <2>1, <2>2
<1>5. QED
  BY <1>4

-----------------------------------------------------------------------------
(* A count and those who owe it stay covered when one that owed pays, or   *)
(* when one more owes because the count before it has grown.               *)
LEMMA Pays ==
    ASSUME NEW S \in SUBSET Handlers, NEW h \in S, NEW n \in Nat,
           NEW m \in Nat, Covered(n, S, m)
    PROVE  Covered(n + 1, S \ {h}, m)
<1>1. IsFiniteSet(S)
  BY FS_Subset, MetricsAssumption
<1>2. Cardinality(S \ {h}) = Cardinality(S) - 1 /\ Cardinality(S) \in Nat
  BY <1>1, FS_RemoveElement, FS_CardinalityType
<1>3. QED
  BY <1>2 DEF Covered

LEMMA Owes ==
    ASSUME NEW S \in SUBSET Handlers, NEW h \in Handlers, NEW n \in Nat,
           NEW m \in Nat, Covered(n, S, m)
    PROVE  Covered(n, S \cup {h}, m + 1)
<1>1. IsFiniteSet(S)
  BY FS_Subset, MetricsAssumption
<1>2. /\ Cardinality(S) \in Nat
      /\ Cardinality(S \cup {h}) \in {Cardinality(S), Cardinality(S) + 1}
  BY <1>1, FS_AddElement, FS_CardinalityType
<1>3. QED
  BY <1>2 DEF Covered

LEMMA CoveredMore ==
    ASSUME NEW S \in SUBSET Handlers, NEW n \in Nat, NEW m \in Nat,
           Covered(n, S, m)
    PROVE  Covered(n, S, m + 1) /\ n <= m
<1>1. IsFiniteSet(S)
  BY FS_Subset, MetricsAssumption
<1>2. Cardinality(S) \in Nat
  BY <1>1, FS_CardinalityType
<1>3. QED
  BY <1>2 DEF Covered

(* Where a call can lead, and what adding a value to a stat gives.         *)
LEMMA AfterCallType ==
    \A call : AfterCall(call) \subseteq Counters \cup Stats \cup {"idle"}
BY DEF AfterCall, Counters, Stats

LEMMA AddType ==
    ASSUME NEW stat \in Stat, NEW v \in Values
    PROVE  /\ Counted(stat, v) \in Stat
           /\ Counted(stat, v).count = stat.count + 1
           /\ Ranged(stat, v) \in Stat
           /\ Ranged(stat, v).count = stat.count
<1>1. v \in Nat \ {0} /\ v < Infinity
  BY MetricsAssumption
<1>2. Smaller(stat.min, v) \in 1 .. Infinity /\ Larger(stat.max, v) \in Nat
  BY <1>1, MetricsAssumption DEF Stat, Smaller, Larger
<1>3. Ranged(stat, v) \in Stat /\ Ranged(stat, v).count = stat.count
  BY <1>2 DEF Stat, Ranged
<1>4. /\ Counted(stat, v) \in Stat
      /\ Counted(stat, v).count = stat.count + 1
  <2>1. stat.count + 1 \in Nat /\ stat.total + v \in Nat
    BY <1>1 DEF Stat
  <2>2. QED
    BY <2>1 DEF Stat, Counted
<1>5. QED
  BY <1>3, <1>4

(* What a stat is after an add, both steps of it.                          *)
LEMMA SummaryOfNone == Summary(<<>>) = NewStats
BY SumOfNone DEF Summary, NewStats

LEMMA SummaryOfAppend ==
    ASSUME NEW vs \in Seq(Values), NEW v \in Values
    PROVE  Summary(Append(vs, v)) = Ranged(Counted(Summary(vs), v), v)
<1>1. /\ Values \subseteq Nat /\ Infinity \in Nat
      /\ \A w \in Values : w < Infinity /\ w > 0
  BY MetricsAssumption
<1>2. vs \in Seq(Nat) /\ v \in Nat
  BY <1>1, SeqMonotonic
<1>3. PICK ws : ws = Append(vs, v)
  OBVIOUS
<1>4. /\ ws # <<>> /\ Len(ws) = Len(vs) + 1
      /\ SumFunction(ws) = SumFunction(vs) + v
  BY <1>2, <1>3, AppendProperties, SumOfAppend
<1>5. PICK T, U : T = Range(vs) /\ U = Range(ws)
  OBVIOUS
<1>6. /\ U = T \cup {v} /\ T \subseteq Values
      /\ vs # <<>> => T # {}
      /\ vs = <<>> => T = {}
  BY <1>3, <1>5, RangeOfAppend
<1>7. PICK least, greatest :
         /\ least = CHOOSE x \in U : \A w \in U : x <= w
         /\ greatest = CHOOSE x \in U : \A w \in U : x >= w
  OBVIOUS
<1>8. /\ least \in U /\ \A w \in U : least <= w
      /\ greatest \in U /\ \A w \in U : greatest >= w
  <2>1. U \subseteq Nat /\ U # {} /\ \A w \in U : w <= Infinity
    BY <1>1, <1>6
  <2>2. QED
    BY <1>1, <1>7, <2>1, LeastOf, GreatestOf
<1>9. Summary(ws).min = Smaller(Summary(vs).min, v)
  <2>1. Summary(ws).min = least
    BY <1>4, <1>5, <1>7 DEF Summary
  <2>2. CASE vs = <<>>
    <3>1. Summary(vs).min = Infinity /\ U = {v}
      BY <1>6, <2>2 DEF Summary
    <3>2. QED
      BY <1>1, <1>8, <2>1, <3>1 DEF Smaller
  <2>3. CASE vs # <<>>
    <3>1. PICK m : m = CHOOSE x \in T : \A w \in T : x <= w
      OBVIOUS
    <3>2. Summary(vs).min = m
      BY <1>5, <2>3, <3>1 DEF Summary
    <3>3. m \in T /\ \A w \in T : m <= w
      BY <1>1, <1>6, <2>3, <3>1, LeastOf
    <3>4. QED
      BY <1>1, <1>6, <1>8, <2>1, <3>2, <3>3 DEF Smaller
  <2>4. QED
    BY <2>2, <2>3
<1>10. Summary(ws).max = Larger(Summary(vs).max, v)
  <2>1. Summary(ws).max = greatest
    BY <1>4, <1>5, <1>7 DEF Summary
  <2>2. CASE vs = <<>>
    <3>1. Summary(vs).max = 0 /\ U = {v}
      BY <1>6, <2>2 DEF Summary
    <3>2. QED
      BY <1>1, <1>8, <2>1, <3>1 DEF Larger
  <2>3. CASE vs # <<>>
    <3>1. PICK m : m = CHOOSE x \in T : \A w \in T : x >= w
      OBVIOUS
    <3>2. Summary(vs).max = m
      BY <1>5, <2>3, <3>1 DEF Summary
    <3>3. T \subseteq Nat /\ T # {} /\ \A w \in T : w <= Infinity
      BY <1>1, <1>6, <2>3
    <3>4. m \in T /\ \A w \in T : m >= w
      BY <1>1, <3>1, <3>3, GreatestOf
    <3>5. QED
      BY <1>1, <1>6, <1>8, <2>1, <3>2, <3>4 DEF Larger
  <2>4. QED
    BY <2>2, <2>3
<1>11. /\ Summary(ws).count = Summary(vs).count + 1
       /\ Summary(ws).total = Summary(vs).total + v
  BY <1>4 DEF Summary
<1>12. PICK a, b : a = Summary(vs) /\ b = Summary(ws)
  OBVIOUS
<1>13. b = [count |-> b.count, total |-> b.total,
            min |-> b.min, max |-> b.max]
  BY <1>12 DEF Summary
<1>14. b = Ranged(Counted(a, v), v)
  <2>1. PICK p, q, x, y : a = [count |-> p, total |-> q, min |-> x, max |-> y]
    BY <1>12 DEF Summary
  <2>2. PICK c : c = Counted(a, v)
    OBVIOUS
  <2>3. c = [count |-> p + 1, total |-> q + v, min |-> x, max |-> y]
    BY <2>1, <2>2 DEF Counted
  <2>4. Ranged(c, v) =
           [count |-> p + 1, total |-> q + v,
            min |-> Smaller(x, v), max |-> Larger(y, v)]
    <3>1. PICK i, j : i = Smaller(x, v) /\ j = Larger(y, v)
      OBVIOUS
    <3>2. Ranged(c, v) = [c EXCEPT !.min = i, !.max = j]
      BY <2>3, <3>1 DEF Ranged
    <3>3. PICK d, e :
             /\ d = [c EXCEPT !.min = i, !.max = j]
             /\ e = [count |-> p + 1, total |-> q + v, min |-> i, max |-> j]
      OBVIOUS
    <3>4. DOMAIN d = DOMAIN e
      BY <2>3, <3>3
    <3>5. d["count"] = e["count"] /\ d["total"] = e["total"]
      BY <2>3, <3>3
    <3>6. d["min"] = e["min"] /\ d["max"] = e["max"]
      BY <2>3, <3>3
    <3>7. d = e
      BY <2>3, <3>3, <3>4, <3>5, <3>6, Zenon
    <3>8. QED
      BY <3>1, <3>2, <3>3, <3>7
  <2>5. /\ b.count = p + 1 /\ b.total = q + v
        /\ b.min = Smaller(x, v) /\ b.max = Larger(y, v)
    BY <1>9, <1>10, <1>11, <1>12, <2>1
  <2>6. QED
    BY <1>13, <2>2, <2>4, <2>5
<1>15. QED
  BY <1>3, <1>12, <1>14

-----------------------------------------------------------------------------
(* The initial states.                                                     *)
LEMMA InitIInv == Init => IInv
<1> SUFFICES ASSUME Init PROVE IInv
  OBVIOUS
<1> USE MetricsAssumption DEF Init, Threads, Counters, Stats, Calls
<1>1. NewStats \in Stat
  BY DEF NewStats, Stat
<1>2. TypeOK
  <2>1. NoPage \in [counters : [Counters -> Nat], stats : [Stats -> Stat]]
    BY <1>1 DEF NoPage
  <2>2. page \in [Pages -> [counters : [Counters -> Nat],
                            stats    : [Stats -> Stat]]]
    BY <2>1
  <2>3. seen \in [Stats -> Seq(Values)]
    OBVIOUS
  <2>4. QED
    BY <1>1, <2>2, <2>3 DEF TypeOK
<1>3. Places /\ Mutex /\ ValueInv /\ CountersExact /\ PageInv /\ StatsExact
  BY DEF Places, Mutex, ValueInv, CountersExact, PageInv, StatsExact
<1>4. OwedInv
  <2>1. /\ AtCounter("messages_processed") = {}
        /\ AtCounter("messages_forwarded") = {}
        /\ AtForward = {}
        /\ AtPayload = {}
    BY DEF AtCounter, AtForward, AtPayload
  <2>2. Cardinality({}) = 0
    BY FS_EmptySet
  <2>3. /\ counters["messages_received"] = 0
        /\ counters["messages_processed"] = 0
        /\ counters["messages_forwarded"] = 0
        /\ stats["forward_s"].count = 0
        /\ stats["payload_bytes"].count = 0
    BY DEF NewStats
  <2>4. Covered(0, {}, 0)
    BY <2>2 DEF Covered
  <2>5. QED
    BY <2>1, <2>3, <2>4 DEF OwedInv
<1>5. StatsInv
  BY SummaryOfNone DEF StatsInv, Adding
<1>6. QED
  BY <1>2, <1>3, <1>4, <1>5 DEF IInv

-----------------------------------------------------------------------------
(* Types are preserved.                                                    *)
LEMMA TypeStep ==
    ASSUME IInv, [Next]_vars
    PROVE  TypeOK'
<1> USE MetricsAssumption DEF IInv, TypeOK, Threads, shared, local
<1>1. ASSUME NEW h \in Handlers, NextMessage(h) PROVE TypeOK'
  BY <1>1 DEF NextMessage, Calls, Counters
<1>2. ASSUME NEW p \in Pages, Request(p) PROVE TypeOK'
  <2>1. NoPage \in [counters : [Counters -> Nat], stats : [Stats -> Stat]]
    BY DEF NoPage, NewStats, Stat
  <2>2. QED
    BY <1>2, <2>1 DEF Request, Calls
<1>3. ASSUME NEW t \in Threads, Acquire(t) PROVE TypeOK'
  BY <1>3 DEF Acquire
<1>4. ASSUME NEW h \in Handlers, GetCounter(h) PROVE TypeOK'
  BY <1>4 DEF GetCounter, Half
<1>5. ASSUME NEW h \in Handlers, SetCounter(h) PROVE TypeOK'
  BY <1>5, AfterCallType DEF SetCounter, Return, Calls
<1>6. ASSUME NEW h \in Handlers, AddTotal(h) PROVE TypeOK'
  <2>1. PICK v \in Values :
           /\ value' = [value EXCEPT ![h] = v]
           /\ stats' = [stats EXCEPT ![stage[h]] = Counted(@, v)]
           /\ seen' = [seen EXCEPT ![stage[h]] = Append(@, v)]
    BY <1>6 DEF AddTotal
  <2>2. stats' \in [Stats -> Stat]
    BY <1>6, <2>1, AddType DEF AddTotal
  <2>3. seen' \in [Stats -> Seq(Values)]
    BY <1>6, <2>1 DEF AddTotal
  <2>4. QED
    BY <1>6, <2>1, <2>2, <2>3 DEF AddTotal, Half
<1>7. ASSUME NEW h \in Handlers, AddRange(h) PROVE TypeOK'
  <2>1. value[h] \in Values
    BY <1>7 DEF AddRange, ValueInv
  <2>2. stats' \in [Stats -> Stat]
    BY <1>7, <2>1, AddType DEF AddRange
  <2>3. QED
    BY <1>7, <2>2, AfterCallType DEF AddRange, Return, Calls
<1>8. ASSUME NEW p \in Pages, CopyForward(p) \/ CopyPayload(p) PROVE TypeOK'
  <2>1. PICK n \in Stats :
           page' = [page EXCEPT ![p].stats[n] = stats[n]]
    BY <1>8 DEF CopyForward, CopyPayload, CopyStat, Stats
  <2>2. page'[p].stats \in [Stats -> Stat]
    BY <2>1
  <2>3. page' \in [Pages -> [counters : [Counters -> Nat],
                             stats    : [Stats -> Stat]]]
    BY <2>1, <2>2
  <2>4. QED
    BY <1>8, <2>3 DEF CopyForward, CopyPayload, CopyStat
<1>9. ASSUME NEW p \in Pages, CopyCounters(p) PROVE TypeOK'
  BY <1>9 DEF CopyCounters, Return, Calls
<1>10. CASE UNCHANGED vars
  BY <1>10 DEF vars
<1>11. QED
  BY <1>1, <1>2, <1>3, <1>4, <1>5, <1>6, <1>7, <1>8, <1>9, <1>10
     DEF Next, Handler, Http

(* Threads stay in their places, and the lock keeps others out.            *)
LEMMA PlaceStep ==
    ASSUME IInv, [Next]_vars
    PROVE  Places' /\ Mutex'
<1> USE MetricsAssumption DEF IInv, TypeOK, Threads, shared, local, Places,
   Mutex, Calls, Counters, Stats
<1>1. ASSUME NEW h \in Handlers, NextMessage(h) PROVE Places' /\ Mutex'
  BY <1>1, SMTT(30) DEF NextMessage
<1>2. ASSUME NEW p \in Pages, Request(p) PROVE Places' /\ Mutex'
  BY <1>2, SMTT(30) DEF Request
<1>3. ASSUME NEW t \in Threads, Acquire(t) PROVE Places' /\ Mutex'
  BY <1>3 DEF Acquire, Free
<1>4. ASSUME NEW h \in Handlers, GetCounter(h) PROVE Places' /\ Mutex'
  BY <1>4 DEF GetCounter, Half
<1>5. ASSUME NEW h \in Handlers, SetCounter(h) \/ AddRange(h)
      PROVE  Places' /\ Mutex'
  <2>1. PICK next \in AfterCall(stage[h]) : Return(h, next)
    BY <1>5 DEF SetCounter, AddRange
  <2>2. at[h] = "half"
    BY <1>5 DEF SetCounter, AddRange
  <2>3. \A t \in Threads : at'[t] = "outside"
    BY <2>1, <2>2 DEF Return
  <2>4. next \in Counters \cup Stats \cup {"idle"}
    BY AfterCallType
  <2>5. QED
    BY <2>1, <2>3, <2>4, SMTT(30) DEF Return
<1>6. ASSUME NEW h \in Handlers, AddTotal(h) PROVE Places' /\ Mutex'
  BY <1>6 DEF AddTotal, Half
<1>7. ASSUME NEW p \in Pages, CopyForward(p) \/ CopyPayload(p)
      PROVE  Places' /\ Mutex'
  BY <1>7 DEF CopyForward, CopyPayload, CopyStat
<1>8. ASSUME NEW p \in Pages, CopyCounters(p) PROVE Places' /\ Mutex'
  BY <1>8 DEF CopyCounters, Return
<1>9. CASE UNCHANGED vars
  BY <1>9 DEF vars
<1>10. QED
  BY <1>1, <1>2, <1>3, <1>4, <1>5, <1>6, <1>7, <1>8, <1>9
     DEF Next, Handler, Http

(* What a handler has read stays true under the lock, and so inc counts.   *)
LEMMA ValueStep ==
    ASSUME IInv, [Next]_vars
    PROVE  ValueInv' /\ CountersExact'
<1> USE MetricsAssumption DEF IInv, TypeOK, Threads, shared, local, Places,
   Mutex, ValueInv, CountersExact
<1>1. Counters \cap Stats = {}
  BY DEF Counters, Stats
<1>2. ASSUME NEW h \in Handlers, NextMessage(h)
      PROVE  ValueInv' /\ CountersExact'
  <2>1. at[h] # "half"
    BY <1>2 DEF NextMessage, Calls, Counters, Stats
  <2>2. QED
    BY <1>2, <2>1 DEF NextMessage
<1>3. ASSUME NEW p \in Pages,
             Request(p) \/ CopyForward(p) \/ CopyPayload(p)
      PROVE  ValueInv' /\ CountersExact'
  BY <1>3 DEF Request, CopyForward, CopyPayload, CopyStat
<1>4. ASSUME NEW t \in Threads, Acquire(t)
      PROVE  ValueInv' /\ CountersExact'
  BY <1>4 DEF Acquire
<1>5. ASSUME NEW h \in Handlers, GetCounter(h)
      PROVE  ValueInv' /\ CountersExact'
  BY <1>1, <1>5 DEF GetCounter, Half
<1>6. ASSUME NEW h \in Handlers, SetCounter(h)
      PROVE  ValueInv' /\ CountersExact'
  <2>1. \A g \in Handlers \ {h} : at[g] # "half"
    BY <1>6 DEF SetCounter
  <2>2. \A g \in Handlers : at'[g] # "half"
    BY <1>6, <2>1 DEF SetCounter, Return
  <2>3. CountersExact'
    BY <1>6 DEF SetCounter
  <2>4. QED
    BY <2>2, <2>3
<1>7. ASSUME NEW h \in Handlers, AddTotal(h)
      PROVE  ValueInv' /\ CountersExact'
  BY <1>1, <1>7 DEF AddTotal, Half
<1>8. ASSUME NEW h \in Handlers, AddRange(h)
      PROVE  ValueInv' /\ CountersExact'
  <2>1. \A g \in Handlers \ {h} : at[g] # "half"
    BY <1>8 DEF AddRange
  <2>2. \A g \in Handlers : at'[g] # "half"
    BY <1>8, <2>1 DEF AddRange, Return
  <2>3. QED
    BY <1>8, <2>2 DEF AddRange
<1>9. ASSUME NEW p \in Pages, CopyCounters(p)
      PROVE  ValueInv' /\ CountersExact'
  BY <1>9 DEF CopyCounters, Return
<1>10. CASE UNCHANGED vars
  BY <1>10 DEF vars
<1>11. QED
  BY <1>2, <1>3, <1>4, <1>5, <1>6, <1>7, <1>8, <1>9, <1>10
     DEF Next, Handler, Http

-----------------------------------------------------------------------------
(* No stage is ahead of the one before it.                                 *)

(* What the invariant speaks of.                                           *)
Owing == <<AtCounter("messages_processed"), AtCounter("messages_forwarded"),
           AtForward, AtPayload>>

LEMMA SameOwing ==
    ASSUME OwedInv, UNCHANGED Owing, UNCHANGED counters,
           \A n \in Stats : stats'[n].count = stats[n].count
    PROVE  OwedInv'
BY DEF OwedInv, Owing, Covered, Stats

(* inc, by the counter.                                                    *)
LEMMA SetOwed ==
    ASSUME IInv, NEW h \in Handlers, SetCounter(h)
    PROVE  OwedInv'
<1> DEFINE P == AtCounter("messages_processed")
           F == AtCounter("messages_forwarded")
<1> USE DEF IInv, TypeOK, Threads
<1>1. PICK next \in AfterCall(stage[h]) : Return(h, next)
  BY DEF SetCounter
<1>2. /\ counters' = [counters EXCEPT ![stage[h]] = @ + 1]
      /\ stage[h] \in Counters
      /\ at[h] = "half"
      /\ UNCHANGED stats
  BY DEF SetCounter, ValueInv
<1>3. /\ stage' = [stage EXCEPT ![h] = next]
      /\ at' = [at EXCEPT ![h] = "outside"]
  BY <1>1 DEF Return
<1>4. /\ counters["messages_received"] \in Nat
      /\ counters["messages_processed"] \in Nat
      /\ counters["messages_forwarded"] \in Nat
      /\ stats["forward_s"].count \in Nat
  BY DEF Counters, Stats, Stat
<1>5. /\ P \in SUBSET Handlers
      /\ F \in SUBSET Handlers
      /\ AtForward \in SUBSET Handlers
  BY DEF AtCounter, AtForward
<1>6. /\ Covered(counters["messages_processed"], P,
                 counters["messages_received"])
      /\ Covered(counters["messages_forwarded"], F,
                 counters["messages_processed"])
      /\ Covered(stats["forward_s"].count, AtForward,
                 counters["messages_forwarded"])
  BY DEF OwedInv
<1> HIDE DEF P, F
<1>7. CASE stage[h] = "messages_received"
  <2>1. next \in {"messages_processed", "messages_rejected"}
    BY <1>7 DEF AfterCall
  <2>2. F' = F /\ AtForward' = AtForward /\ AtPayload' = AtPayload
    BY <1>3, <1>7, <2>1 DEF F, AtCounter, AtForward, AtPayload
  <2>3. P' \in {P, P \cup {h}}
    BY <1>3, <1>7, <2>1 DEF P, AtCounter
  <2>4. Covered(counters["messages_processed"], P',
                counters["messages_received"] + 1)
    <3>1. Covered(counters["messages_processed"], P \cup {h},
                  counters["messages_received"] + 1)
      BY <1>4, <1>5, <1>6, Owes
    <3>2. Covered(counters["messages_processed"], P,
                  counters["messages_received"] + 1)
      BY <1>4, <1>5, <1>6, CoveredMore
    <3>3. QED
      BY <2>3, <3>1, <3>2
  <2>5. /\ counters'["messages_received"]
              = counters["messages_received"] + 1
        /\ counters'["messages_processed"] = counters["messages_processed"]
        /\ counters'["messages_forwarded"] = counters["messages_forwarded"]
    BY <1>2, <1>7 DEF Counters
  <2>6. QED
    BY <1>2, <2>2, <1>6, <2>4, <2>5
       DEF OwedInv, P, F, Covered
<1>8. CASE stage[h] = "messages_processed"
  <2>1. next \in {"messages_forwarded", "errors"}
    BY <1>8 DEF AfterCall
  <2>2. AtForward' = AtForward /\ AtPayload' = AtPayload
    BY <1>3, <1>8, <2>1 DEF AtCounter, AtForward, AtPayload
  <2>3. h \in P /\ P' = P \ {h} /\ F' \in {F, F \cup {h}}
    BY <1>3, <1>8, <2>1 DEF P, F, AtCounter
  <2>4. /\ Covered(counters["messages_processed"] + 1, P',
                   counters["messages_received"])
        /\ Covered(counters["messages_forwarded"], F',
                   counters["messages_processed"] + 1)
    <3>1. Covered(counters["messages_processed"] + 1, P \ {h},
                  counters["messages_received"])
      BY <1>4, <1>5, <1>6, <2>3, Pays
    <3>2. Covered(counters["messages_forwarded"], F \cup {h},
                  counters["messages_processed"] + 1)
      BY <1>4, <1>5, <1>6, Owes
    <3>3. Covered(counters["messages_forwarded"], F,
                  counters["messages_processed"] + 1)
      BY <1>4, <1>5, <1>6, CoveredMore
    <3>4. QED
      BY <2>3, <3>1, <3>2, <3>3
  <2>5. /\ counters'["messages_received"] = counters["messages_received"]
        /\ counters'["messages_processed"]
              = counters["messages_processed"] + 1
        /\ counters'["messages_forwarded"] = counters["messages_forwarded"]
    BY <1>2, <1>8 DEF Counters
  <2>6. QED
    BY <1>2, <2>2, <1>6, <2>4, <2>5
       DEF OwedInv, P, F, Covered
<1>9. CASE stage[h] = "messages_forwarded"
  <2>1. next = "forward_s"
    BY <1>9 DEF AfterCall
  <2>2. P' = P /\ AtPayload' = AtPayload
    BY <1>2, <1>3, <1>9, <2>1 DEF P, AtCounter, AtPayload
  <2>3. h \in F /\ F' = F \ {h} /\ AtForward' = AtForward \cup {h}
    BY <1>3, <1>9, <2>1 DEF F, AtCounter, AtForward
  <2>4. /\ Covered(counters["messages_forwarded"] + 1, F',
                   counters["messages_processed"])
        /\ Covered(stats["forward_s"].count, AtForward',
                   counters["messages_forwarded"] + 1)
    <3>1. Covered(counters["messages_forwarded"] + 1, F \ {h},
                  counters["messages_processed"])
      BY <1>4, <1>5, <1>6, <2>3, Pays
    <3>2. Covered(stats["forward_s"].count, AtForward \cup {h},
                  counters["messages_forwarded"] + 1)
      BY <1>4, <1>5, <1>6, Owes
    <3>3. QED
      BY <2>3, <3>1, <3>2
  <2>5. /\ counters'["messages_received"] = counters["messages_received"]
        /\ counters'["messages_processed"] = counters["messages_processed"]
        /\ counters'["messages_forwarded"]
              = counters["messages_forwarded"] + 1
    BY <1>2, <1>9 DEF Counters
  <2>6. QED
    BY <1>2, <2>2, <1>6, <2>4, <2>5
       DEF OwedInv, P, F, Covered
<1>10. CASE stage[h] \in {"messages_rejected", "errors"}
  <2>1. next = "idle"
    BY <1>10 DEF AfterCall
  <2>2. UNCHANGED Owing
    BY <1>3, <1>10, <2>1 DEF Owing, AtCounter, AtForward, AtPayload
  <2>3. /\ counters'["messages_received"] = counters["messages_received"]
        /\ counters'["messages_processed"] = counters["messages_processed"]
        /\ counters'["messages_forwarded"] = counters["messages_forwarded"]
    BY <1>2, <1>10 DEF Counters
  <2>4. QED
    BY <1>2, <2>2, <2>3 DEF OwedInv, Owing, Covered
<1>11. QED
  BY <1>2, <1>7, <1>8, <1>9, <1>10 DEF Counters

(* observe, by the stat.                                                   *)
LEMMA AddOwed ==
    ASSUME IInv, NEW h \in Handlers, AddTotal(h)
    PROVE  OwedInv'
<1> USE DEF IInv, TypeOK, Threads
<1>1. PICK v \in Values :
         stats' = [stats EXCEPT ![stage[h]] = Counted(@, v)]
  BY DEF AddTotal
<1>2. /\ stage[h] \in Stats
      /\ at[h] = "inside"
      /\ at' = [at EXCEPT ![h] = "half"]
      /\ UNCHANGED <<stage, counters>>
  BY DEF AddTotal, Half
<1>3. /\ stats'[stage[h]].count = stats[stage[h]].count + 1
      /\ \A n \in Stats \ {stage[h]} : stats'[n].count = stats[n].count
  BY <1>1, <1>2, AddType
<1>4. /\ counters["messages_forwarded"] \in Nat
      /\ stats["forward_s"].count \in Nat
      /\ stats["payload_bytes"].count \in Nat
  BY DEF Counters, Stats, Stat
<1>5. AtForward \in SUBSET Handlers /\ AtPayload \in SUBSET Handlers
  BY DEF AtForward, AtPayload
<1>6. /\ AtCounter("messages_processed")' = AtCounter("messages_processed")
      /\ AtCounter("messages_forwarded")' = AtCounter("messages_forwarded")
  BY <1>2 DEF AtCounter
<1>7. CASE stage[h] = "forward_s"
  <2>1. /\ h \in AtForward
        /\ AtForward' = AtForward \ {h}
        /\ AtPayload' = AtPayload \cup {h}
    BY <1>2, <1>7 DEF AtForward, AtPayload
  <2>2. /\ Covered(stats["forward_s"].count + 1, AtForward',
                   counters["messages_forwarded"])
        /\ Covered(stats["payload_bytes"].count, AtPayload',
                   stats["forward_s"].count + 1)
    BY <1>4, <1>5, <2>1, Pays, Owes DEF OwedInv
  <2>3. /\ stats'["forward_s"].count = stats["forward_s"].count + 1
        /\ stats'["payload_bytes"].count = stats["payload_bytes"].count
    BY <1>3, <1>7 DEF Stats
  <2>4. QED
    BY <1>2, <1>6, <2>2, <2>3 DEF OwedInv, Covered
<1>8. CASE stage[h] = "payload_bytes"
  <2>1. /\ h \in AtPayload
        /\ AtForward' = AtForward
        /\ AtPayload' = AtPayload \ {h}
    BY <1>2, <1>8 DEF AtForward, AtPayload
  <2>2. Covered(stats["payload_bytes"].count + 1, AtPayload',
                stats["forward_s"].count)
    BY <1>4, <1>5, <2>1, Pays DEF OwedInv
  <2>3. /\ stats'["forward_s"].count = stats["forward_s"].count
        /\ stats'["payload_bytes"].count
              = stats["payload_bytes"].count + 1
    BY <1>3, <1>8 DEF Stats
  <2>4. QED
    BY <1>2, <1>6, <2>1, <2>2, <2>3 DEF OwedInv, Covered
<1>9. QED
  BY <1>2, <1>7, <1>8 DEF Stats

LEMMA OwedStep ==
    ASSUME IInv, [Next]_vars
    PROVE  OwedInv'
<1> USE MetricsAssumption DEF IInv, TypeOK, Threads, shared, local
<1> DEFINE Same == /\ UNCHANGED Owing
                   /\ UNCHANGED counters
                   /\ \A n \in Stats : stats'[n].count = stats[n].count
<1>1. ASSUME NEW h \in Handlers, NextMessage(h) PROVE Same
  BY <1>1 DEF NextMessage, Owing, AtCounter, AtForward, AtPayload
<1>2. ASSUME NEW p \in Pages, Request(p) PROVE Same
  BY <1>2 DEF Request, Owing, AtCounter, AtForward, AtPayload
<1>3. ASSUME NEW t \in Threads, Acquire(t) PROVE Same
  BY <1>3 DEF Acquire, Owing, AtCounter, AtForward, AtPayload
<1>4. ASSUME NEW h \in Handlers, GetCounter(h) PROVE Same
  BY <1>4 DEF GetCounter, Half, Counters, Owing, AtCounter, AtForward,
     AtPayload
<1>5. ASSUME NEW h \in Handlers, AddRange(h) PROVE Same
  <2>1. PICK next \in AfterCall(stage[h]) : Return(h, next)
    BY <1>5 DEF AddRange
  <2>2. UNCHANGED counters /\ \A n \in Stats : stats'[n].count = stats[n].count
    BY <1>5, AddType DEF AddRange, ValueInv
  <2>3. \/ stage[h] = "forward_s" /\ next = "payload_bytes"
        \/ stage[h] = "payload_bytes" /\ next = "idle"
    BY <1>5 DEF AddRange, AfterCall, Stats
  <2>4. at[h] = "half"
    BY <1>5 DEF AddRange
  <2>5. UNCHANGED Owing
    BY <2>1, <2>3, <2>4 DEF Return, Owing, AtCounter, AtForward, AtPayload
  <2>6. QED
    BY <2>2, <2>5
<1>6. ASSUME NEW p \in Pages, CopyForward(p) \/ CopyPayload(p) PROVE Same
  BY <1>6 DEF CopyForward, CopyPayload, CopyStat, Owing, AtCounter,
     AtForward, AtPayload
<1>7. ASSUME NEW p \in Pages, CopyCounters(p) PROVE Same
  BY <1>7 DEF CopyCounters, Return, Owing, AtCounter, AtForward, AtPayload
<1>8. ASSUME UNCHANGED vars PROVE Same
  BY <1>8 DEF vars, Owing, AtCounter, AtForward, AtPayload
<1>9. ASSUME Same PROVE OwedInv'
  BY <1>9, SameOwing
<1> HIDE DEF Same
<1>10. QED
  BY <1>1, <1>2, <1>3, <1>4, <1>5, <1>6, <1>7, <1>8, <1>9, SetOwed, AddOwed
     DEF Next, Handler, Http

-----------------------------------------------------------------------------
(* Pages.                                                                  *)

(* The counters and stats are in order at any time.                        *)
LEMMA InOrder ==
    ASSUME TypeOK, OwedInv
    PROVE  /\ stats["payload_bytes"].count <= stats["forward_s"].count
           /\ stats["forward_s"].count <= counters["messages_forwarded"]
           /\ counters["messages_forwarded"]
                 <= counters["messages_processed"]
           /\ counters["messages_processed"] <= counters["messages_received"]
<1>1. /\ counters["messages_received"] \in Nat
      /\ counters["messages_processed"] \in Nat
      /\ counters["messages_forwarded"] \in Nat
      /\ stats["forward_s"].count \in Nat
      /\ stats["payload_bytes"].count \in Nat
  BY DEF TypeOK, Counters, Stats, Stat
<1>2. /\ AtCounter("messages_processed") \in SUBSET Handlers
      /\ AtCounter("messages_forwarded") \in SUBSET Handlers
      /\ AtForward \in SUBSET Handlers
      /\ AtPayload \in SUBSET Handlers
  BY DEF AtCounter, AtForward, AtPayload
<1>3. QED
  BY <1>1, <1>2, CoveredMore DEF OwedInv

LEMMA PageStep ==
    ASSUME IInv, [Next]_vars
    PROVE  PageInv'
<1> USE MetricsAssumption DEF IInv, TypeOK, Threads, shared, local, Places,
   PageInv
<1>1. ASSUME NEW h \in Handlers, NextMessage(h) PROVE PageInv'
  BY <1>1 DEF NextMessage
<1>2. ASSUME NEW p \in Pages, Request(p) PROVE PageInv'
  <2>1. at[p] = "outside"
    BY <1>2 DEF Request, Calls, Counters, Stats
  <2>2. QED
    BY <1>2, <2>1 DEF Request
<1>3. ASSUME NEW t \in Threads, Acquire(t) PROVE PageInv'
  BY <1>3 DEF Acquire
<1>4. ASSUME NEW h \in Handlers, GetCounter(h) PROVE PageInv'
  BY <1>4 DEF GetCounter, Half
<1>5. ASSUME NEW h \in Handlers, SetCounter(h) PROVE PageInv'
  BY <1>5 DEF SetCounter, Return
<1>6. ASSUME NEW h \in Handlers, AddTotal(h) \/ AddRange(h) PROVE PageInv'
  <2>1. at[h] # "outside"
    BY <1>6 DEF AddTotal, AddRange, Half
  <2>2. \A p \in Pages : at[p] = "outside" /\ at'[p] = "outside"
    BY <1>6, <2>1 DEF AddTotal, AddRange, Half, Return, Mutex
  <2>3. \A p \in Pages : stage'[p] = stage[p] /\ page'[p] = page[p]
    BY <1>6 DEF AddTotal, AddRange, Return
  <2>4. QED
    BY <2>2, <2>3
<1>7. ASSUME NEW p \in Pages, CopyForward(p) PROVE PageInv'
  <2>1. \A q \in Pages \ {p} : at[q] = "outside" /\ at'[q] = "outside"
    BY <1>7 DEF CopyForward, CopyStat, Mutex
  <2>2. page'[p].stats["forward_s"] = stats["forward_s"]
    BY <1>7 DEF CopyForward, CopyStat, Stats
  <2>3. QED
    BY <1>7, <2>1, <2>2 DEF CopyForward, CopyStat
<1>8. ASSUME NEW p \in Pages, CopyPayload(p) PROVE PageInv'
  <2>1. \A q \in Pages \ {p} : at[q] = "outside" /\ at'[q] = "outside"
    BY <1>8 DEF CopyPayload, CopyStat, Mutex
  <2>2. /\ page'[p].stats["forward_s"] = stats["forward_s"]
        /\ page'[p].stats["payload_bytes"] = stats["payload_bytes"]
    BY <1>8 DEF CopyPayload, CopyStat, Stats
  <2>3. QED
    BY <1>8, <2>1, <2>2 DEF CopyPayload, CopyStat
<1>9. ASSUME NEW p \in Pages, CopyCounters(p) PROVE PageInv'
  <2>1. /\ page'[p].counters = counters
        /\ page'[p].stats["forward_s"] = stats["forward_s"]
        /\ page'[p].stats["payload_bytes"] = stats["payload_bytes"]
    BY <1>9 DEF CopyCounters
  <2>2. Ordered(page'[p])
    BY <2>1, InOrder DEF Ordered
  <2>3. \A q \in Pages \ {p} : /\ page'[q] = page[q]
                                /\ stage'[q] = stage[q]
                                /\ at'[q] = at[q]
    BY <1>9 DEF CopyCounters, Return
  <2>4. stage'[p] = "shown"
    BY <1>9 DEF CopyCounters, Return
  <2>5. UNCHANGED stats
    BY <1>9 DEF CopyCounters
  <2>6. QED
    BY <2>2, <2>3, <2>4, <2>5
<1>10. CASE UNCHANGED vars
  BY <1>10 DEF vars
<1>11. QED
  BY <1>1, <1>2, <1>3, <1>4, <1>5, <1>6, <1>7, <1>8, <1>9, <1>10
     DEF Next, Handler, Http

-----------------------------------------------------------------------------
(* Stats.                                                                  *)

(* What a sequence was before its last value.                              *)
LEMMA BeforeAppend ==
    ASSUME NEW S, NEW vs \in Seq(S), NEW v \in S
    PROVE  Before(Append(vs, v)) = vs
<1>1. PICK ws : ws = Append(vs, v)
  OBVIOUS
<1>2. /\ ws \in Seq(S) /\ Len(ws) = Len(vs) + 1 /\ Len(vs) \in Nat
      /\ \A i \in 1 .. Len(vs) : ws[i] = vs[i] /\ ws[i] \in S
  BY <1>1, AppendProperties
<1>3. PICK us : us = SubSeq(ws, 1, Len(vs))
  OBVIOUS
<1>4. /\ us \in Seq(S) /\ Len(us) = Len(vs)
      /\ \A i \in 1 .. Len(vs) : us[i] = ws[i]
  BY <1>2, <1>3, SubSeqProperties
<1>5. us = vs
  BY <1>2, <1>4, SeqEqual
<1>6. Len(ws) - 1 = Len(vs)
  BY <1>2
<1>7. QED
  BY <1>1, <1>3, <1>5, <1>6 DEF Before

LEMMA BeforeType ==
    ASSUME NEW S, NEW vs \in Seq(S)
    PROVE  Before(vs) \in Seq(S)
<1>1. \A i \in 1 .. Len(vs) - 1 : vs[i] \in S
  BY ElementOfSeq
<1>2. 1 \in Int /\ Len(vs) - 1 \in Int
  OBVIOUS
<1>3. QED
  BY <1>1, <1>2, SubSeqProperties DEF Before

(* A sequence that grows keeps its first values.                           *)
LEMMA PrefixOfAppend ==
    ASSUME NEW S, NEW vs \in Seq(S), NEW v \in S, NEW k \in 0 .. Len(vs)
    PROVE  SubSeq(Append(vs, v), 1, k) = SubSeq(vs, 1, k)
<1>1. PICK ws : ws = Append(vs, v)
  OBVIOUS
<1>2. /\ Len(vs) \in Nat
      /\ \A i \in 1 .. k : vs[i] \in S /\ ws[i] \in S /\ ws[i] = vs[i]
  BY <1>1, AppendProperties
<1>3. PICK us, xs : us = SubSeq(vs, 1, k) /\ xs = SubSeq(ws, 1, k)
  OBVIOUS
<1>4. /\ us \in Seq(S) /\ Len(us) = k /\ \A i \in 1 .. k : us[i] = vs[i]
      /\ xs \in Seq(S) /\ Len(xs) = k /\ \A i \in 1 .. k : xs[i] = ws[i]
  BY <1>2, <1>3, SubSeqProperties
<1>5. QED
  BY <1>1, <1>2, <1>3, <1>4, SeqEqual

(* The steps that no stat notices.                                         *)
LEMMA StatsSame ==
    ASSUME StatsInv, UNCHANGED <<stats, seen>>,
           \A h \in Handlers : \A name \in Stats :
              /\ Adding(h, name)' <=> Adding(h, name)
              /\ Adding(h, name) => value'[h] = value[h]
    PROVE  StatsInv'
BY DEF StatsInv

(* The two steps of an add, and the others.                                *)
LEMMA StatsStep ==
    ASSUME IInv, [Next]_vars
    PROVE  StatsInv'
<1> USE DEF IInv, TypeOK, Threads, shared, local
<1>1. ASSUME NEW h \in Handlers, NextMessage(h) PROVE StatsInv'
  <2>1. at[h] = "outside"
    BY <1>1 DEF NextMessage, Places, Calls, Counters, Stats
  <2>2. QED
    BY <1>1, <2>1, StatsSame DEF NextMessage, Adding
<1>2. ASSUME NEW p \in Pages, Request(p) PROVE StatsInv'
  BY <1>2, MetricsAssumption, StatsSame DEF Request, Adding
<1>3. ASSUME NEW t \in Threads, Acquire(t) PROVE StatsInv'
  BY <1>3, StatsSame DEF Acquire, Adding
<1>4. ASSUME NEW h \in Handlers, GetCounter(h) PROVE StatsInv'
  <2>1. stage[h] \notin Stats
    BY <1>4 DEF GetCounter, Counters, Stats
  <2>2. QED
    BY <1>4, <2>1, StatsSame DEF GetCounter, Half, Adding
<1>5. ASSUME NEW h \in Handlers, SetCounter(h) PROVE StatsInv'
  <2>1. stage[h] \notin Stats
    BY <1>5 DEF SetCounter, Counters, Stats
  <2>2. at'[h] = "outside"
    BY <1>5 DEF SetCounter, Return
  <2>3. QED
    BY <1>5, <2>1, <2>2, StatsSame DEF SetCounter, Return, Adding
<1>6. ASSUME NEW h \in Handlers, AddTotal(h) PROVE StatsInv'
  <2>1. PICK v \in Values :
           /\ value' = [value EXCEPT ![h] = v]
           /\ stats' = [stats EXCEPT ![stage[h]] = Counted(@, v)]
           /\ seen' = [seen EXCEPT ![stage[h]] = Append(@, v)]
    BY <1>6 DEF AddTotal
  <2>2. /\ stage[h] \in Stats /\ at[h] = "inside" /\ UNCHANGED stage
        /\ at' = [at EXCEPT ![h] = "half"]
    BY <1>6 DEF AddTotal, Half
  <2>3. \A g \in Handlers : at[g] # "half"
    BY <2>2 DEF Mutex
  <2>4. \A g \in Handlers, name \in Stats :
           Adding(g, name)' <=> g = h /\ name = stage[h]
    BY <2>2, <2>3 DEF Adding
  <2>5. stats[stage[h]] = Summary(seen[stage[h]])
    BY <2>2, <2>3 DEF StatsInv, Adding
  <2>6. Before(Append(seen[stage[h]], v)) = seen[stage[h]]
    BY <2>2, BeforeAppend
  <2>7. /\ seen'[stage[h]] = Append(seen[stage[h]], v)
        /\ stats'[stage[h]] = Counted(stats[stage[h]], v)
        /\ value'[h] = v
    BY <2>1, <2>2
  <2>8. HalfAdded(stats'[stage[h]], seen'[stage[h]], value'[h])
    BY <2>5, <2>6, <2>7 DEF HalfAdded
  <2>9. \A name \in Stats \ {stage[h]} :
           /\ stats'[name] = stats[name] /\ seen'[name] = seen[name]
           /\ stats[name] = Summary(seen[name])
    BY <2>1, <2>3 DEF StatsInv, Adding
  <2>10. QED
    BY <2>2, <2>4, <2>8, <2>9 DEF StatsInv
<1>7. ASSUME NEW h \in Handlers, AddRange(h) PROVE StatsInv'
  <2>1. /\ stage[h] \in Stats /\ at[h] = "half" /\ UNCHANGED seen
        /\ stats' = [stats EXCEPT ![stage[h]] = Ranged(@, value[h])]
        /\ at' = [at EXCEPT ![h] = "outside"]
    BY <1>7 DEF AddRange, Return
  <2>2. \A g \in Handlers \ {h} : at[g] # "half"
    BY <2>1 DEF Mutex
  <2>3. \A g \in Handlers, name \in Stats : ~Adding(g, name)'
    BY <2>1, <2>2 DEF Adding
  <2>4. /\ value[h] \in Values
        /\ seen[stage[h]] = Append(Before(seen[stage[h]]), value[h])
        /\ stats[stage[h]] =
              Counted(Summary(Before(seen[stage[h]])), value[h])
    BY <2>1 DEF ValueInv, StatsInv, Adding, HalfAdded
  <2>5. Before(seen[stage[h]]) \in Seq(Values)
    BY <2>1, BeforeType
  <2>6. stats'[stage[h]] = Summary(seen[stage[h]])
    BY <2>1, <2>4, <2>5, SummaryOfAppend
  <2>7. \A name \in Stats \ {stage[h]} :
           stats'[name] = stats[name] /\ stats[name] = Summary(seen[name])
    BY <2>1, <2>2 DEF StatsInv, Adding
  <2>8. QED
    BY <2>1, <2>3, <2>6, <2>7 DEF StatsInv
<1>8. ASSUME NEW p \in Pages,
             CopyForward(p) \/ CopyPayload(p) \/ CopyCounters(p)
      PROVE  StatsInv'
  BY <1>8, MetricsAssumption, StatsSame
     DEF CopyForward, CopyPayload, CopyCounters, CopyStat, Return, Adding
<1>9. CASE UNCHANGED vars
  BY <1>9, StatsSame DEF vars, Adding
<1>10. QED
  BY <1>1, <1>2, <1>3, <1>4, <1>5, <1>6, <1>7, <1>8, <1>9
     DEF Next, Handler, Http

(* A stat sums up the first so many of the values vs.                      *)
SumsUp(stat, vs) ==
    stat.count <= Len(vs) /\ stat = Summary(SubSeq(vs, 1, stat.count))

LEMMA ExactNext ==
    ASSUME \A p \in Pages : \A name \in Stats :
              stage'[p] = "shown" =>
                 SumsUp(page'[p].stats[name], seen'[name])
    PROVE  StatsExact'
BY DEF StatsExact, SumsUp

(* It still does when vs has grown.                                        *)
LEMMA SumsUpStill ==
    ASSUME NEW stat \in Stat, NEW vs \in Seq(Values), NEW v \in Values,
           SumsUp(stat, vs)
    PROVE  SumsUp(stat, Append(vs, v))
<1>1. PICK k : k = stat.count
  OBVIOUS
<1>2. k \in Nat /\ k <= Len(vs) /\ stat = Summary(SubSeq(vs, 1, k))
  BY <1>1 DEF SumsUp, Stat
<1>3. Len(vs) \in Nat /\ Len(Append(vs, v)) = Len(vs) + 1
  BY AppendProperties
<1>4. k \in 0 .. Len(vs) /\ k <= Len(Append(vs, v))
  BY <1>2, <1>3
<1>5. SubSeq(Append(vs, v), 1, k) = SubSeq(vs, 1, k)
  BY <1>4, PrefixOfAppend
<1>6. QED
  BY <1>1, <1>2, <1>4, <1>5 DEF SumsUp

(* So a page that stays as it is stays right.                              *)
LEMMA ShownStays ==
    ASSUME TypeOK, StatsExact,
           NEW p \in Pages, stage[p] = "shown", page'[p] = page[p],
           NEW name \in Stats,
           \/ seen'[name] = seen[name]
           \/ \E v \in Values : seen'[name] = Append(seen[name], v)
    PROVE  SumsUp(page'[p].stats[name], seen'[name])
<1>1. SumsUp(page[p].stats[name], seen[name])
  BY DEF StatsExact, SumsUp
<1>2. page[p].stats[name] \in Stat /\ seen[name] \in Seq(Values)
  BY DEF TypeOK
<1>3. CASE seen'[name] = seen[name]
  BY <1>1, <1>3
<1>4. ASSUME NEW v \in Values, seen'[name] = Append(seen[name], v)
      PROVE  SumsUp(page'[p].stats[name], seen'[name])
  BY <1>1, <1>2, <1>4, SumsUpStill
<1>5. QED
  BY <1>3, <1>4

(* A page is right when its last part is copied: nobody is inside an add.  *)
LEMMA ShownStep ==
    ASSUME IInv, [Next]_vars
    PROVE  StatsExact'
<1> USE DEF IInv, Threads, shared, local
<1>1. ASSUME NEW h \in Handlers, Handler(h)
      PROVE  StatsExact'
  <2>1. \A p \in Pages : stage'[p] = stage[p] /\ page'[p] = page[p]
    BY <1>1, MetricsAssumption DEF TypeOK, Handler, NextMessage, Acquire,
       GetCounter, SetCounter, AddTotal, AddRange, Half, Return
  <2>2. ASSUME NEW name \in Stats
        PROVE  \/ seen'[name] = seen[name]
               \/ \E v \in Values : seen'[name] = Append(seen[name], v)
    <3>1. CASE AddTotal(h)
      BY <3>1 DEF TypeOK, AddTotal
    <3>2. CASE UNCHANGED seen
      BY <3>2
    <3>3. QED
      BY <1>1, <3>1, <3>2 DEF Handler, NextMessage, Acquire, GetCounter,
         SetCounter, AddRange
  <2>3. QED
    BY <2>1, <2>2, ShownStays, ExactNext
<1>2. ASSUME NEW p \in Pages,
             Request(p) \/ Acquire(p) \/ CopyForward(p) \/ CopyPayload(p)
      PROVE  StatsExact'
  <2>1. \A q \in Pages : stage'[q] = "shown" =>
           stage[q] = "shown" /\ page'[q] = page[q]
    BY <1>2 DEF TypeOK, Request, Acquire, CopyForward, CopyPayload, CopyStat
  <2>2. UNCHANGED seen
    BY <1>2 DEF Request, Acquire, CopyForward, CopyPayload, CopyStat
  <2>3. QED
    BY <2>1, <2>2, ShownStays, ExactNext
<1>3. ASSUME NEW p \in Pages, CopyCounters(p)
      PROVE  StatsExact'
  <2>1. /\ page' = [page EXCEPT ![p].counters = counters]
        /\ stage' = [stage EXCEPT ![p] = "shown"]
        /\ stage[p] = "snapshot" /\ at[p] = "last"
        /\ UNCHANGED <<stats, seen>>
    BY <1>3 DEF CopyCounters, Return
  <2>2. \A h \in Handlers : at[h] # "half"
    BY <2>1, MetricsAssumption DEF Mutex
  <2>3. ASSUME NEW name \in Stats
        PROVE  SumsUp(page'[p].stats[name], seen'[name])
    <3>1. stats[name] = Summary(seen[name])
      BY <2>2 DEF StatsInv, Adding
    <3>2. page'[p].stats[name] = stats[name]
      BY <2>1 DEF PageInv, TypeOK, Stats
    <3>3. stats[name].count = Len(seen[name])
      BY <3>1 DEF Summary
    <3>4. /\ SubSeq(seen[name], 1, Len(seen[name])) = seen[name]
          /\ Len(seen[name]) \in Nat
      BY SubSeqFull, LenProperties DEF TypeOK
    <3>5. seen'[name] = seen[name]
      BY <2>1
    <3>6. PICK stat, vs : stat = stats[name] /\ vs = seen[name]
      OBVIOUS
    <3>7. SumsUp(stat, vs)
      <4>1. /\ stat = Summary(vs) /\ stat.count = Len(vs)
            /\ SubSeq(vs, 1, Len(vs)) = vs /\ Len(vs) <= Len(vs)
        BY <3>1, <3>3, <3>4, <3>6
      <4>2. QED
        BY <4>1 DEF SumsUp
    <3>8. QED
      BY <3>2, <3>5, <3>6, <3>7
  <2>4. ASSUME NEW q \in Pages \ {p}, NEW name \in Stats, stage'[q] = "shown"
        PROVE  SumsUp(page'[q].stats[name], seen'[name])
    <3>1. stage[q] = "shown" /\ page'[q] = page[q]
      BY <2>1, <2>4 DEF TypeOK
    <3>2. QED
      BY <2>1, <3>1, ShownStays
  <2>5. QED
    BY <2>3, <2>4, ExactNext
<1>4. CASE UNCHANGED vars
  BY <1>4, ShownStays, ExactNext DEF vars
<1>5. QED
  BY <1>1, <1>2, <1>3, <1>4 DEF Next, Http

-----------------------------------------------------------------------------
(* The invariant holds in every state.                                     *)
LEMMA Invariant == Spec => []IInv
<1>1. IInv /\ [Next]_vars => IInv'
  BY TypeStep, PlaceStep, ValueStep, OwedStep, PageStep, StatsStep, ShownStep
     DEF IInv
<1>2. QED
  BY InitIInv, <1>1, PTL DEF Spec

(* Every variable keeps its type.                                          *)
THEOREM TypeCorrect == Spec => []TypeOK
<1>1. IInv => TypeOK
  BY DEF IInv
<1>2. QED
  BY Invariant, <1>1, PTL

(* No call of inc is lost, whatever threads count at the same time.        *)
THEOREM NothingLost == Spec => []CountersExact
<1>1. IInv => CountersExact
  BY DEF IInv
<1>2. QED
  BY Invariant, <1>1, PTL

(* Every page is a cut through the history of all threads.                 *)
THEOREM PagesAreCuts == Spec => []PageIsACut
<1>1. IInv => PageIsACut
  BY DEF IInv, PageInv, PageIsACut
<1>2. QED
  BY Invariant, <1>1, PTL

(* Every stat on a page sums up the first so many values observed.         *)
THEOREM StatsSumUp == Spec => []StatsExact
<1>1. IInv => StatsExact
  BY DEF IInv
<1>2. QED
  BY Invariant, <1>1, PTL
=============================================================================
