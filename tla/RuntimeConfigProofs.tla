------------------------- MODULE RuntimeConfigProofs -------------------------
(***************************************************************************)
(* What a process that starts is like, for any environment and any auth    *)
(* file, and what its requests resolve to.  The argument: environment and  *)
(* file are read and never written, so that service and transport go on    *)
(* being what the checks of main() were made of (ConfigInv), and the two   *)
(* readings of the transport can be compared.  What a request resolves to  *)
(* is followed from the names in it: every filter and renaming on the way  *)
(* keeps the order in which projects are first mentioned (Mentions), and   *)
(* the last drop of repetitions leaves each once.                          *)
(***************************************************************************)
EXTENDS RuntimeConfig, SequenceTheorems, WellFoundedInduction, TLAPS

-----------------------------------------------------------------------------
(* Sequences, filtered *)

\* A set of numbers has a least one.
LEMMA Least ==
  ASSUME NEW T, T \subseteq Nat, T # {}
  PROVE  \E x \in T : \A y \in T : x <= y
  <1>1. \E x \in T : \A y \in T : ~ (<<y, x>> \in OpToRel(<, Nat))
    BY WFMin, NatLessThanWellFounded, Zenon
  <1>2. PICK x \in T : \A y \in T : ~ (<<y, x>> \in OpToRel(<, Nat))
    BY <1>1
  <1>3. ASSUME NEW y \in T PROVE ~ (y < x)
    BY <1>2, Zenon DEF OpToRel
  <1>4. ASSUME NEW y \in T PROVE x <= y
    BY <1>3
  <1> QED
    BY <1>4

LEMMA SeqDomain ==
  ASSUME NEW S, NEW t \in Seq(S)
  PROVE  DOMAIN t \subseteq Nat /\ (t = <<>> <=> DOMAIN t = {})
  <1>1. DOMAIN t = 1..Len(t) /\ Len(t) \in Nat
    OBVIOUS
  <1>2. t = <<>> <=> Len(t) = 0
    BY EmptySeq
  <1>3. Len(t) # 0 => 1 \in DOMAIN t
    BY <1>1
  <1> QED
    BY <1>1, <1>2, <1>3

\* What KeptUpTo adds at n.
Step(s, kept, upTo, n) ==
    IF n = 0 THEN <<>>
    ELSE IF n \in kept THEN Append(upTo[n - 1], s[n]) ELSE upTo[n - 1]

LEMMA KeptUpToIs ==
  ASSUME NEW s, Len(s) \in Nat, NEW kept
  PROVE  Resolver!KeptUpTo(s, kept)
           = [n \in 0..Len(s) |-> Step(s, kept, Resolver!KeptUpTo(s, kept), n)]
  <1> DEFINE T == {n \in Nat : ~ \E upTo : upTo = [k \in 0..n |-> Step(s, kept, upTo, k)]}
  <1>1. T = {}
    <2> SUFFICES ASSUME T # {} PROVE FALSE
      OBVIOUS
    <2>1. PICK n \in T : \A y \in T : n <= y
      BY Least
    <2>2. n \in Nat /\ n # 0
      <3>1. CASE n = 0
        <4> DEFINE g == [k \in 0..0 |-> <<>>]
        <4>1. g = [k \in 0..0 |-> Step(s, kept, g, k)]
          BY DEF Step
        <4> QED
          BY <3>1, <4>1
      <3> QED
        BY <3>1
    <2>3. n - 1 \in Nat /\ n - 1 \notin T
      BY <2>1, <2>2
    <2>4. PICK f : f = [k \in 0..(n - 1) |-> Step(s, kept, f, k)]
      BY <2>3
    <2> DEFINE g == [k \in 0..n |-> IF k = n THEN Step(s, kept, f, n) ELSE f[k]]
    <2>5. ASSUME NEW k \in 0..n PROVE g[k] = Step(s, kept, g, k)
      <3>1. CASE k = n
        <4>1. g[n - 1] = f[n - 1] /\ g[n] = Step(s, kept, f, n)
          BY <2>2
        <4> QED
          BY <3>1, <4>1, <2>2 DEF Step
      <3>2. CASE k # n /\ k = 0
        <4>1. g[k] = f[k]
          BY <3>2
        <4>2. f[k] = Step(s, kept, f, k)
          BY <3>2, <2>2, <2>4
        <4> QED
          BY <3>2, <4>1, <4>2 DEF Step
      <3>3. CASE k # n /\ k # 0
        <4>1. g[k] = f[k] /\ g[k - 1] = f[k - 1]
          BY <3>3, <2>2
        <4>2. f[k] = Step(s, kept, f, k)
          BY <3>3, <2>2, <2>4
        <4> QED
          BY <3>3, <4>1, <4>2 DEF Step
      <3> QED
        BY <3>1, <3>2, <3>3
    <2>6. g = [k \in 0..n |-> Step(s, kept, g, k)]
      BY <2>5
    <2> QED
      BY <2>1, <2>6
  <1>2. \E upTo : upTo = [k \in 0..Len(s) |-> Step(s, kept, upTo, k)]
    BY <1>1
  <1>3. Resolver!KeptUpTo(s, kept)
          = CHOOSE upTo : upTo = [n \in 0..Len(s) |-> Step(s, kept, upTo, n)]
    BY DEF Resolver!KeptUpTo, Step
  <1> QED
    BY <1>2, <1>3

\* t is what s has at the positions of kept up to n, in their order.
IsKept(t, s, n, kept) ==
    \E at \in [DOMAIN t -> {k \in kept : k <= n}] :
        /\ \A i \in DOMAIN t : t[i] = s[at[i]]
        /\ \A i, j \in DOMAIN t : i < j => at[i] < at[j]
        /\ \A k \in kept : k <= n => \E i \in DOMAIN t : at[i] = k

LEMMA AppendIsKept ==
  ASSUME NEW S, NEW s \in Seq(S), NEW kept \in SUBSET DOMAIN s,
         NEW n \in 1..Len(s), NEW t \in Seq(S), IsKept(t, s, n - 1, kept), n \in kept
  PROVE  Append(t, s[n]) \in Seq(S) /\ IsKept(Append(t, s[n]), s, n, kept)
  <1> DEFINE u == Append(t, s[n])
  <1>1. /\ u \in Seq(S) /\ DOMAIN t = 1..Len(t) /\ DOMAIN u = 1..(Len(t) + 1)
        /\ Len(t) \in Nat /\ n \in Nat /\ kept \subseteq Nat
        /\ \A i \in 1..Len(t) : u[i] = t[i]
        /\ u[Len(t) + 1] = s[n]
    <2>1. s[n] \in S /\ DOMAIN s = 1..Len(s) /\ Len(s) \in Nat
      OBVIOUS
    <2>2. DOMAIN t = 1..Len(t) /\ Len(t) \in Nat
      OBVIOUS
    <2>3. u \in Seq(S) /\ Len(u) = Len(t) + 1 /\ u[Len(t) + 1] = s[n]
      BY <2>1, AppendProperties
    <2>4. \A i \in 1..Len(t) : u[i] = t[i]
      BY <2>1, AppendProperties
    <2>5. DOMAIN u = 1..(Len(t) + 1)
      BY <2>3, LenProperties
    <2> QED
      BY <2>1, <2>2, <2>3, <2>4, <2>5
  <1>2. PICK at \in [DOMAIN t -> {k \in kept : k <= n - 1}] :
          /\ \A i \in DOMAIN t : t[i] = s[at[i]]
          /\ \A i, j \in DOMAIN t : i < j => at[i] < at[j]
          /\ \A k \in kept : k <= n - 1 => \E i \in DOMAIN t : at[i] = k
    BY DEF IsKept
  <1> DEFINE at2 == [i \in 1..(Len(t) + 1) |-> IF i = Len(t) + 1 THEN n ELSE at[i]]
  <1> HIDE DEF u
  <1>3. at2[Len(t) + 1] = n /\ \A i \in 1..Len(t) : at2[i] = at[i]
    BY <1>1
  <1>4. at2 \in [DOMAIN u -> {k \in kept : k <= n}]
    <2> SUFFICES ASSUME NEW i \in 1..(Len(t) + 1)
                 PROVE  (IF i = Len(t) + 1 THEN n ELSE at[i]) \in {k \in kept : k <= n}
      BY <1>1
    <2>1. CASE i = Len(t) + 1
      BY <1>1, <2>1
    <2>2. CASE i # Len(t) + 1
      <3>1. i \in DOMAIN t
        BY <1>1, <2>2
      <3>2. at[i] \in kept /\ at[i] <= n - 1
        BY <1>2, <3>1
      <3> QED
        BY <1>1, <2>2, <3>2
    <2> QED
      BY <2>1, <2>2
  <1> HIDE DEF at2
  <1>5. ASSUME NEW i \in DOMAIN u PROVE u[i] = s[at2[i]]
    <2>1. CASE i = Len(t) + 1
      BY <1>1, <1>3, <2>1
    <2>2. CASE i \in 1..Len(t)
      BY <1>1, <1>2, <1>3, <2>2
    <2> QED
      BY <1>1, <2>1, <2>2
  <1>6. ASSUME NEW i \in DOMAIN u, NEW j \in DOMAIN u, i < j PROVE at2[i] < at2[j]
    <2>0. i \in DOMAIN t /\ at2[i] = at[i] /\ at[i] \in kept /\ at[i] <= n - 1
      BY <1>1, <1>2, <1>3, <1>6
    <2>1. CASE j = Len(t) + 1
      BY <1>1, <1>3, <2>0, <2>1
    <2>2. CASE j \in 1..Len(t)
      BY <1>1, <1>2, <1>3, <1>6, <2>0, <2>2
    <2> QED
      BY <1>1, <2>1, <2>2
  <1>7. ASSUME NEW k \in kept, k <= n PROVE \E i \in DOMAIN u : at2[i] = k
    <2>1. CASE k = n
      BY <1>1, <1>3, <2>1
    <2>2. CASE k # n
      <3>1. k <= n - 1
        BY <1>1, <1>7, <2>2
      <3>2. PICK i \in DOMAIN t : at[i] = k
        BY <1>2, <3>1
      <3> QED
        BY <1>1, <1>3, <3>2
    <2> QED
      BY <2>1, <2>2
  <1>8. IsKept(u, s, n, kept)
    BY <1>4, <1>5, <1>6, <1>7 DEF IsKept
  <1> QED
    BY <1>1, <1>8 DEF u

\* Kept keeps what it says, and nothing else.
LEMMA KeptIs ==
  ASSUME NEW S, NEW s \in Seq(S), NEW kept \in SUBSET DOMAIN s
  PROVE  /\ Resolver!Kept(s, kept) \in Seq(S)
         /\ IsKept(Resolver!Kept(s, kept), s, Len(s), kept)
  <1> DEFINE f == Resolver!KeptUpTo(s, kept)
             T == {n \in 0..Len(s) : ~ (f[n] \in Seq(S) /\ IsKept(f[n], s, n, kept))}
  <1>0. Len(s) \in Nat /\ DOMAIN s = 1..Len(s)
    OBVIOUS
  <1>1. ASSUME NEW n \in 0..Len(s) PROVE f[n] = Step(s, kept, f, n)
    BY <1>0, KeptUpToIs
  <1> HIDE DEF f
  <1>2. T = {}
    <2> SUFFICES ASSUME T # {} PROVE FALSE
      OBVIOUS
    <2>1. PICK n \in T : \A y \in T : n <= y
      <3>1. T \subseteq Nat
        BY <1>0
      <3> QED
        BY <3>1, Least
    <2>2. CASE n = 0
      <3>1. f[n] = <<>>
        BY <1>0, <1>1, <2>2 DEF Step
      <3>2. <<>> \in Seq(S) /\ DOMAIN <<>> = {}
        OBVIOUS
      <3>3. \A k \in kept : ~ (k <= 0)
        BY <1>0
      <3>4. IsKept(<<>>, s, 0, kept)
        <4>1. <<>> \in [DOMAIN <<>> -> {k \in kept : k <= 0}]
          OBVIOUS
        <4> QED
          BY <4>1, <3>2, <3>3 DEF IsKept
      <3> QED
        BY <2>2, <3>1, <3>2, <3>4
    <2>3. CASE n # 0
      <3>1. n \in 1..Len(s) /\ n - 1 \in 0..Len(s) /\ n - 1 < n
        BY <1>0, <2>3
      <3>2. f[n - 1] \in Seq(S) /\ IsKept(f[n - 1], s, n - 1, kept)
        BY <1>0, <2>1, <3>1
      <3>3. CASE n \in kept
        <4>1. f[n] = Append(f[n - 1], s[n])
          BY <1>1, <2>3, <3>1, <3>3 DEF Step
        <4> QED
          BY <3>1, <3>2, <3>3, <4>1, AppendIsKept
      <3>4. CASE n \notin kept
        <4>1. f[n] = f[n - 1]
          BY <1>1, <2>3, <3>1, <3>4 DEF Step
        <4>2. {k \in kept : k <= n} = {k \in kept : k <= n - 1}
          BY <1>0, <3>1, <3>4
        <4>3. IsKept(f[n - 1], s, n, kept)
          BY <3>2, <4>2 DEF IsKept
        <4> QED
          BY <3>2, <4>1, <4>3
      <3> QED
        BY <3>3, <3>4
    <2> QED
      BY <2>2, <2>3
  <1>3. f[Len(s)] \in Seq(S) /\ IsKept(f[Len(s)], s, Len(s), kept)
    BY <1>0, <1>2
  <1> QED
    BY <1>3 DEF Resolver!Kept, f

-----------------------------------------------------------------------------
(* What a sequence of names stands for *)

\* r is what meant stands for, position by position: each of its elements is meant at a
\* place, later ones at later places, and whatever is meant is in r from there or before.
Mentions(r, meant) ==
    \E at \in [DOMAIN r -> DOMAIN meant] :
        /\ \A i \in DOMAIN r : r[i] \in meant[at[i]]
        /\ \A i, j \in DOMAIN r : i < j => at[i] < at[j]
        /\ \A m \in DOMAIN meant : \A id \in meant[m] :
             \E i \in DOMAIN r : r[i] = id /\ at[i] <= m

Distinct(r) == \A i, j \in DOMAIN r : i # j => r[i] # r[j]

\* What is kept stands for what remains of what was meant.
LEMMA KeptMentions ==
  ASSUME NEW S, NEW r \in Seq(S), NEW kept \in SUBSET DOMAIN r,
         NEW M \in Nat, NEW meant, NEW rest, DOMAIN meant = 1..M, DOMAIN rest = 1..M,
         Mentions(r, meant),
         \A k \in kept, m \in 1..M : r[k] \in meant[m] => r[k] \in rest[m],
         \A m \in 1..M : \A id \in rest[m] :
           id \in meant[m]
             /\ \A j \in DOMAIN r : r[j] = id => \E k \in kept : k <= j /\ r[k] = id
  PROVE  Mentions(Resolver!Kept(r, kept), rest)
  <1> DEFINE t == Resolver!Kept(r, kept)
  <1>0. Len(r) \in Nat /\ DOMAIN r = 1..Len(r)
    OBVIOUS
  <1>1. t \in Seq(S) /\ IsKept(t, r, Len(r), kept)
    BY KeptIs
  <1> HIDE DEF t
  <1>2. DOMAIN t = 1..Len(t) /\ Len(t) \in Nat
    BY <1>1
  <1>3. PICK pos \in [DOMAIN t -> {k \in kept : k <= Len(r)}] :
          /\ \A i \in DOMAIN t : t[i] = r[pos[i]]
          /\ \A i, j \in DOMAIN t : i < j => pos[i] < pos[j]
          /\ \A k \in kept : k <= Len(r) => \E i \in DOMAIN t : pos[i] = k
    BY <1>1 DEF IsKept
  <1>4. PICK at \in [DOMAIN r -> 1..M] :
          /\ \A i \in DOMAIN r : r[i] \in meant[at[i]]
          /\ \A i, j \in DOMAIN r : i < j => at[i] < at[j]
          /\ \A m \in 1..M : \A id \in meant[m] :
               \E i \in DOMAIN r : r[i] = id /\ at[i] <= m
    BY DEF Mentions
  <1> DEFINE at2 == [i \in DOMAIN t |-> at[pos[i]]]
  <1>5. ASSUME NEW i \in DOMAIN t
        PROVE  /\ pos[i] \in kept /\ pos[i] \in DOMAIN r
               /\ at2[i] = at[pos[i]] /\ at2[i] \in 1..M
               /\ t[i] \in rest[at2[i]]
    <2>1. pos[i] \in kept /\ pos[i] \in DOMAIN r
      BY <1>3
    <2>2. at2[i] = at[pos[i]] /\ at2[i] \in 1..M
      BY <1>4, <2>1
    <2>3. t[i] = r[pos[i]] /\ r[pos[i]] \in meant[at2[i]]
      BY <1>3, <1>4, <2>1, <2>2
    <2> QED
      BY <2>1, <2>2, <2>3
  <1>6. at2 \in [DOMAIN t -> 1..M]
    BY <1>5
  <1> HIDE DEF at2
  <1>7. ASSUME NEW i \in DOMAIN t, NEW j \in DOMAIN t, i < j PROVE at2[i] < at2[j]
    BY <1>3, <1>4, <1>5, <1>7
  <1>8. ASSUME NEW m \in 1..M, NEW id \in rest[m]
        PROVE  \E i \in DOMAIN t : t[i] = id /\ at2[i] <= m
    <2>1. PICK j \in DOMAIN r : r[j] = id /\ at[j] <= m
      BY <1>4, <1>8
    <2>2. PICK k \in kept : k <= j /\ r[k] = id
      BY <1>8, <2>1
    <2>3. k \in DOMAIN r /\ k <= Len(r) /\ at[k] \in 1..M /\ at[j] \in 1..M
      BY <1>0, <1>4
    <2>4. at[k] <= at[j]
      <3>1. CASE k = j
        BY <2>3, <3>1
      <3>2. CASE k < j
        BY <1>4, <2>3, <3>2
      <3> QED
        BY <1>0, <2>2, <2>3, <3>1, <3>2
    <2>5. PICK i \in DOMAIN t : pos[i] = k
      BY <1>3, <2>3
    <2>6. t[i] = id /\ at2[i] = at[k]
      BY <1>3, <1>5, <2>2, <2>5
    <2> QED
      BY <2>1, <2>3, <2>4, <2>6
  <1>9. Mentions(t, rest)
    BY <1>6, <1>7, <1>8, <1>5 DEF Mentions
  <1> QED
    BY <1>9 DEF t

\* Of distinct elements, distinct ones are kept.
LEMMA KeptDistinct ==
  ASSUME NEW S, NEW r \in Seq(S), NEW kept \in SUBSET DOMAIN r,
         \A i, j \in kept : i < j => r[i] # r[j]
  PROVE  Distinct(Resolver!Kept(r, kept))
  <1> DEFINE t == Resolver!Kept(r, kept)
  <1>1. t \in Seq(S) /\ IsKept(t, r, Len(r), kept)
    BY KeptIs
  <1> HIDE DEF t
  <1>2. PICK pos \in [DOMAIN t -> {k \in kept : k <= Len(r)}] :
          /\ \A i \in DOMAIN t : t[i] = r[pos[i]]
          /\ \A i, j \in DOMAIN t : i < j => pos[i] < pos[j]
    BY <1>1 DEF IsKept
  <1>3. DOMAIN t = 1..Len(t) /\ Len(t) \in Nat
    BY <1>1
  <1>4. \A i, j \in DOMAIN t : i < j => t[i] # t[j]
    BY <1>2
  <1>5. \A i, j \in DOMAIN t : i # j => i < j \/ j < i
    BY <1>3
  <1>6. Distinct(t)
    BY <1>4, <1>5 DEF Distinct
  <1> QED
    BY <1>6 DEF t

\* Dropping what came before changes nothing in what is meant, and leaves no repetition.
LEMMA UniqueOrderedIs ==
  ASSUME NEW S, NEW r \in Seq(S)
  PROVE  /\ Resolver!UniqueOrdered(r) \in Seq(S)
         /\ Distinct(Resolver!UniqueOrdered(r))
         /\ \A M \in Nat : \A meant :
              DOMAIN meant = 1..M /\ Mentions(r, meant)
                => Mentions(Resolver!UniqueOrdered(r), meant)
  <1> DEFINE firsts == {i \in DOMAIN r : \A j \in 1..(i - 1) : r[j] # r[i]}
  <1>0. Len(r) \in Nat /\ DOMAIN r = 1..Len(r) /\ firsts \in SUBSET DOMAIN r
    OBVIOUS
  <1>1. Resolver!UniqueOrdered(r) = Resolver!Kept(r, firsts)
    BY DEF Resolver!UniqueOrdered
  <1>2. \A i, j \in firsts : i < j => r[i] # r[j]
    <2> SUFFICES ASSUME NEW i \in firsts, NEW j \in firsts, i < j PROVE r[i] # r[j]
      OBVIOUS
    <2>1. i \in 1..(j - 1)
      BY <1>0
    <2> QED
      BY <2>1
  <1>3. ASSUME NEW j \in DOMAIN r PROVE \E k \in firsts : k <= j /\ r[k] = r[j]
    <2> DEFINE same == {k \in DOMAIN r : r[k] = r[j]}
    <2>1. PICK k \in same : \A y \in same : k <= y
      <3>1. same \subseteq Nat /\ same # {}
        BY <1>0
      <3> QED
        BY <3>1, Least
    <2>2. k \in firsts
      BY <1>0, <2>1
    <2> QED
      BY <2>1, <2>2
  <1> HIDE DEF firsts
  <1>4. Resolver!Kept(r, firsts) \in Seq(S) /\ Distinct(Resolver!Kept(r, firsts))
    BY <1>0, <1>2, KeptIs, KeptDistinct
  <1>5. ASSUME NEW M \in Nat, NEW meant, DOMAIN meant = 1..M, Mentions(r, meant)
        PROVE  Mentions(Resolver!Kept(r, firsts), meant)
    BY <1>0, <1>3, <1>5, KeptMentions
  <1> QED
    BY <1>1, <1>4, <1>5

\* Of a sequence without repetitions, what it mentions first is what it has first.
LEMMA MentionedInOrder ==
  ASSUME NEW r, DOMAIN r \subseteq Nat, NEW M \in Nat, NEW meant, DOMAIN meant = 1..M,
         Mentions(r, meant), Distinct(r)
  PROVE  /\ Range(r) = UNION Range(meant)
         /\ \A i, j \in DOMAIN r :
              i < j => FirstMention(meant, r[i]) < FirstMention(meant, r[j])
  <1>1. PICK at \in [DOMAIN r -> 1..M] :
          /\ \A i \in DOMAIN r : r[i] \in meant[at[i]]
          /\ \A i, j \in DOMAIN r : i < j => at[i] < at[j]
          /\ \A m \in 1..M : \A id \in meant[m] :
               \E i \in DOMAIN r : r[i] = id /\ at[i] <= m
    BY DEF Mentions
  <1>2. ASSUME NEW i \in DOMAIN r PROVE FirstMention(meant, r[i]) = at[i]
    <2>1. at[i] \in 1..M /\ r[i] \in meant[at[i]]
      BY <1>1
    <2>2. ASSUME NEW j \in 1..(at[i] - 1) PROVE r[i] \notin meant[j]
      <3> SUFFICES ASSUME r[i] \in meant[j] PROVE FALSE
        OBVIOUS
      <3>1. PICK k \in DOMAIN r : r[k] = r[i] /\ at[k] <= j
        BY <1>1, <2>1
      <3>2. k = i
        BY <3>1 DEF Distinct
      <3> QED
        BY <2>1, <3>1, <3>2
    <2>3. ASSUME NEW m \in 1..M, r[i] \in meant[m], \A j \in 1..(m - 1) : r[i] \notin meant[j]
          PROVE  m = at[i]
      BY <2>1, <2>2, <2>3
    <2> QED
      BY <2>1, <2>2, <2>3 DEF FirstMention
  <1>3. Range(r) = UNION Range(meant)
    <2>1. \A i \in DOMAIN r : \E m \in DOMAIN meant : r[i] \in meant[m]
      BY <1>1
    <2>2. \A m \in DOMAIN meant : \A id \in meant[m] : \E i \in DOMAIN r : r[i] = id
      BY <1>1
    <2> QED
      BY <2>1, <2>2 DEF Range
  <1> QED
    BY <1>1, <1>2, <1>3

LEMMA MentionsItself ==
  ASSUME NEW S, NEW r \in Seq(S)
  PROVE  Mentions(r, [i \in DOMAIN r |-> {r[i]}])
  <1> DEFINE meant == [i \in DOMAIN r |-> {r[i]}]
             at == [i \in DOMAIN r |-> i]
  <1>1. DOMAIN r \subseteq Nat
    OBVIOUS
  <1>2. at \in [DOMAIN r -> DOMAIN meant] /\ \A i \in DOMAIN r : at[i] = i
    OBVIOUS
  <1>3. \A i \in DOMAIN r : meant[i] = {r[i]}
    OBVIOUS
  <1>4. DOMAIN meant = DOMAIN r
    OBVIOUS
  <1> HIDE DEF meant, at
  <1>5. \A m \in DOMAIN meant : \A id \in meant[m] :
          \E i \in DOMAIN r : r[i] = id /\ at[i] <= m
    <2> SUFFICES ASSUME NEW m \in DOMAIN r, NEW id \in meant[m]
                 PROVE  r[m] = id /\ at[m] <= m
      BY <1>4
    <2> QED
      BY <1>1, <1>2, <1>3
  <1>6. Mentions(r, meant)
    BY <1>1, <1>2, <1>3, <1>4, <1>5 DEF Mentions
  <1> QED
    BY <1>6 DEF meant

\* t has another name for each of r, and named for each of meant.
Renames(r, meant, t, named) ==
    /\ DOMAIN t = DOMAIN r /\ DOMAIN named = DOMAIN meant
    /\ \A i \in DOMAIN r, m \in DOMAIN meant : r[i] \in meant[m] => t[i] \in named[m]
    /\ \A m \in DOMAIN meant : \A id \in named[m] :
         \E x \in meant[m] : \A i \in DOMAIN r : r[i] = x => t[i] = id

LEMMA RenamedMentions ==
  ASSUME NEW r, NEW t, NEW meant, NEW named, Renames(r, meant, t, named), Mentions(r, meant)
  PROVE  Mentions(t, named)
  <1> DEFINE D == DOMAIN meant
  <1>0. /\ DOMAIN t = DOMAIN r /\ DOMAIN named = D
        /\ \A i \in DOMAIN r, m \in D : r[i] \in meant[m] => t[i] \in named[m]
        /\ \A m \in D : \A id \in named[m] :
             \E x \in meant[m] : \A i \in DOMAIN r : r[i] = x => t[i] = id
    BY DEF Renames
  <1>1. PICK at \in [DOMAIN r -> D] :
          /\ \A i \in DOMAIN r : r[i] \in meant[at[i]]
          /\ \A i, j \in DOMAIN r : i < j => at[i] < at[j]
          /\ \A m \in D : \A id \in meant[m] :
               \E i \in DOMAIN r : r[i] = id /\ at[i] <= m
    BY DEF Mentions
  <1>2. \A i \in DOMAIN r : t[i] \in named[at[i]]
    BY <1>0, <1>1
  <1>3. ASSUME NEW m \in D, NEW id \in named[m]
        PROVE  \E i \in DOMAIN t : t[i] = id /\ at[i] <= m
    <2>1. PICK x \in meant[m] : \A i \in DOMAIN r : r[i] = x => t[i] = id
      BY <1>0
    <2>2. PICK i \in DOMAIN r : r[i] = x /\ at[i] <= m
      BY <1>1
    <2> QED
      BY <1>0, <2>1, <2>2
  <1> QED
    BY <1>0, <1>1, <1>2, <1>3 DEF Mentions

LEMMA NothingKept ==
  ASSUME NEW kept, kept = {}
  PROVE  Resolver!Kept(<<>>, kept) = <<>>
  <1> DEFINE t == Resolver!Kept(<<>>, kept)
  <1>1. <<>> \in Seq({}) /\ kept \in SUBSET DOMAIN <<>>
    OBVIOUS
  <1>2. t \in Seq({})
    BY <1>1, KeptIs
  <1> HIDE DEF t
  <1>3. t = <<>>
    BY <1>2
  <1> QED
    BY <1>3 DEF t

-----------------------------------------------------------------------------
(* Resolution *)

\* What a selector resolves to: the projects it mentions, each once.
Resolved(targets, code, meant) ==
    /\ DOMAIN targets \subseteq Nat /\ Distinct(targets)
    /\ \E M \in Nat : DOMAIN meant = 1..M
    /\ Mentions(targets, meant)
    /\ code = "none" <=> DOMAIN targets # {}

Listed(selector) == selector.values \in Seq(Range(selector.values))

\* The values of a selector, but for the blank ones, each once.
LEMMA SelectorValuesMention ==
  ASSUME NEW selector, Listed(selector)
  PROVE  LET v == selector.values
             w == Resolver!SelectorValues(selector)
         IN  w \in Seq(Range(v)) /\ Distinct(w)
               /\ Mentions(w, [i \in DOMAIN v |-> {v[i]} \ {Blank}])
  <1> DEFINE v == selector.values
             w == Resolver!SelectorValues(selector)
             single == [i \in DOMAIN v |-> {v[i]}]
             named == [i \in DOMAIN v |-> {v[i]} \ {Blank}]
             kept == {i \in DOMAIN v : v[i] # Blank}
             u == Resolver!Kept(v, kept)
  <1>0. v \in Seq(Range(v)) /\ DOMAIN v = 1..Len(v) /\ Len(v) \in Nat
    BY DEF Listed
  <1>1. w = Resolver!UniqueOrdered(u)
    BY DEF Resolver!SelectorValues
  <1>2. Mentions(v, single)
    BY <1>0, MentionsItself
  <1>3. DOMAIN single = 1..Len(v) /\ DOMAIN named = 1..Len(v)
    BY <1>0
  <1>4. \A m \in 1..Len(v) : single[m] = {v[m]} /\ named[m] = {v[m]} \ {Blank}
    BY <1>0
  <1>5. kept \in SUBSET DOMAIN v /\ \A i \in DOMAIN v : i \in kept <=> v[i] # Blank
    OBVIOUS
  <1> HIDE DEF v, w, single, named, kept, u
  <1>6. \A k \in kept, m \in 1..Len(v) : v[k] \in single[m] => v[k] \in named[m]
    BY <1>4, <1>5
  <1>7. ASSUME NEW m \in 1..Len(v), NEW id \in named[m]
        PROVE  id \in single[m]
                 /\ \A j \in DOMAIN v : v[j] = id => \E k \in kept : k <= j /\ v[k] = id
    <2>1. id \in single[m] /\ id # Blank
      BY <1>4, <1>7
    <2>2. ASSUME NEW j \in DOMAIN v, v[j] = id PROVE j \in kept /\ j <= j
      BY <1>0, <1>5, <2>1, <2>2
    <2> QED
      BY <2>1, <2>2
  <1>8. u \in Seq(Range(v)) /\ Mentions(u, named)
    <2>1. u \in Seq(Range(v))
      BY <1>0, <1>5, KeptIs DEF u
    <2>2. Mentions(u, named)
      BY <1>0, <1>2, <1>3, <1>5, <1>6, <1>7, KeptMentions DEF u
    <2> QED
      BY <2>1, <2>2
  <1>9. w \in Seq(Range(v)) /\ Distinct(w) /\ Mentions(w, named)
    BY <1>0, <1>1, <1>3, <1>8, UniqueOrderedIs
  <1> QED
    BY <1>9 DEF v, w, named

LEMMA ByIdResolves ==
  ASSUME NEW selector, Listed(selector),
         selector.mode = "project_id"
  PROVE  Resolved(Resolver!ResolveFromSelector(selector).targets,
                  Resolver!ResolveFromSelector(selector).code, MeantBy(selector))
  <1> DEFINE v == selector.values
             w == Resolver!SelectorValues(selector)
             named == [i \in DOMAIN v |-> {v[i]} \ {Blank}]
             meant == MeantBy(selector)
             kept == {i \in DOMAIN w : \E k \in DOMAIN service.knownProjectIds :
                                         service.knownProjectIds[k] = w[i]}
             t == Resolver!KnownAmong(w)
             res == Resolver!ResolveFromSelector(selector)
  <1>0. v \in Seq(Range(v)) /\ DOMAIN v = 1..Len(v) /\ Len(v) \in Nat
    BY DEF Listed
  <1>1. w \in Seq(Range(v)) /\ Distinct(w) /\ Mentions(w, named)
    BY SelectorValuesMention
  <1>2. t = Resolver!Kept(w, kept)
    BY DEF Resolver!KnownAmong
  <1>3. kept \in SUBSET DOMAIN w
        /\ \A i \in DOMAIN w : i \in kept <=> w[i] \in Range(service.knownProjectIds)
    BY DEF Range
  <1>4. /\ DOMAIN named = 1..Len(v) /\ DOMAIN meant = 1..Len(v)
        /\ \A m \in 1..Len(v) : /\ named[m] = {v[m]} \ {Blank}
                                /\ meant[m] = Means("project_id", v[m])
    BY <1>0 DEF MeantBy
  <1>5. \A m \in 1..Len(v) :
          meant[m] = ({v[m]} \ {Blank}) \cap Range(service.knownProjectIds)
    BY <1>4 DEF Means
  <1>6. w = <<>> => t = <<>>
    <2> SUFFICES ASSUME w = <<>> PROVE Resolver!Kept(w, kept) = <<>>
      BY <1>2
    <2>1. kept = {}
      BY <1>3
    <2> QED
      BY <2>1, NothingKept
  <1>7. res.targets = t /\ (res.code = "none" <=> t # <<>>)
    <2>1. CASE w = <<>>
      <3>1. res = Resolver!Unresolved("VALIDATION_ERROR")
        BY <2>1 DEF Resolver!ResolveFromSelector
      <3> QED
        BY <2>1, <3>1, <1>6 DEF Resolver!Unresolved
    <2>2. CASE w # <<>>
      <3>1. res = Resolver!EnsureNotEmpty(t)
        BY <2>2 DEF Resolver!ResolveFromSelector
      <3> QED
        BY <3>1 DEF Resolver!EnsureNotEmpty, Resolver!Unresolved, Resolver!Found
    <2> QED
      BY <2>1, <2>2
  <1> HIDE DEF v, w, named, meant, kept, t, res
  <1>8. t \in Seq(Range(v))
    BY <1>1, <1>2, <1>3, KeptIs
  <1>9. Distinct(t)
    <2>1. \A i, j \in kept : i < j => w[i] # w[j]
      BY <1>1, <1>3 DEF Distinct
    <2> QED
      BY <1>1, <1>2, <1>3, <2>1, KeptDistinct
  <1>10. Mentions(t, meant)
    <2>1. \A k \in kept, m \in 1..Len(v) : w[k] \in named[m] => w[k] \in meant[m]
      BY <1>3, <1>4, <1>5
    <2>2. ASSUME NEW m \in 1..Len(v), NEW id \in meant[m]
          PROVE  id \in named[m]
                   /\ \A j \in DOMAIN w : w[j] = id => \E k \in kept : k <= j /\ w[k] = id
      <3>1. id \in named[m] /\ id \in Range(service.knownProjectIds)
        BY <1>4, <1>5, <2>2
      <3>2. ASSUME NEW j \in DOMAIN w, w[j] = id PROVE j \in kept /\ j <= j
        BY <1>1, <1>3, <3>1, <3>2
      <3> QED
        BY <3>1, <3>2
    <2> QED
      <3>1. /\ w \in Seq(Range(v)) /\ Mentions(w, named) /\ kept \in SUBSET DOMAIN w
            /\ DOMAIN named = 1..Len(v) /\ DOMAIN meant = 1..Len(v) /\ Len(v) \in Nat
        BY <1>0, <1>1, <1>3, <1>4
      <3>2. Mentions(Resolver!Kept(w, kept), meant)
        BY <3>1, <2>1, <2>2, KeptMentions
      <3> QED
        BY <3>2, <1>2
  <1>11. DOMAIN t \subseteq Nat /\ (t # <<>> <=> DOMAIN t # {})
    BY <1>8, SeqDomain
  <1>12. Resolved(res.targets, res.code, meant)
    BY <1>0, <1>4, <1>7, <1>9, <1>10, <1>11 DEF Resolved
  <1> QED
    BY <1>12 DEF res, meant

LEMMA ByAliasResolves ==
  ASSUME NEW selector, Listed(selector),
         selector.mode = "alias"
  PROVE  Resolved(Resolver!ResolveFromSelector(selector).targets,
                  Resolver!ResolveFromSelector(selector).code, MeantBy(selector))
  <1> DEFINE v == selector.values
             w == Resolver!SelectorValues(selector)
             named == [i \in DOMAIN v |-> {v[i]} \ {Blank}]
             leading == [i \in DOMAIN v |-> {x \in {v[i]} \ {Blank} : NamesProject(x)}]
             meant == MeantBy(selector)
             kept == {i \in DOMAIN w : Resolver!NamesProject(w[i])}
             q == Resolver!Kept(w, kept)
             p == Resolver!Projects(w)
             t == Resolver!Dealias(w)
             res == Resolver!ResolveFromSelector(selector)
  <1>0. v \in Seq(Range(v)) /\ DOMAIN v = 1..Len(v) /\ Len(v) \in Nat
    BY DEF Listed
  <1>1. w \in Seq(Range(v)) /\ Mentions(w, named)
    BY SelectorValuesMention
  <1>2. /\ p = [i \in DOMAIN q |-> service.aliasMap[q[i]]]
        /\ t = Resolver!UniqueOrdered(p)
    BY DEF Resolver!Projects, Resolver!Dealias
  <1>3. kept \in SUBSET DOMAIN w
        /\ \A i \in DOMAIN w : i \in kept <=> NamesProject(w[i])
    BY DEF Resolver!NamesProject, NamesProject
  <1>4. /\ DOMAIN named = 1..Len(v) /\ DOMAIN meant = 1..Len(v)
        /\ DOMAIN leading = 1..Len(v)
        /\ \A m \in 1..Len(v) : /\ named[m] = {v[m]} \ {Blank}
                                /\ leading[m] = {x \in {v[m]} \ {Blank} : NamesProject(x)}
                                /\ meant[m] = Means("alias", v[m])
    BY <1>0 DEF MeantBy
  <1>5. ASSUME NEW m \in 1..Len(v)
        PROVE  meant[m] = {service.aliasMap[x] : x \in leading[m]}
    <2>1. leading[m] = IF v[m] # Blank /\ NamesProject(v[m]) THEN {v[m]} ELSE {}
      BY <1>4
    <2>2. meant[m] = IF v[m] # Blank /\ NamesProject(v[m])
                     THEN {service.aliasMap[v[m]]} ELSE {}
      BY <1>4 DEF Means
    <2> QED
      BY <2>1, <2>2
  <1>6. w = <<>> => q = <<>>
    <2> SUFFICES ASSUME w = <<>> PROVE Resolver!Kept(w, kept) = <<>>
      OBVIOUS
    <2>1. kept = {}
      BY <1>3
    <2> QED
      BY <2>1, NothingKept
  <1>7. /\ res.targets = (IF w = <<>> THEN <<>> ELSE t)
        /\ res.code = "none" <=> w # <<>> /\ t # <<>>
    <2>1. CASE w = <<>>
      <3>1. res = Resolver!Unresolved("VALIDATION_ERROR")
        BY <2>1 DEF Resolver!ResolveFromSelector
      <3> QED
        BY <2>1, <3>1, <1>6 DEF Resolver!Unresolved
    <2>2. CASE w # <<>>
      <3>1. res = Resolver!EnsureNotEmpty(t)
        BY <2>2 DEF Resolver!ResolveFromSelector
      <3> QED
        BY <2>2, <3>1 DEF Resolver!EnsureNotEmpty, Resolver!Unresolved, Resolver!Found
    <2> QED
      BY <2>1, <2>2
  <1>q. q = Resolver!Kept(w, kept)
    OBVIOUS
  <1> HIDE DEF v, w, named, leading, meant, kept, q, p, t, res
  <1>8. q \in Seq(Range(v)) /\ Mentions(q, leading)
    <2>1. \A k \in kept, m \in 1..Len(v) : w[k] \in named[m] => w[k] \in leading[m]
      BY <1>3, <1>4
    <2>2. ASSUME NEW m \in 1..Len(v), NEW id \in leading[m]
          PROVE  id \in named[m]
                   /\ \A j \in DOMAIN w : w[j] = id => \E k \in kept : k <= j /\ w[k] = id
      <3>1. id \in named[m] /\ NamesProject(id)
        BY <1>4, <2>2
      <3>2. ASSUME NEW j \in DOMAIN w, w[j] = id PROVE j \in kept /\ j <= j
        BY <1>1, <1>3, <3>1, <3>2
      <3> QED
        BY <3>1, <3>2
    <2>3. /\ w \in Seq(Range(v)) /\ Mentions(w, named) /\ kept \in SUBSET DOMAIN w
          /\ DOMAIN named = 1..Len(v) /\ DOMAIN leading = 1..Len(v) /\ Len(v) \in Nat
      BY <1>0, <1>1, <1>3, <1>4
    <2>4. Mentions(Resolver!Kept(w, kept), leading)
      BY <2>1, <2>2, <2>3, KeptMentions
    <2>5. Resolver!Kept(w, kept) \in Seq(Range(v))
      BY <2>3, KeptIs
    <2> QED
      BY <2>4, <2>5, <1>q
  <1>9. Mentions(p, meant)
    <2>1. DOMAIN p = DOMAIN q /\ \A i \in DOMAIN q : p[i] = service.aliasMap[q[i]]
      BY <1>2
    <2>2. \A i \in DOMAIN q : \A m \in 1..Len(v) : q[i] \in leading[m] => p[i] \in meant[m]
      BY <1>5, <2>1
    <2>3. \A m \in 1..Len(v) : \A id \in meant[m] : \E x \in leading[m] :
            \A i \in DOMAIN q : q[i] = x => p[i] = id
      BY <1>5, <2>1
    <2>4. Renames(q, leading, p, meant)
      BY <1>4, <2>1, <2>2, <2>3 DEF Renames
    <2> QED
      BY <1>8, <2>4, RenamedMentions
  <1>10. p \in Seq(Range(p)) /\ DOMAIN p = DOMAIN q
    <2>1. DOMAIN q = 1..Len(q) /\ Len(q) \in Nat
      BY <1>8
    <2>2. DOMAIN p = DOMAIN q /\ p = [i \in DOMAIN p |-> p[i]]
      BY <1>2
    <2>3. p \in [1..Len(q) -> Range(p)]
      BY <2>1, <2>2 DEF Range
    <2> QED
      BY <2>1, <2>2, <2>3
  <1>11. t \in Seq(Range(p)) /\ Distinct(t) /\ Mentions(t, meant)
    BY <1>0, <1>2, <1>4, <1>9, <1>10, UniqueOrderedIs
  <1>12. w = <<>> => t = <<>>
    <2> SUFFICES ASSUME w = <<>> PROVE DOMAIN t = {}
      BY <1>11, SeqDomain
    <2>1. DOMAIN p = {}
      BY <1>6, <1>10
    <2>2. Range(p) = {}
      BY <2>1 DEF Range
    <2>3. \A i \in DOMAIN t : t[i] \in {}
      BY <1>11, <2>2
    <2> QED
      BY <2>3
  <1>13. DOMAIN t \subseteq Nat /\ (t # <<>> <=> DOMAIN t # {})
    BY <1>11, SeqDomain
  <1>14. res.targets = t /\ (res.code = "none" <=> t # <<>>)
    BY <1>7, <1>12
  <1>15. Resolved(res.targets, res.code, meant)
    BY <1>0, <1>4, <1>11, <1>13, <1>14 DEF Resolved
  <1> QED
    BY <1>15 DEF res, meant

LEMMA AutoResolves ==
  ASSUME NEW S, service.knownProjectIds \in Seq(S), service.autoTargetProjectIds \in Seq(S),
         NEW selector, selector.mode = "auto"
  PROVE  Resolved(Resolver!ResolveFromSelector(selector).targets,
                  Resolver!ResolveFromSelector(selector).code, MeantBy(selector))
  <1> DEFINE auto == service.autoTargetProjectIds
             known == service.knownProjectIds
             meant == MeantBy(selector)
             res == Resolver!ResolveFromSelector(selector)
  <1>1. res = Resolver!ResolveFromAuto
    BY DEF Resolver!ResolveFromSelector
  <1>2. CASE auto # <<>>
    <2> DEFINE t == Resolver!UniqueOrdered(auto)
    <2>1. meant = [i \in DOMAIN auto |-> {auto[i]}]
      BY <1>2 DEF MeantBy
    <2>2. res.targets = t /\ res.code = "none"
      BY <1>1, <1>2 DEF Resolver!ResolveFromAuto, Resolver!Found
    <2>3. DOMAIN auto = 1..Len(auto) /\ Len(auto) \in Nat
      OBVIOUS
    <2>4. Mentions(auto, meant)
      BY <2>1, MentionsItself
    <2>5. DOMAIN meant = 1..Len(auto)
      BY <2>1, <2>3
    <2>6. DOMAIN auto # {}
      BY <1>2, SeqDomain
    <2>7. \E m \in DOMAIN meant : auto[m] \in meant[m]
      BY <2>1, <2>6
    <2> HIDE DEF meant, t, res
    <2>8. t \in Seq(S) /\ Distinct(t) /\ Mentions(t, meant)
      BY <2>3, <2>4, <2>5, UniqueOrderedIs DEF t
    <2>9. DOMAIN t # {}
      BY <2>7, <2>8 DEF Mentions
    <2>10. DOMAIN t \subseteq Nat
      BY <2>8, SeqDomain
    <2>11. Resolved(res.targets, res.code, meant)
      BY <2>2, <2>3, <2>5, <2>8, <2>9, <2>10 DEF Resolved
    <2> QED
      BY <2>11 DEF res, meant
  <1>3. CASE auto = <<>> /\ Len(known) = 1
    <2>1. meant = [i \in DOMAIN known |-> {known[i]}]
      BY <1>3 DEF MeantBy
    <2>2. res.targets = known /\ res.code = "none"
      BY <1>1, <1>3 DEF Resolver!ResolveFromAuto, Resolver!Found
    <2>3. DOMAIN known = 1..1
      BY <1>3
    <2>4. Mentions(known, meant)
      BY <2>1, MentionsItself
    <2>5. DOMAIN meant = 1..1
      BY <2>1, <2>3
    <2> HIDE DEF meant, res
    <2>6. Distinct(known) /\ DOMAIN known # {} /\ DOMAIN known \subseteq Nat
      BY <2>3 DEF Distinct
    <2>7. Resolved(res.targets, res.code, meant)
      BY <2>2, <2>4, <2>5, <2>6 DEF Resolved
    <2> QED
      BY <2>7 DEF res, meant
  <1>4. CASE auto = <<>> /\ Len(known) # 1
    <2>1. meant = [i \in DOMAIN <<>> |-> {<<>>[i]}]
      BY <1>4 DEF MeantBy
    <2>2. res.targets = <<>> /\ res.code # "none"
      BY <1>1, <1>4 DEF Resolver!ResolveFromAuto, Resolver!Unresolved
    <2>3. <<>> \in Seq({}) /\ DOMAIN <<>> = {} /\ 1..0 = {}
      OBVIOUS
    <2>4. Mentions(<<>>, meant)
      BY <2>1, <2>3, MentionsItself
    <2>5. DOMAIN meant = 1..0
      BY <2>1, <2>3
    <2> HIDE DEF meant, res
    <2>6. Resolved(res.targets, res.code, meant)
      BY <2>2, <2>3, <2>4, <2>5 DEF Resolved, Distinct
    <2> QED
      BY <2>6 DEF res, meant
  <1> QED
    BY <1>2, <1>3, <1>4

-----------------------------------------------------------------------------
(* What the service was given *)

\* A file that loads names its projects.
LEMMA ProjectsAreKnown ==
  ASSUME NEW file \in AuthFiles, Loads(file)
  PROVE  Range(KnownIds(file)) # {}
  <1>1. /\ file.projects \in Seq(Range(file.projects))
        /\ file.projects # <<>>
    BY AuthFilesAssumption DEF Loads
  <1>2. 1 \in DOMAIN file.projects
    BY <1>1
  <1>3. KnownIds(file)[1] \in Range(KnownIds(file))
    BY <1>2 DEF KnownIds, Range
  <1> QED
    BY <1>3

\* Some of finitely many numbers have a greatest one.
LEMMA Greatest ==
  ASSUME NEW N \in Nat, NEW T \in SUBSET (1..N), T # {}
  PROVE  \E x \in T : \A y \in T : y <= x
  <1> DEFINE above == {u \in Nat : \A y \in T : y <= u}
  <1>1. PICK u \in above : \A x \in above : u <= x
    <2>1. N \in above
      OBVIOUS
    <2> QED
      BY <2>1, Least
  <1>2. CASE u \in T
    BY <1>2
  <1>3. CASE u \notin T
    <2>1. \A y \in T : y \in Nat /\ y # 0 /\ y <= u /\ y # u
      BY <1>3
    <2>2. u - 1 \in Nat /\ \A y \in T : y <= u - 1
      <3>1. PICK y \in T : TRUE
        OBVIOUS
      <3>2. u \in Nat /\ u > 0
        BY <2>1, <3>1
      <3> QED
        BY <2>1, <3>2
    <2>3. u - 1 \in above /\ ~ (u <= u - 1)
      BY <2>2
    <2> QED
      BY <1>1, <2>3
  <1> QED
    BY <1>2, <1>3

\* Known ids and auto targets are sequences of ids of the file.
LEMMA ListsAreKnown ==
  ASSUME NEW file \in AuthFiles, Loads(file)
  PROVE  /\ KnownIds(file) \in Seq(Range(KnownIds(file)))
         /\ AutoTargets(file) \in Seq(Range(KnownIds(file)))
         /\ DOMAIN KnownIds(file) = DOMAIN file.projects
  <1> DEFINE ids == KnownIds(file)
             flagged == {i \in DOMAIN file.projects : file.projects[i].default_for_auto}
  <1>1. file.projects \in Seq(Range(file.projects)) /\ file.auto \in Seq(Range(file.auto))
    BY AuthFilesAssumption DEF Loads
  <1>2. DOMAIN file.projects = 1..Len(file.projects) /\ Len(file.projects) \in Nat
    BY <1>1
  <1>3. DOMAIN ids = DOMAIN file.projects /\ ids = [i \in DOMAIN file.projects |-> ids[i]]
    BY DEF KnownIds
  <1>4. ids \in Seq(Range(ids))
    <2>1. ids \in [1..Len(file.projects) -> Range(ids)]
      BY <1>2, <1>3 DEF Range
    <2> QED
      BY <1>2, <2>1
  <1>5. AutoTargets(file) \in Seq(Range(ids))
    <2>1. CASE file.auto # <<>>
      <3>1. AutoTargets(file) = file.auto /\ Range(file.auto) \subseteq Range(ids)
        BY <2>1 DEF Loads, AutoTargets
      <3> QED
        BY <1>1, <3>1, SeqMonotonic
    <2>2. CASE file.auto = <<>>
      <3>1. AutoTargets(file) = Resolver!Kept(ids, flagged)
        BY <2>2 DEF AutoTargets
      <3>2. flagged \in SUBSET DOMAIN ids
        BY <1>3
      <3> QED
        BY <1>4, <3>1, <3>2, KeptIs
    <2> QED
      BY <2>1, <2>2
  <1> QED
    BY <1>3, <1>4, <1>5

\* The aliases of a file are those of its projects.
LEMMA FileAliasesAreKnown ==
  ASSUME NEW file \in AuthFiles, Loads(file), NEW alias \in DOMAIN FileAliases(file)
  PROVE  FileAliases(file)[alias] \in Range(KnownIds(file))
  <1> DEFINE claims == {i \in DOMAIN file.projects : alias \in file.projects[i].aliases}
             last == CHOOSE i \in claims : \A j \in claims : j <= i
  <1>1. /\ DOMAIN KnownIds(file) = DOMAIN file.projects
        /\ \A i \in DOMAIN file.projects : KnownIds(file)[i] = file.projects[i].id
    BY DEF KnownIds
  <1>2. DOMAIN file.projects = 1..Len(file.projects) /\ Len(file.projects) \in Nat
    BY AuthFilesAssumption DEF Loads
  <1>3. alias \in UNION {p.aliases : p \in Range(file.projects)}
        /\ FileAliases(file)[alias] = file.projects[last].id
    BY DEF FileAliases
  <1>4. claims # {}
    BY <1>3 DEF Range
  <1>5. \E i \in claims : \A j \in claims : j <= i
    BY <1>2, <1>4, Greatest
  <1>6. last \in DOMAIN file.projects
    BY <1>5
  <1> HIDE DEF last
  <1> QED
    BY <1>1, <1>3, <1>6 DEF Range

-----------------------------------------------------------------------------
(* What a request is for *)

\* The service is the one its file and environment make.
Built ==
    /\ authFile \in AuthFiles /\ Buildable(env, authFile)
    /\ service = ServiceOptions(env, authFile)

LEMMA ServiceIs ==
  ASSUME Built
  PROVE  /\ service.knownProjectIds \in Seq(DOMAIN service.projectAuthContexts)
         /\ service.autoTargetProjectIds \in Seq(DOMAIN service.projectAuthContexts)
         /\ \A alias \in DOMAIN service.aliasMap :
              \/ service.aliasMap[alias] \in DOMAIN service.projectAuthContexts
              \/ service.aliasMap[alias] \in Range(env.aliases)
  <1>1. /\ service.knownProjectIds = KnownIds(authFile)
        /\ service.autoTargetProjectIds = AutoTargets(authFile)
        /\ service.aliasMap = Aliases(env, authFile)
        /\ DOMAIN service.projectAuthContexts = Range(KnownIds(authFile))
    BY DEF Built, ServiceOptions
  <1>2. authFile \in AuthFiles /\ Loads(authFile)
    BY DEF Built, Buildable
  <1>3. ASSUME NEW alias \in DOMAIN service.aliasMap
        PROVE  \/ service.aliasMap[alias] \in Range(KnownIds(authFile))
               \/ service.aliasMap[alias] \in Range(env.aliases)
    <2>1. CASE alias \in DOMAIN env.aliases
      <3>1. service.aliasMap[alias] = env.aliases[alias]
        BY <1>1, <1>3, <2>1 DEF Aliases
      <3> QED
        BY <2>1, <3>1 DEF Range
    <2>2. CASE alias \notin DOMAIN env.aliases
      <3>1. alias \in DOMAIN FileAliases(authFile)
            /\ service.aliasMap[alias] = FileAliases(authFile)[alias]
        BY <1>1, <1>3, <2>2 DEF Aliases
      <3> QED
        BY <1>2, <3>1, FileAliasesAreKnown
    <2> QED
      BY <2>1, <2>2
  <1> QED
    BY <1>1, <1>2, <1>3, ListsAreKnown

\* What a selector means has a credential, or is where an alias of the environment leads.
LEMMA MeantIsOwn ==
  ASSUME Built, NEW selector, selector.mode \in {"auto", "project_id", "alias"},
         NEW m \in DOMAIN MeantBy(selector), NEW id \in MeantBy(selector)[m]
  PROVE  id \in DOMAIN service.projectAuthContexts \/ id \in Range(env.aliases)
  <1> DEFINE keys == DOMAIN service.projectAuthContexts
  <1>1. /\ service.knownProjectIds \in Seq(keys)
        /\ service.autoTargetProjectIds \in Seq(keys)
        /\ \A alias \in DOMAIN service.aliasMap :
             service.aliasMap[alias] \in keys \/ service.aliasMap[alias] \in Range(env.aliases)
    BY ServiceIs
  <1>2. CASE selector.mode = "auto"
    <2> DEFINE auto == IF service.autoTargetProjectIds # <<>> THEN service.autoTargetProjectIds
                       ELSE IF Len(service.knownProjectIds) = 1 THEN service.knownProjectIds
                       ELSE <<>>
    <2>1. MeantBy(selector) = [i \in DOMAIN auto |-> {auto[i]}]
      BY <1>2 DEF MeantBy
    <2>2. auto \in Seq(keys)
      BY <1>1
    <2> HIDE DEF auto
    <2>3. m \in DOMAIN auto /\ id = auto[m]
      BY <2>1
    <2> QED
      BY <2>2, <2>3
  <1>3. CASE selector.mode # "auto"
    <2>1. id \in Means(selector.mode, selector.values[m])
      BY <1>3 DEF MeantBy
    <2>2. CASE selector.mode = "project_id"
      <3>1. id \in Range(service.knownProjectIds)
        BY <2>1, <2>2 DEF Means
      <3> QED
        BY <1>1, <3>1 DEF Range
    <2>3. CASE selector.mode # "project_id"
      <3>1. \E a \in DOMAIN service.aliasMap : id = service.aliasMap[a]
        BY <2>1, <2>3 DEF Means, NamesProject
      <3> QED
        BY <1>1, <3>1
    <2> QED
      BY <2>2, <2>3
  <1> QED
    BY <1>2, <1>3

LEMMA SelectorAnswered ==
  ASSUME Built, NEW r, r.request \in Requests,
         r.request.targets = <<>>, r.request.target_selector # NoSelector,
         r.code = Resolver!ResolveFromSelector(r.request.target_selector).code,
         r.targets = Resolver!ResolveFromSelector(r.request.target_selector).targets
  PROVE  LeadsToItsOwn(r) /\ AnsweredAsNamed(r)
  <1> DEFINE selector == r.request.target_selector
             meant == MeantBy(selector)
             S == DOMAIN service.projectAuthContexts
  <1>1. selector.mode \in {"auto", "project_id", "alias"} /\ Listed(selector)
    BY RequestsAssumption DEF Listed
  <1>2. service.knownProjectIds \in Seq(S) /\ service.autoTargetProjectIds \in Seq(S)
    BY ServiceIs
  <1>3. Resolved(r.targets, r.code, meant)
    <2>1. CASE selector.mode = "auto"
      BY <1>2, <2>1, AutoResolves
    <2>2. CASE selector.mode = "project_id"
      BY <1>1, <2>2, ByIdResolves
    <2>3. CASE selector.mode = "alias"
      BY <1>1, <2>3, ByAliasResolves
    <2> QED
      BY <1>1, <2>1, <2>2, <2>3
  <1>4. \A m \in DOMAIN meant : \A id \in meant[m] :
          id \in DOMAIN service.projectAuthContexts \/ id \in Range(env.aliases)
    BY <1>1, MeantIsOwn
  <1>s. selector = r.request.target_selector /\ meant = MeantBy(r.request.target_selector)
    OBVIOUS
  <1> HIDE DEF selector, meant
  <1>5. /\ Range(r.targets) = UNION Range(meant)
        /\ \A i, j \in DOMAIN r.targets :
             i < j => FirstMention(meant, r.targets[i]) < FirstMention(meant, r.targets[j])
    BY <1>3, MentionedInOrder DEF Resolved
  <1>6. r.code = "none" <=> UNION Range(meant) # {}
    <2>1. r.code = "none" <=> DOMAIN r.targets # {}
      BY <1>3 DEF Resolved
    <2>2. DOMAIN r.targets # {} <=> Range(r.targets) # {}
      BY DEF Range
    <2> QED
      BY <1>5, <2>1, <2>2
  <1>7. LeadsToItsOwn(r)
    <2> SUFFICES ASSUME NEW i \in DOMAIN r.targets
                 PROVE  r.targets[i] \in DOMAIN service.projectAuthContexts
                          \/ r.targets[i] \in Range(env.aliases)
      BY DEF LeadsToItsOwn
    <2>1. \E m \in DOMAIN meant : r.targets[i] \in meant[m]
      BY <1>3 DEF Resolved, Mentions
    <2> QED
      BY <1>4, <2>1
  <1>8. AnsweredAsNamed(r)
    BY <1>5, <1>6, <1>s DEF AnsweredAsNamed
  <1> QED
    BY <1>7, <1>8

LEMMA TargetsAnswered ==
  ASSUME Built, NEW r, r.request \in Requests, r.request.targets # <<>>,
         r.code = Resolver!Resolve(r.request.targets).code,
         r.targets = Resolver!Resolve(r.request.targets).targets
  PROVE  LeadsToItsOwn(r) /\ AnsweredAsNamed(r)
  <1> DEFINE asked == r.request.targets
             named(t) == t.project_id # Absent \/ NamesProject(t.alias)
             place(t) == IF t.project_id # Absent THEN t.project_id
                         ELSE service.aliasMap[t.alias]
  <1>1. DOMAIN asked = 1..Len(asked) /\ Len(asked) \in Nat
    BY RequestsAssumption
  <1>2. \A i \in DOMAIN asked : Resolver!ResolvableTarget(asked[i]) <=> named(asked[i])
    BY DEF Resolver!ResolvableTarget, Resolver!NamesProject, NamesProject
  <1>3. CASE \A i \in DOMAIN asked : named(asked[i])
    <2>1. r.targets = [i \in DOMAIN asked |-> place(asked[i])]
      BY <1>2, <1>3 DEF Resolver!Resolve, Resolver!Found
    <2>2. DOMAIN r.targets = 1..Len(asked)
      BY <1>1, <2>1
    <2>3. Len(r.targets) = Len(asked)
      BY <1>1, <2>2
    <2>4. \A t \in Range(asked) : named(t)
      BY <1>3 DEF Range
    <2>5. AnsweredAsNamed(r)
      BY <2>3, <2>4 DEF AnsweredAsNamed
    <2>6. LeadsToItsOwn(r)
      <3> SUFFICES ASSUME NEW i \in DOMAIN asked
                   PROVE  \/ place(asked[i]) \in DOMAIN service.projectAuthContexts
                          \/ \E t \in Range(asked) : t.project_id = place(asked[i])
                          \/ place(asked[i]) \in Range(env.aliases)
        BY <2>1 DEF LeadsToItsOwn
      <3>1. CASE asked[i].project_id # Absent
        <4>1. asked[i] \in Range(asked) /\ asked[i].project_id = place(asked[i])
          BY <3>1 DEF Range
        <4> QED
          BY <4>1
      <3>2. CASE asked[i].project_id = Absent
        <4>1. asked[i].alias \in DOMAIN service.aliasMap
              /\ place(asked[i]) = service.aliasMap[asked[i].alias]
          BY <1>3, <3>2 DEF NamesProject
        <4> QED
          BY <4>1, ServiceIs
      <3> QED
        BY <3>1, <3>2
    <2> QED
      BY <2>5, <2>6
  <1>4. CASE \E i \in DOMAIN asked : ~ named(asked[i])
    <2>1. r.code = "TARGET_NOT_FOUND" /\ r.targets = <<>>
      BY <1>2, <1>4 DEF Resolver!Resolve, Resolver!Unresolved
    <2>2. ~ \A t \in Range(asked) : named(t)
      BY <1>4 DEF Range
    <2>3. AnsweredAsNamed(r)
      BY <2>1, <2>2 DEF AnsweredAsNamed
    <2>4. LeadsToItsOwn(r)
      BY <2>1 DEF LeadsToItsOwn
    <2> QED
      BY <2>3, <2>4
  <1> QED
    BY <1>3, <1>4

\* The answer to a request (prepare).
Answer(request) ==
    LET refused(code) == [request |-> request, code |-> code, targets |-> <<>>]
        resolved == Resolver!ResolveRequest(request.targets, request.target_selector)
    IN  IF ~ ParsesTargets(request) THEN refused("VALIDATION_ERROR")
        ELSE IF ~ TransportSupported(request) THEN refused("CAPABILITY_UNAVAILABLE")
        ELSE [request |-> request, code |-> resolved.code, targets |-> resolved.targets]

LEMMA RequestAnswered ==
  ASSUME Built, NEW request \in Requests, NEW r, r = Answer(request)
  PROVE  LeadsToItsOwn(r) /\ AnsweredAsNamed(r)
  <1>0. r.request = request
    BY DEF Answer
  <1>1. CASE ~ ParsesTargets(request)
    <2>1. r.targets = <<>>
      BY <1>1 DEF Answer
    <2> QED
      BY <1>0, <1>1, <2>1 DEF LeadsToItsOwn, AnsweredAsNamed
  <1>2. CASE ParsesTargets(request) /\ ~ TransportSupported(request)
    <2>1. r.targets = <<>> /\ r.code = "CAPABILITY_UNAVAILABLE"
      BY <1>2 DEF Answer
    <2> QED
      BY <2>1 DEF LeadsToItsOwn, AnsweredAsNamed
  <1>3. CASE ParsesTargets(request) /\ TransportSupported(request)
    <2> DEFINE resolved == Resolver!ResolveRequest(request.targets, request.target_selector)
    <2>1. r.code = resolved.code /\ r.targets = resolved.targets
      BY <1>3 DEF Answer
    <2>2. CASE request.targets # <<>>
      <3>1. resolved = Resolver!Resolve(request.targets)
        BY <2>2 DEF Resolver!ResolveRequest
      <3> QED
        BY <1>0, <2>1, <2>2, <3>1, TargetsAnswered
    <2>3. CASE request.targets = <<>>
      <3>1. request.target_selector # NoSelector
        BY <1>3, <2>3 DEF ParsesTargets
      <3>2. resolved = Resolver!ResolveFromSelector(request.target_selector)
        BY <2>3, <3>1 DEF Resolver!ResolveRequest
      <3> QED
        BY <1>0, <2>1, <2>3, <3>1, <3>2, SelectorAnswered
    <2> QED
      BY <2>2, <2>3
  <1> QED
    BY <1>1, <1>2, <1>3

-----------------------------------------------------------------------------
(* The process *)

Selected(e) == Or(RequestedTransport(e), "stdio")

\* The last request was not refused for its transport, if it is for the one it may name.
ReplyOK(r, t) ==
    r # NoReply /\ r.request.transport \in {Absent, t} => r.code # "CAPABILITY_UNAVAILABLE"

ConfigInv ==
    /\ authFile \in AuthFiles
    /\ phase \in {"built", "running"} =>
         service = ServiceOptions(env, authFile) /\ Buildable(env, authFile)
    /\ phase = "running" => ServerConfigAccepted(env) /\ transport = Selected(env)
    /\ phase # "running" => reply = NoReply
    /\ ReplyOK(reply, transport)
    /\ reply # NoReply => LeadsToItsOwn(reply) /\ AnsweredAsNamed(reply)

\* A transport the server's configuration accepts is one the service supports.
LEMMA SelectedIsSupported ==
  ASSUME NEW e, ServerConfigAccepted(e)
  PROVE  Selected(e) \in SupportedTransports(e)
  BY DEF ServerConfigAccepted, SupportedTransports, Selected

\* No target is so wrong that the transport is blamed for it.
LEMMA TargetsAreNoTransport ==
  ASSUME NEW request \in Requests, ParsesTargets(request)
  PROVE  Resolver!ResolveRequest(request.targets, request.target_selector).code
           # "CAPABILITY_UNAVAILABLE"
  <1>1. CASE request.targets # <<>>
    BY <1>1 DEF Resolver!ResolveRequest, Resolver!Resolve, Resolver!Found,
                Resolver!Unresolved
  <1>2. CASE request.targets = <<>>
    <2>1. /\ request.target_selector # NoSelector
          /\ request.target_selector.mode \in {"auto", "project_id", "alias"}
      BY <1>2, RequestsAssumption DEF ParsesTargets
    <2>2. Resolver!ResolveRequest(request.targets, request.target_selector)
            = Resolver!ResolveFromSelector(request.target_selector)
      BY <1>2, <2>1 DEF Resolver!ResolveRequest
    <2>3. Resolver!ResolveFromSelector(request.target_selector).code
            # "CAPABILITY_UNAVAILABLE"
      BY <2>1 DEF Resolver!ResolveFromSelector, Resolver!ResolveFromAuto,
                  Resolver!EnsureNotEmpty, Resolver!Found, Resolver!Unresolved
    <2> QED
      BY <2>2, <2>3
  <1> QED
    BY <1>1, <1>2

LEMMA PrepareInv ==
  ASSUME ConfigInv, NEW request \in Requests, Prepare(request)
  PROVE  ConfigInv'
  <1>1. /\ phase = "running" /\ service = ServiceOptions(env, authFile)
        /\ ServerConfigAccepted(env) /\ transport = Selected(env)
    BY DEF ConfigInv, Prepare
  <1>2. UNCHANGED <<env, authFile, phase, service, transport>>
    BY DEF Prepare
  <1>3. reply'.request = request
    BY DEF Prepare
  <1>4. ASSUME request.transport \in {Absent, transport}
        PROVE  TransportSupported(request)
    <2>1. Selected(env) \in service.supportedTransports
      BY <1>1, SelectedIsSupported DEF ServiceOptions
    <2>2. Or(service.requestedTransport, "stdio") = Selected(env)
      BY <1>1 DEF ServiceOptions, Selected
    <2> QED
      BY <1>1, <1>4, <2>1, <2>2 DEF TransportSupported
  <1>5. ReplyOK(reply', transport')
    <2> SUFFICES ASSUME request.transport \in {Absent, transport}
                 PROVE  reply'.code # "CAPABILITY_UNAVAILABLE"
      BY <1>2, <1>3 DEF ReplyOK
    <2>1. CASE ~ ParsesTargets(request)
      BY <2>1 DEF Prepare
    <2>2. CASE ParsesTargets(request)
      BY <1>4, <2>2, TargetsAreNoTransport DEF Prepare
    <2> QED
      BY <2>1, <2>2
  <1>6. LeadsToItsOwn(reply') /\ AnsweredAsNamed(reply')
    <2>1. reply' = Answer(request)
      <3>1. CASE ~ ParsesTargets(request)
        BY <3>1 DEF Prepare, Answer
      <3>2. CASE ParsesTargets(request) /\ ~ TransportSupported(request)
        BY <3>2 DEF Prepare, Answer
      <3>3. CASE ParsesTargets(request) /\ TransportSupported(request)
        BY <3>3 DEF Prepare, Answer
      <3> QED
        BY <3>1, <3>2, <3>3
    <2>2. Built
      BY <1>1 DEF ConfigInv, Built
    <2>3. ASSUME NEW r, r = Answer(request) PROVE LeadsToItsOwn(r) /\ AnsweredAsNamed(r)
      BY <2>2, <2>3, RequestAnswered
    <2> QED
      BY <2>1, <2>3
  <1>7. LeadsToItsOwn(reply)' /\ AnsweredAsNamed(reply)'
    <2>1. LeadsToItsOwn(reply)'
      BY <1>2, <1>6 DEF LeadsToItsOwn
    <2>2. AnsweredAsNamed(reply)'
      BY <1>2, <1>6 DEF AnsweredAsNamed, ParsesTargets, MeantBy, Means, NamesProject
    <2> QED
      BY <2>1, <2>2
  <1> QED
    BY <1>1, <1>2, <1>5, <1>7 DEF ConfigInv

LEMMA ConfigInvariant == Spec => []ConfigInv
  <1>1. Init => ConfigInv
    BY DEF Init, ConfigInv, ReplyOK
  <1>2. ConfigInv /\ [Next]_configVars => ConfigInv'
    <2> SUFFICES ASSUME ConfigInv, [Next]_configVars PROVE ConfigInv'
      OBVIOUS
    <2>1. CASE BuildAppwriteControlService
      BY <2>1 DEF BuildAppwriteControlService, ConfigInv, ReplyOK
    <2>2. CASE ResolveRuntimeServerConfig
      BY <2>2 DEF ResolveRuntimeServerConfig, ConfigInv, ReplyOK, Selected
    <2>3. CASE \E request \in Requests : Prepare(request)
      BY <2>3, PrepareInv
    <2>4. CASE UNCHANGED configVars
      <3>1. UNCHANGED <<env, authFile, phase, service, transport, reply>>
        BY <2>4 DEF configVars
      <3>2. reply # NoReply => LeadsToItsOwn(reply)'
        BY <3>1 DEF ConfigInv, LeadsToItsOwn
      <3>3. reply # NoReply => AnsweredAsNamed(reply)'
        BY <3>1 DEF ConfigInv, AnsweredAsNamed, ParsesTargets, MeantBy, Means, NamesProject
      <3> QED
        BY <3>1, <3>2, <3>3 DEF ConfigInv
    <2> QED
      BY <2>1, <2>2, <2>3, <2>4 DEF Next
  <1> QED
    BY <1>1, <1>2, PTL DEF Spec

\* A process that runs never turns a request down for a transport it was itself started
\* with, or for none (supportedTransports against resolveRuntimeServerConfig).
THEOREM OwnTransportServed == Spec => []ServesItsOwnTransport
  <1>1. ConfigInv => ServesItsOwnTransport
    BY DEF ConfigInv, ReplyOK, ServesItsOwnTransport
  <1> QED
    BY <1>1, ConfigInvariant, PTL

\* A process that runs has what executor, service and adapter were modelled with: no
\* project without a credential, no management without a key, no default secret in
\* production, no negative number of retries (readProjectAuthFile, readConfig).
THEOREM FitToServe == Spec => []StartsFitToServe
  <1>1. ConfigInv => StartsFitToServe
    <2> SUFFICES ASSUME ConfigInv, phase = "running" PROVE StartsFitToServe
      BY DEF StartsFitToServe
    <2>1. /\ service = ServiceOptions(env, authFile)
          /\ Buildable(env, authFile) /\ authFile \in AuthFiles
      BY DEF ConfigInv
    <2>2. /\ Range(service.knownProjectIds) = DOMAIN service.projectAuthContexts
          /\ service.projectAuthContexts # <<>>
      BY <2>1, ProjectsAreKnown DEF ServiceOptions, Buildable
    <2>3. service.projectManagementAvailable => service.managementAuthContext # Unset
      BY <2>1 DEF ServiceOptions, Buildable
    <2>4. env.production => service.confirmationSecret # "default"
      BY <2>1 DEF ServiceOptions, Buildable, SecretAccepted
    <2>5. service.maxRetries >= 0
      BY <2>1 DEF ServiceOptions, Buildable, AdapterConfigAccepted, UnsetOr, Or
    <2> QED
      BY <2>2, <2>3, <2>4, <2>5 DEF StartsFitToServe
  <1> QED
    BY <1>1, ConfigInvariant, PTL

\* Whatever a request is for has a credential of the file, but for a project the request
\* itself names by its id and for one an alias of the environment leads to
\* (readProjectAuthFile's check of auto targets, aliasMap, resolveTargetSelector).
THEOREM CredentialsFound == Spec => []TargetsHaveCredentials
  <1>1. ConfigInv => TargetsHaveCredentials
    BY DEF ConfigInv, TargetsHaveCredentials
  <1> QED
    BY <1>1, ConfigInvariant, PTL

\* A selector gives the projects it names, each once and in the order of first mention,
\* or is refused because it names none; targets are taken one by one (TargetResolver).
THEOREM NamesResolved == Spec => []ResolvesAsNamed
  <1>1. ConfigInv => ResolvesAsNamed
    BY DEF ConfigInv, ResolvesAsNamed
  <1> QED
    BY <1>1, ConfigInvariant, PTL
=============================================================================
