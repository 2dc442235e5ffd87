---------------------------- MODULE StopsProofs ----------------------------
(***************************************************************************)
(* Proofs about Stops, for any catalog, edits and changes of the catalog:  *)
(* no stop of the trip is lost or doubled, whatever becomes of its id; one *)
(* that is listed apart keeps its name and its true reason; no text of a   *)
(* tour is told twice; and the legs of an inquiry are the days of the trip.*)
(*                                                                         *)
(* Inv is about ids and the log, TaleOK about the stored projection and    *)
(* the tombstones; together they are inductive, and the four properties    *)
(* follow from them by what the recursive operators compute.               *)
(***************************************************************************)
EXTENDS Stops, FiniteSetTheorems, SequenceTheorems, TLAPS

-----------------------------------------------------------------------------
(* Induction, and what it says of recursive functions. *)

(* A set of numbers has a least one: a finite 0..x has no endless descent. *)
LEMMA LeastInNat ==
  ASSUME NEW T \in SUBSET Nat, T # {}
  PROVE  \E x \in T : \A y \in T : x <= y
<1> DEFINE Below == {0..x : x \in T}
<1>1. Below \subseteq FiniteSubsetsOf(Nat) /\ Below # {}
  <2>1. ASSUME NEW B \in Below PROVE B \in FiniteSubsetsOf(Nat)
    <3>1. PICK x \in T : B = 0..x
      OBVIOUS
    <3>2. IsFiniteSet(B) /\ B \in SUBSET Nat
      BY <3>1, FS_Interval
    <3>3. QED
      BY <3>2 DEF FiniteSubsetsOf
  <2>2. QED
    BY <2>1
<1>2. PICK B \in Below : \A C \in Below : ~ (<<C, B>> \in StrictSubsetOrdering(Nat))
  BY ONLY <1>1, FS_StrictSubsetOrderingWellFounded, WFMin
<1>3. PICK x \in T : B = 0..x
  OBVIOUS
<1>4. ASSUME NEW y \in T, y < x PROVE FALSE
  <2>1. 0..y \in Below
    OBVIOUS
  <2>2. <<0..y, B>> \in StrictSubsetOrdering(Nat)
    BY <1>3, <1>4 DEF StrictSubsetOrdering
  <2>3. QED
    BY <2>1, <2>2, <1>2
<1>5. QED
  BY <1>4

(* Induction on numbers, stated of a set. *)
LEMMA Induction ==
  ASSUME NEW S, 0 \in S, \A n \in Nat : n \in S => n + 1 \in S
  PROVE  \A n \in Nat : n \in S
<1> DEFINE T == Nat \ S
<1>1. SUFFICES ASSUME T # {} PROVE FALSE
  OBVIOUS
<1>2. PICK x \in T : \A y \in T : x <= y
  BY <1>1, LeastInNat
<1>3. x # 0 /\ x - 1 \in Nat /\ x - 1 \notin T
  BY <1>2
<1>4. QED
  BY <1>2, <1>3

Made(f, N, A, a, Step) == f \in [0..N -> A] /\ f[0] = a /\ \A n \in 1..N : f[n] = Step[n][f[n - 1]]

(* What is made step by step exists. *)
LEMMA Iterates ==
  ASSUME NEW N \in Nat, NEW A, NEW a \in A, NEW Step \in [1..N -> [A -> A]]
  PROVE  \E f : Made(f, N, A, a, Step)
<1> DEFINE Upto(k) == \E f \in [0..k -> A] : f[0] = a /\ \A n \in 1..k : f[n] = Step[n][f[n - 1]]
           S == {k \in Nat : k <= N => Upto(k)}
<1>1. Upto(0)
  <2>1. PICK f : f = [n \in 0..0 |-> a]
    OBVIOUS
  <2>2. f \in [0..0 -> A] /\ f[0] = a /\ \A n \in 1..0 : f[n] = Step[n][f[n - 1]]
    BY <2>1
  <2>3. QED
    BY <2>2
<1>2. ASSUME NEW k \in Nat, k + 1 <= N, Upto(k) PROVE Upto(k + 1)
  <2>1. PICK f \in [0..k -> A] : f[0] = a /\ \A n \in 1..k : f[n] = Step[n][f[n - 1]]
    BY <1>2
  <2>2. PICK x : x = Step[k + 1][f[k]]
    OBVIOUS
  <2>3. x \in A
    <3>1. k + 1 \in 1..N /\ f[k] \in A
      BY <1>2
    <3>2. QED
      BY <2>2, <3>1
  <2>4. PICK g : g = [n \in 0..(k + 1) |-> IF n <= k THEN f[n] ELSE x]
    OBVIOUS
  <2>5. \A n \in 0..k : g[n] = f[n] /\ f[n] \in A
    BY <2>4
  <2>6. g[k + 1] = x
    BY <2>4
  <2>7. g \in [0..(k + 1) -> A]
    <3>1. \A n \in 0..(k + 1) : (IF n <= k THEN f[n] ELSE x) \in A
      BY <2>3
    <3>2. QED
      BY <2>4, <3>1
  <2>8. g[0] = a
    BY <2>1, <2>5
  <2>9. ASSUME NEW n \in 1..(k + 1) PROVE g[n] = Step[n][g[n - 1]]
    <3>1. CASE n = k + 1
      BY <2>2, <2>5, <2>6, <3>1
    <3>2. CASE n # k + 1
      <4>1. n \in 1..k /\ n \in 0..k /\ n - 1 \in 0..k
        BY <3>2
      <4>2. QED
        BY <2>1, <2>5, <4>1
    <3>3. QED
      BY <3>1, <3>2
  <2>10. QED
    BY <2>7, <2>8, <2>9
<1>3. N \in S
  <2> HIDE DEF Upto
  <2>1. 0 \in S /\ \A k \in Nat : k \in S => k + 1 \in S
    BY <1>1, <1>2
  <2> HIDE DEF S
  <2>2. QED
    BY <2>1, Induction
<1>4. Upto(N)
  <2> HIDE DEF Upto
  <2>1. QED
    BY <1>3
<1>5. QED
  BY <1>4 DEF Made

(* Whatever is made so stays in the set. *)
Closed(F, N, A) == F[0] \in A /\ \A n \in 1..N : F[n - 1] \in A => F[n] \in A

LEMMA Iterated ==
  ASSUME NEW N \in Nat, NEW A, NEW F, Closed(F, N, A)
  PROVE  \A n \in 0..N : F[n] \in A
<1> DEFINE S == {k \in Nat : k <= N => F[k] \in A}
<1>1. 0 \in S
  BY DEF Closed
<1>2. ASSUME NEW k \in Nat, k \in S PROVE k + 1 \in S
  <2>1. k + 1 <= N => k + 1 \in 1..N /\ k + 1 - 1 = k
    OBVIOUS
  <2>2. QED
    BY <1>2, <2>1 DEF Closed
<1>3. \A k \in Nat : k \in S
  <2> HIDE DEF S
  <2>1. QED
    BY <1>1, <1>2, Induction
<1>4. QED
  BY <1>3

-----------------------------------------------------------------------------
(* Lists. *)

(* No element twice. *)
Once(s) == \A m, n \in DOMAIN s : s[m] = s[n] => m = n

(* A comprehension and what it has after each element. *)
ChosenBy(f, S, list, T) ==
  /\ f \in [0..Len(list) -> Seq(S)] /\ f[0] = <<>> /\ Only(list, T) = f[Len(list)]
  /\ \A n \in 1..Len(list) : f[n] = IF list[n] \in T THEN Append(f[n - 1], list[n]) ELSE f[n - 1]

LEMMA OnlyIs ==
  ASSUME NEW S, NEW list \in Seq(S), NEW T
  PROVE  \E f : ChosenBy(f, S, list, T)
<1> DEFINE grow(n, s) == IF list[n] \in T THEN Append(s, list[n]) ELSE s
           Def(f) == [n \in 0..Len(list) |->
                        IF n = 0 THEN <<>>
                        ELSE LET before == f[n - 1]
                             IN IF list[n] \in T THEN Append(before, list[n]) ELSE before]
<1>1. PICK Step, A, N, a : Step = [n \in 1..N |-> [s \in A |-> grow(n, s)]] /\ A = Seq(S) /\ N = Len(list) /\ a = <<>>
  OBVIOUS
<1>2. N \in Nat /\ a \in A /\ \A n \in 1..N, s \in A : grow(n, s) \in A
  BY <1>1
<1>3. PICK f \in [0..N -> A] : f[0] = a /\ \A n \in 1..N : f[n] = Step[n][f[n - 1]]
  <2> HIDE DEF grow
  <2>1. Step \in [1..N -> [A -> A]]
    BY <1>1, <1>2
  <2>2. N \in Nat /\ a \in A
    BY <1>2
  <2>3. PICK f : Made(f, N, A, a, Step)
    BY ONLY <2>1, <2>2, Iterates
  <2>4. QED
    BY <2>3 DEF Made
<1>4. \A n \in 1..N : f[n] = grow(n, f[n - 1])
  <2>1. ASSUME NEW n \in 1..N PROVE f[n] = grow(n, f[n - 1])
    <3>1. n - 1 \in 0..N /\ f[n - 1] \in A
      BY <1>2
    <3> HIDE DEF grow
    <3>2. QED
      BY <1>1, <1>3, <3>1
  <2>2. QED
    BY <2>1
<1>5. f = Def(f)
  <2>1. f = [n \in 0..N |-> f[n]] /\ \A n \in 0..N : n # 0 => n \in 1..N
    BY <1>2
  <2>2. \A n \in 0..N : f[n] = IF n = 0 THEN <<>> ELSE grow(n, f[n - 1])
    BY <1>1, <1>3, <1>4, <2>1
  <2>3. QED
    BY <1>1, <2>1, <2>2
<1>6. PICK F : F = Def(F) /\ Only(list, T) = F[Len(list)]
  <2> DEFINE G == CHOOSE g : g = Def(g)
  <2>1. G = Def(G)
    BY <1>5
  <2>2. Only(list, T) = G[Len(list)]
    BY DEF Only
  <2>3. QED
    BY <2>1, <2>2
<1>7. F[0] = a /\ \A n \in 1..N : F[n] = grow(n, F[n - 1])
  <2>1. ASSUME NEW n \in 1..N PROVE F[n] = grow(n, F[n - 1])
    <3>1. n \in 0..Len(list) /\ n # 0
      BY <1>1, <1>2
    <3>2. QED
      BY <1>6, <3>1
  <2>2. 0 \in 0..Len(list)
    OBVIOUS
  <2>3. F[0] = <<>>
    BY <1>6, <2>2
  <2>4. QED
    BY <1>1, <2>1, <2>3
<1>8. \A n \in 0..N : F[n] \in A
  <2> HIDE DEF grow
  <2>1. Closed(F, N, A)
    BY ONLY <1>2, <1>7 DEF Closed
  <2>2. N \in Nat
    BY <1>2
  <2>3. QED
    BY ONLY <2>1, <2>2, Iterated
<1>9. F \in [0..N -> A]
  <2>1. F = [n \in 0..N |-> F[n]]
    BY <1>1, <1>6
  <2> HIDE DEF grow
  <2>2. QED
    BY ONLY <1>8, <2>1
<1>10. QED
  BY <1>1, <1>6, <1>7, <1>9 DEF ChosenBy

(* What an append adds. *)
LEMMA AppendIs ==
  ASSUME NEW S, NEW s \in Seq(S), NEW x \in S
  PROVE  /\ Append(s, x) \in Seq(S) /\ Range(Append(s, x)) = Range(s) \cup {x}
         /\ Once(s) /\ x \notin Range(s) => Once(Append(s, x))
<1>1. PICK t : t = Append(s, x)
  OBVIOUS
<1>2. /\ Len(s) \in Nat /\ DOMAIN s = 1..Len(s)
      /\ t \in Seq(S) /\ DOMAIN t = 1..(Len(s) + 1)
      /\ t[Len(s) + 1] = x /\ \A m \in 1..Len(s) : t[m] = s[m]
  BY <1>1
<1>3. Range(t) = Range(s) \cup {x}
  <2>1. ASSUME NEW m \in 1..(Len(s) + 1) PROVE t[m] \in Range(s) \cup {x}
    <3>1. CASE m = Len(s) + 1
      BY <1>2, <3>1
    <3>2. CASE m # Len(s) + 1
      <4>1. m \in 1..Len(s)
        BY <1>2, <3>2
      <4>2. QED
        BY <1>2, <4>1 DEF Range
    <3>3. QED
      BY <3>1, <3>2
  <2>2. x \in Range(t)
    BY <1>2 DEF Range
  <2>3. ASSUME NEW m \in 1..Len(s) PROVE s[m] \in Range(t)
    BY <1>2 DEF Range
  <2>4. QED
    BY <1>2, <2>1, <2>2, <2>3 DEF Range
<1>4. ASSUME Once(s), x \notin Range(s) PROVE Once(t)
  <2>1. SUFFICES ASSUME NEW m \in DOMAIN t, NEW n \in DOMAIN t, t[m] = t[n] PROVE m = n
    BY DEF Once
  <2>2. \A k \in 1..Len(s) : s[k] # x
    BY <1>2, <1>4 DEF Range
  <2>3. QED
    BY <1>2, <1>4, <2>1, <2>2 DEF Once
<1>5. QED
  BY <1>1, <1>2, <1>3, <1>4

(* The first elements of a list. *)
Firsts(list, n) == {list[m] : m \in 1..n}

LEMMA FirstsGrow ==
  ASSUME NEW S, NEW list \in Seq(S)
  PROVE  /\ Firsts(list, 0) = {} /\ Firsts(list, Len(list)) = Range(list)
         /\ \A n \in 1..Len(list) : Firsts(list, n) = Firsts(list, n - 1) \cup {list[n]}
         /\ Once(list) => \A n \in 1..Len(list) : list[n] \notin Firsts(list, n - 1)
<1>1. Len(list) \in Nat /\ DOMAIN list = 1..Len(list)
  OBVIOUS
<1>2. Firsts(list, 0) = {}
  BY DEF Firsts
<1>3. Firsts(list, Len(list)) = Range(list)
  BY <1>1 DEF Firsts, Range
<1>4. ASSUME NEW n \in 1..Len(list) PROVE Firsts(list, n) = Firsts(list, n - 1) \cup {list[n]}
  <2>1. \A m \in Int : m \in 1..n <=> m \in 1..(n - 1) \/ m = n
    BY <1>1
  <2>2. 1..n = (1..(n - 1)) \cup {n}
    BY <1>1
  <2>3. QED
    BY <2>2 DEF Firsts
<1>5. ASSUME Once(list), NEW n \in 1..Len(list), list[n] \in Firsts(list, n - 1) PROVE FALSE
  BY <1>1, <1>5 DEF Firsts, Once
<1>6. QED
  BY <1>2, <1>3, <1>4, <1>5

(* A comprehension has the elements it asks for, none twice if the list has   *)
(* none twice.                                                                *)
LEMMA OnlyKeeps ==
  ASSUME NEW S, NEW list \in Seq(S), NEW T
  PROVE  /\ Only(list, T) \in Seq(S) /\ Range(Only(list, T)) = Range(list) \cap T
         /\ Once(list) => Once(Only(list, T))
<1>0. PICK f : ChosenBy(f, S, list, T)
  BY OnlyIs
<1>1. /\ f \in [0..Len(list) -> Seq(S)] /\ f[0] = <<>> /\ Only(list, T) = f[Len(list)]
      /\ \A n \in 1..Len(list) : f[n] = IF list[n] \in T THEN Append(f[n - 1], list[n]) ELSE f[n - 1]
  BY <1>0 DEF ChosenBy
<1> DEFINE Good(n) == Range(f[n]) = Firsts(list, n) \cap T /\ (Once(list) => Once(f[n]))
           G == {n \in Nat : n <= Len(list) => Good(n)}
<1>2. Len(list) \in Nat
  OBVIOUS
<1>3. Good(0)
  <2>1. Range(<<>>) = {} /\ Once(<<>>)
    BY DEF Range, Once
  <2>2. QED
    BY <1>1, <2>1, FirstsGrow
<1>4. ASSUME NEW n \in Nat, n + 1 <= Len(list), Good(n) PROVE Good(n + 1)
  <2>1. n + 1 \in 1..Len(list) /\ n \in 0..Len(list) /\ n + 1 - 1 = n /\ f[n] \in Seq(S) /\ list[n + 1] \in S
    BY <1>1, <1>2, <1>4
  <2>2. /\ f[n + 1] = IF list[n + 1] \in T THEN Append(f[n], list[n + 1]) ELSE f[n]
        /\ Firsts(list, n + 1) = Firsts(list, n) \cup {list[n + 1]}
        /\ Once(list) => list[n + 1] \notin Firsts(list, n)
    BY <1>1, <2>1, FirstsGrow
  <2>3. CASE list[n + 1] \in T
    <3>1. /\ Range(f[n + 1]) = Range(f[n]) \cup {list[n + 1]}
          /\ Once(f[n]) /\ list[n + 1] \notin Range(f[n]) => Once(f[n + 1])
      BY <2>1, <2>2, <2>3, AppendIs
    <3>2. QED
      BY <1>4, <2>2, <2>3, <3>1
  <2>4. CASE list[n + 1] \notin T
    BY <1>4, <2>2, <2>4
  <2>5. QED
    BY <2>3, <2>4
<1>5. Len(list) \in G
  <2> HIDE DEF Good
  <2>1. 0 \in G /\ \A n \in Nat : n \in G => n + 1 \in G
    BY <1>3, <1>4
  <2> HIDE DEF G
  <2>2. QED
    BY <1>2, <2>1, Induction
<1>6. Good(Len(list))
  BY <1>2, <1>5
<1>7. QED
  BY <1>1, <1>2, <1>6, FirstsGrow

(* A list without repetitions and what it has after each element. *)
SaidOnce(f, S, list) ==
  /\ f \in [0..Len(list) -> Seq(S)] /\ f[0] = <<>> /\ Distinct(list) = f[Len(list)]
  /\ \A n \in 1..Len(list) : f[n] = IF list[n] \in Range(f[n - 1]) THEN f[n - 1] ELSE Append(f[n - 1], list[n])

LEMMA DistinctIs ==
  ASSUME NEW S, NEW list \in Seq(S)
  PROVE  \E f : SaidOnce(f, S, list)
<1> DEFINE grow(n, s) == IF list[n] \in Range(s) THEN s ELSE Append(s, list[n])
           Def(f) == [n \in 0..Len(list) |->
                        IF n = 0 THEN <<>>
                        ELSE LET before == f[n - 1]
                             IN IF list[n] \in Range(before) THEN before ELSE Append(before, list[n])]
<1>1. PICK Step, A, N, a : Step = [n \in 1..N |-> [s \in A |-> grow(n, s)]] /\ A = Seq(S) /\ N = Len(list) /\ a = <<>>
  OBVIOUS
<1>2. N \in Nat /\ a \in A /\ \A n \in 1..N, s \in A : grow(n, s) \in A
  BY <1>1
<1>3. PICK f \in [0..N -> A] : f[0] = a /\ \A n \in 1..N : f[n] = Step[n][f[n - 1]]
  <2> HIDE DEF grow
  <2>1. Step \in [1..N -> [A -> A]]
    BY <1>1, <1>2
  <2>2. N \in Nat /\ a \in A
    BY <1>2
  <2>3. PICK f : Made(f, N, A, a, Step)
    BY ONLY <2>1, <2>2, Iterates
  <2>4. QED
    BY <2>3 DEF Made
<1>4. \A n \in 1..N : f[n] = grow(n, f[n - 1])
  <2>1. ASSUME NEW n \in 1..N PROVE f[n] = grow(n, f[n - 1])
    <3>1. n - 1 \in 0..N /\ f[n - 1] \in A
      BY <1>2
    <3> HIDE DEF grow
    <3>2. QED
      BY <1>1, <1>3, <3>1
  <2>2. QED
    BY <2>1
<1>5. f = Def(f)
  <2>1. f = [n \in 0..N |-> f[n]] /\ \A n \in 0..N : n # 0 => n \in 1..N
    BY <1>2
  <2>2. \A n \in 0..N : f[n] = IF n = 0 THEN <<>> ELSE grow(n, f[n - 1])
    BY <1>1, <1>3, <1>4, <2>1
  <2>3. QED
    BY <1>1, <2>1, <2>2
<1>6. PICK F : F = Def(F) /\ Distinct(list) = F[Len(list)]
  <2> DEFINE G == CHOOSE g : g = Def(g)
  <2>1. G = Def(G)
    BY <1>5
  <2>2. Distinct(list) = G[Len(list)]
    BY DEF Distinct
  <2>3. QED
    BY <2>1, <2>2
<1>7. F[0] = a /\ \A n \in 1..N : F[n] = grow(n, F[n - 1])
  <2>1. ASSUME NEW n \in 1..N PROVE F[n] = grow(n, F[n - 1])
    <3>1. n \in 0..Len(list) /\ n # 0
      BY <1>1, <1>2
    <3>2. QED
      BY <1>6, <3>1
  <2>2. 0 \in 0..Len(list)
    BY <1>1, <1>2
  <2>3. F[0] = <<>>
    BY <1>6, <2>2
  <2>4. QED
    BY <1>1, <2>1, <2>3
<1>8. \A n \in 0..N : F[n] \in A
  <2> HIDE DEF grow
  <2>1. Closed(F, N, A)
    BY ONLY <1>2, <1>7 DEF Closed
  <2>2. N \in Nat
    BY <1>2
  <2>3. QED
    BY ONLY <2>1, <2>2, Iterated
<1>9. F \in [0..N -> A]
  <2>1. F = [n \in 0..N |-> F[n]]
    BY <1>1, <1>6
  <2> HIDE DEF grow
  <2>2. QED
    BY ONLY <1>8, <2>1
<1>10. QED
  BY <1>1, <1>6, <1>7, <1>9 DEF SaidOnce


(* It says all, each once. *)
LEMMA DistinctKeeps ==
  ASSUME NEW S, NEW list \in Seq(S)
  PROVE  Distinct(list) \in Seq(S) /\ Range(Distinct(list)) = Range(list) /\ Once(Distinct(list))
<1>0. PICK f : SaidOnce(f, S, list)
  BY DistinctIs
<1>1. /\ f \in [0..Len(list) -> Seq(S)] /\ f[0] = <<>> /\ Distinct(list) = f[Len(list)]
      /\ \A n \in 1..Len(list) : f[n] = IF list[n] \in Range(f[n - 1]) THEN f[n - 1] ELSE Append(f[n - 1], list[n])
  BY <1>0 DEF SaidOnce
<1> DEFINE Good(n) == Range(f[n]) = Firsts(list, n) /\ Once(f[n])
           G == {n \in Nat : n <= Len(list) => Good(n)}
<1>2. Len(list) \in Nat
  OBVIOUS
<1>3. Good(0)
  <2>1. Range(<<>>) = {} /\ Once(<<>>)
    BY DEF Range, Once
  <2>2. QED
    BY <1>1, <2>1, FirstsGrow
<1>4. ASSUME NEW n \in Nat, n + 1 <= Len(list), Good(n) PROVE Good(n + 1)
  <2>1. n + 1 \in 1..Len(list) /\ n \in 0..Len(list) /\ n + 1 - 1 = n /\ f[n] \in Seq(S) /\ list[n + 1] \in S
    BY <1>1, <1>2, <1>4
  <2>2. /\ f[n + 1] = IF list[n + 1] \in Range(f[n]) THEN f[n] ELSE Append(f[n], list[n + 1])
        /\ Firsts(list, n + 1) = Firsts(list, n) \cup {list[n + 1]}
    BY <1>1, <2>1, FirstsGrow
  <2>3. CASE list[n + 1] \notin Range(f[n])
    <3>1. /\ Range(f[n + 1]) = Range(f[n]) \cup {list[n + 1]}
          /\ Once(f[n]) /\ list[n + 1] \notin Range(f[n]) => Once(f[n + 1])
      BY <2>1, <2>2, <2>3, AppendIs
    <3>2. QED
      BY <1>4, <2>2, <2>3, <3>1
  <2>4. CASE list[n + 1] \in Range(f[n])
    BY <1>4, <2>2, <2>4
  <2>5. QED
    BY <2>3, <2>4
<1>5. Len(list) \in G
  <2> HIDE DEF Good
  <2>1. 0 \in G /\ \A n \in Nat : n \in G => n + 1 \in G
    BY <1>3, <1>4
  <2> HIDE DEF G
  <2>2. QED
    BY <1>2, <2>1, Induction
<1>6. Good(Len(list))
  BY <1>2, <1>5
<1>7. QED
  BY <1>1, <1>2, <1>6, FirstsGrow

LEMMA SeqWidens ==
  ASSUME NEW S, NEW T, S \subseteq T, NEW s \in Seq(S)
  PROVE  s \in Seq(T)
<1>1. Len(s) \in Nat /\ s = [n \in 1..Len(s) |-> s[n]] /\ \A n \in 1..Len(s) : s[n] \in T
  OBVIOUS
<1>2. QED
  BY ONLY <1>1

(* One list after the other. *)
LEMMA ConcatIs ==
  ASSUME NEW S, NEW s \in Seq(S), NEW t \in Seq(S)
  PROVE  /\ s \o t \in Seq(S) /\ Range(s \o t) = Range(s) \cup Range(t)
         /\ Once(s) /\ Once(t) /\ Range(s) \cap Range(t) = {} => Once(s \o t)
<1>1. PICK r : r = s \o t
  OBVIOUS
<1>2. /\ Len(s) \in Nat /\ Len(t) \in Nat /\ DOMAIN s = 1..Len(s) /\ DOMAIN t = 1..Len(t)
      /\ r \in Seq(S) /\ DOMAIN r = 1..(Len(s) + Len(t))
      /\ \A n \in 1..(Len(s) + Len(t)) : r[n] = IF n <= Len(s) THEN s[n] ELSE t[n - Len(s)]
  BY <1>1
<1>3. ASSUME NEW n \in DOMAIN r
      PROVE  \/ n \in DOMAIN s /\ r[n] = s[n]
             \/ n - Len(s) \in DOMAIN t /\ n > Len(s) /\ r[n] = t[n - Len(s)]
  BY <1>2
<1>4. Range(r) = Range(s) \cup Range(t)
  <2>1. \A n \in DOMAIN s : n \in DOMAIN r /\ r[n] = s[n]
    BY <1>2
  <2>2. \A n \in DOMAIN t : n + Len(s) \in DOMAIN r /\ r[n + Len(s)] = t[n]
    BY <1>2
  <2>3. QED
    BY <1>3, <2>1, <2>2 DEF Range
<1>5. ASSUME Once(s), Once(t), Range(s) \cap Range(t) = {}, NEW m \in DOMAIN r, NEW n \in DOMAIN r, r[m] = r[n]
      PROVE  m = n
  <2>1. m \in Int /\ n \in Int /\ Len(s) \in Int
    BY <1>2
  <2>2. \A a \in DOMAIN s, b \in DOMAIN t : s[a] # t[b]
    BY <1>5 DEF Range
  <2>3. m \in DOMAIN s /\ n \in DOMAIN s /\ r[m] = s[m] /\ r[n] = s[n] => m = n
    BY <1>5 DEF Once
  <2>4. m - Len(s) \in DOMAIN t /\ n - Len(s) \in DOMAIN t /\ r[m] = t[m - Len(s)] /\ r[n] = t[n - Len(s)]
          => m - Len(s) = n - Len(s)
    BY <1>5 DEF Once
  <2>5. QED
    BY <1>3, <1>5, <2>1, <2>2, <2>3, <2>4
<1>6. QED
  BY <1>1, <1>2, <1>4, <1>5 DEF Once

(* A list read backwards. *)
LEMMA ReverseIs ==
  ASSUME NEW S, NEW s \in Seq(S)
  PROVE  Reverse(s) \in Seq(S)
BY DEF Reverse

-----------------------------------------------------------------------------
(* Ids. *)

Hop(redirects, j) == NextHop(IdRows, redirects, j)


(* The next hop of a walk. *)
Hopped(n, s, redirects, readable) ==
  LET to == Hop(IF n <= readable THEN redirects ELSE NoRows, s.id)
  IN IF to \in s.been THEN s ELSE [id |-> to, been |-> s.been \cup {to}]

(* A walk along the chain of an id, and where it is after each hop. *)
WalkedBy(f, X, redirects, readable, i) ==
  /\ f \in [0..Hops -> [id : X, been : SUBSET X]] /\ f[0] = [id |-> i, been |-> {i}] /\ Walk(IdRows, redirects, readable, i) = f[Hops]
  /\ \A n \in 1..Hops : f[n] = Hopped(n, f[n - 1], redirects, readable)

LEMMA WalkIs ==
  ASSUME NEW X, NEW redirects, NEW readable, NEW i \in X,
         \A j \in X : Hop(redirects, j) \in X /\ Hop(NoRows, j) \in X
  PROVE  \E f : WalkedBy(f, X, redirects, readable, i)
<1> DEFINE grow(n, s) == Hopped(n, s, redirects, readable)
           Def(f) == [n \in 0..Hops |->
                        IF n = 0 THEN [id |-> i, been |-> {i}]
                        ELSE LET before == f[n - 1]
                                 to == NextHop(IdRows, IF n <= readable THEN redirects ELSE NoRows, before.id)
                             IN IF to \in before.been THEN before ELSE [id |-> to, been |-> before.been \cup {to}]]
<1>1. PICK Step, A, N, a : Step = [n \in 1..N |-> [s \in A |-> grow(n, s)]] /\ A = [id : X, been : SUBSET X] /\ N = Hops /\ a = [id |-> i, been |-> {i}]
  OBVIOUS
<1>2. N \in Nat /\ a \in A /\ \A n \in 1..N, s \in A : grow(n, s) \in A
  <2>1. \A n \in 1..Hops, s \in [id : X, been : SUBSET X] : Hopped(n, s, redirects, readable) \in [id : X, been : SUBSET X]
    BY DEF Hopped, Hop
  <2>2. QED
    BY <1>1, <2>1, HopsAssumption
<1>3. PICK f \in [0..N -> A] : f[0] = a /\ \A n \in 1..N : f[n] = Step[n][f[n - 1]]
  <2> HIDE DEF grow
  <2>1. Step \in [1..N -> [A -> A]]
    BY <1>1, <1>2
  <2>2. N \in Nat /\ a \in A
    BY <1>2
  <2>3. PICK f : Made(f, N, A, a, Step)
    BY ONLY <2>1, <2>2, Iterates
  <2>4. QED
    BY <2>3 DEF Made
<1>4. \A n \in 1..N : f[n] = grow(n, f[n - 1])
  <2>1. ASSUME NEW n \in 1..N PROVE f[n] = grow(n, f[n - 1])
    <3>1. n - 1 \in 0..N /\ f[n - 1] \in A
      BY <1>2
    <3> HIDE DEF grow
    <3>2. QED
      BY <1>1, <1>3, <3>1
  <2>2. QED
    BY <2>1
<1>5. f = Def(f)
  <2>1. f = [n \in 0..N |-> f[n]] /\ \A n \in 0..N : n # 0 => n \in 1..N
    BY <1>2
  <2>2. \A n \in 0..N : f[n] = IF n = 0 THEN [id |-> i, been |-> {i}] ELSE grow(n, f[n - 1])
    BY <1>1, <1>3, <1>4, <2>1
  <2>3. QED
    BY <1>1, <2>1, <2>2 DEF Hopped, Hop
<1>6. PICK F : F = Def(F) /\ Walk(IdRows, redirects, readable, i) = F[Hops]
  <2> DEFINE G == CHOOSE g : g = Def(g)
  <2>1. G = Def(G)
    BY <1>5
  <2>2. Walk(IdRows, redirects, readable, i) = G[Hops]
    BY DEF Walk
  <2>3. QED
    BY <2>1, <2>2
<1>7. F[0] = a /\ \A n \in 1..N : F[n] = grow(n, F[n - 1])
  <2>1. ASSUME NEW n \in 1..N PROVE F[n] = grow(n, F[n - 1])
    <3>1. n \in 0..Hops /\ n # 0
      BY <1>1, <1>2
    <3>2. QED
      BY <1>6, <3>1 DEF Hopped, Hop
  <2>2. 0 \in 0..Hops
    BY <1>1, <1>2
  <2>3. F[0] = [id |-> i, been |-> {i}]
    BY <1>6, <2>2
  <2>4. QED
    BY <1>1, <2>1, <2>3
<1>8. \A n \in 0..N : F[n] \in A
  <2> HIDE DEF grow
  <2>1. Closed(F, N, A)
    BY ONLY <1>2, <1>7 DEF Closed
  <2>2. N \in Nat
    BY <1>2
  <2>3. QED
    BY ONLY <2>1, <2>2, Iterated
<1>9. F \in [0..N -> A]
  <2>1. F = [n \in 0..N |-> F[n]]
    BY <1>1, <1>6
  <2> HIDE DEF grow
  <2>2. QED
    BY ONLY <1>8, <2>1
<1>10. QED
  BY <1>1, <1>6, <1>7, <1>9 DEF WalkedBy

(* The chains shrink: an id that went elsewhere is higher than where it went. *)
Sinks(rank) == \A i \in Ids : now[i] # i => rank[Hop(redirect, i)] < rank[i]

(* The tables that move ids agree with the current ones, in as many hops as   *)
(* the catalog changed, and one for the ids of before the flip.               *)
IdsOK ==
  /\ next \in Nat /\ changes \in 0..MaxChanges
  /\ now \in [Ids -> Ids] /\ DOMAIN catalog \subseteq Ids /\ DOMAIN redirect \subseteq Ids
  /\ \A i \in Ids : /\ Hop(redirect, i) \in Ids /\ now[Hop(redirect, i)] = now[i]
                    /\ now[now[i]] = now[i]
                    /\ now[i] = i => Hop(redirect, i) = i
  /\ \A i \in DOMAIN catalog : now[i] = i
  /\ \E rank \in [Ids -> 0..(changes + 1)] : Sinks(rank)

(* A hop without the redirects is one with them, or none. *)
LEMMA HopIs ==
  ASSUME IdsOK, NEW i \in Ids
  PROVE  /\ Hop(redirect, i) \in Ids /\ now[Hop(redirect, i)] = now[i]
         /\ Hop(NoRows, i) \in Ids /\ now[Hop(NoRows, i)] = now[i]
<1>1. Hop(redirect, i) \in Ids /\ now[Hop(redirect, i)] = now[i]
  BY DEF IdsOK
<1>2. Hop(NoRows, i) = Hop(redirect, i) \/ Hop(NoRows, i) = i
  BY DEF Hop, NextHop, NoRows
<1>3. QED
  BY <1>1, <1>2

(* However much a call can read, it stays within what an id is called.        *)
LEMMA CurrentStays ==
  ASSUME IdsOK, NEW i \in Ids, NEW readable
  PROVE  Current(i, readable) \in Ids /\ now[Current(i, readable)] = now[i]
<1>1. PICK f : WalkedBy(f, Ids, redirect, readable, i)
  <2>1. \A j \in Ids : Hop(redirect, j) \in Ids /\ Hop(NoRows, j) \in Ids
    BY HopIs
  <2> HIDE DEF Ids
  <2>2. QED
    BY <2>1, WalkIs
<1>2. /\ f \in [0..Hops -> [id : Ids, been : SUBSET Ids]] /\ f[0] = [id |-> i, been |-> {i}]
      /\ Current(i, readable) = f[Hops].id
      /\ \A n \in 1..Hops : f[n] = Hopped(n, f[n - 1], redirect, readable)
  BY <1>1 DEF WalkedBy, Current, IdMap
<1> DEFINE Good(n) == f[n].id \in Ids /\ now[f[n].id] = now[i]
           G == {n \in Nat : n <= Hops => Good(n)}
<1>3. Good(0)
  BY <1>2
<1>4. ASSUME NEW n \in Nat, n + 1 <= Hops, Good(n) PROVE Good(n + 1)
  <2>1. n + 1 \in 1..Hops /\ n + 1 - 1 = n
    BY <1>4, HopsAssumption
  <2>2. f[n + 1] = Hopped(n + 1, f[n], redirect, readable)
    BY <1>2, <2>1
  <2>3. PICK to : to = Hop(IF n + 1 <= readable THEN redirect ELSE NoRows, f[n].id)
    OBVIOUS
  <2>4. to \in Ids /\ now[to] = now[i]
    BY <1>4, <2>3, HopIs
  <2>5. f[n + 1].id = f[n].id \/ f[n + 1].id = to
    BY <2>2, <2>3 DEF Hopped
  <2>6. QED
    BY <1>4, <2>4, <2>5
<1>5. Hops \in G
  <2> HIDE DEF Good
  <2>1. 0 \in G /\ \A n \in Nat : n \in G => n + 1 \in G
    BY <1>3, <1>4, HopsAssumption
  <2> HIDE DEF G
  <2>2. QED
    BY <2>1, Induction, HopsAssumption
<1>6. QED
  BY <1>2, <1>5, HopsAssumption

(* A call that reads all gets to where the id is now. *)
LEMMA CurrentIsNow ==
  ASSUME IdsOK, NEW i \in Ids
  PROVE  Current(i, Hops) = now[i]
<1>1. PICK f : WalkedBy(f, Ids, redirect, Hops, i)
  <2>1. \A j \in Ids : Hop(redirect, j) \in Ids /\ Hop(NoRows, j) \in Ids
    BY HopIs
  <2> HIDE DEF Ids
  <2>2. QED
    BY <2>1, WalkIs
<1>2. /\ f \in [0..Hops -> [id : Ids, been : SUBSET Ids]] /\ f[0] = [id |-> i, been |-> {i}]
      /\ Current(i, Hops) = f[Hops].id
      /\ \A n \in 1..Hops : f[n] = Hopped(n, f[n - 1], redirect, Hops)
  BY <1>1 DEF WalkedBy, Current, IdMap
<1>3. PICK rank \in [Ids -> 0..(changes + 1)] : Sinks(rank)
  BY DEF IdsOK
<1>4. Hops \in Nat /\ changes \in Nat /\ changes + 1 <= Hops /\ \A j \in Ids : rank[j] \in Nat /\ rank[j] <= Hops
  BY <1>3, HopsAssumption, HopsSuffice DEF IdsOK
<1> DEFINE Good(n) == /\ f[n].id \in Ids /\ now[f[n].id] = now[i]
                      /\ \A j \in f[n].been : j \in Ids /\ rank[f[n].id] <= rank[j]
                      /\ f[n].id = now[i] \/ rank[f[n].id] + n <= rank[i]
           G == {n \in Nat : n <= Hops => Good(n)}
<1>5. Good(0)
  BY <1>2, <1>4
<1>6. ASSUME NEW n \in Nat, n + 1 <= Hops, Good(n) PROVE Good(n + 1)
  <2>1. n + 1 \in 1..Hops /\ n + 1 - 1 = n
    BY <1>4, <1>6
  <2>2. PICK s : s = f[n]
    OBVIOUS
  <2>3. PICK to : to = Hop(redirect, s.id)
    OBVIOUS
  <2>4. f[n + 1] = IF to \in s.been THEN s ELSE [id |-> to, been |-> s.been \cup {to}]
    BY <1>2, <1>6, <2>1, <2>2, <2>3 DEF Hopped
  <2>5. /\ s.id \in Ids /\ now[s.id] = now[i] /\ (\A j \in s.been : j \in Ids /\ rank[s.id] <= rank[j])
        /\ s.id = now[i] \/ rank[s.id] + n <= rank[i]
    BY <1>6, <2>2
  <2>6. to \in Ids /\ now[to] = now[i]
    BY <2>3, <2>5, HopIs
  <2>7. CASE s.id = now[i]
    <3>1. to = s.id
      BY <2>3, <2>5, <2>7 DEF IdsOK
    <3>2. f[n + 1].id = s.id /\ \A j \in f[n + 1].been : j \in s.been \/ j = s.id
      BY <2>4, <3>1
    <3>3. QED
      BY <1>4, <2>5, <2>7, <3>2
  <2>8. CASE s.id # now[i]
    <3>1. rank[to] < rank[s.id]
      BY <1>3, <2>3, <2>5, <2>8 DEF Sinks
    <3>2. to \notin s.been
      BY <1>4, <2>5, <2>6, <3>1
    <3>3. f[n + 1].id = to /\ f[n + 1].been = s.been \cup {to}
      BY <2>4, <3>2
    <3>4. \A j \in s.been \cup {to} : j \in Ids /\ rank[to] <= rank[j]
      BY <1>4, <2>5, <2>6, <3>1
    <3>5. rank[to] + (n + 1) <= rank[i]
      BY <1>4, <2>5, <2>6, <2>8, <3>1
    <3>6. QED
      BY <2>6, <3>3, <3>4, <3>5
  <2>9. QED
    BY <2>7, <2>8
<1>7. Good(Hops)
  <2> HIDE DEF Good
  <2>1. 0 \in G /\ \A n \in Nat : n \in G => n + 1 \in G
    BY <1>4, <1>5, <1>6
  <2>2. Hops \in G
    <3> HIDE DEF G
    <3>1. QED
      BY <1>4, <2>1, Induction
  <2>3. QED
    BY <1>4, <2>2
<1>8. CASE f[Hops].id # now[i]
  <2>1. rank[f[Hops].id] = 0
    BY <1>4, <1>7, <1>8
  <2>2. Hop(redirect, f[Hops].id) \in Ids /\ rank[Hop(redirect, f[Hops].id)] < rank[f[Hops].id]
    BY <1>3, <1>7, <1>8, HopIs DEF Sinks
  <2>3. QED
    BY <1>4, <2>1, <2>2
<1>9. QED
  BY <1>2, <1>8


-----------------------------------------------------------------------------
(* The log. *)

(* Events that name ids of a set. *)
Events(X) ==
  [type : {"add_component", "remove_component"}, id : X]
    \cup [type : {"reorder"}, order : Seq(X)]
    \cup [type : {"add_day"}, day : Nat, after : X \cup {None}]
    \cup [type : {"remove_day"}, day : Nat]

Adds(e) == e.type = "add_component"

Removes(e) == e.type = "remove_component"

LEMMA EventIs ==
  ASSUME NEW X, NEW e \in Events(X)
  PROVE  /\ Adds(e) \/ Removes(e) => e.id \in X
         /\ e.type = "reorder" => e.order \in Seq(X)
         /\ e.type = "add_day" => e.day \in Nat /\ e.after \in X \cup {None}
         /\ ~(Adds(e) /\ Removes(e))
BY DEF Events, Adds, Removes

(* What the trip has after the first n events, where ids are called so: what  *)
(* was added and has not been removed since.                                  *)
Lives(log, n, called, c) ==
  \E k \in 1..n : /\ Adds(log[k]) /\ called[log[k].id] = c
                  /\ \A m \in (k + 1)..n : ~(Removes(log[m]) /\ called[log[m].id] = c)

LEMMA LivesOn ==
  ASSUME NEW log, NEW n \in Nat, NEW called, NEW c, ~(Adds(log[n + 1]) /\ Removes(log[n + 1]))
  PROVE  /\ ~Lives(log, 0, called, c)
         /\ Lives(log, n + 1, called, c) <=>
              \/ Adds(log[n + 1]) /\ called[log[n + 1].id] = c
              \/ Lives(log, n, called, c) /\ ~(Removes(log[n + 1]) /\ called[log[n + 1].id] = c)
<1> DEFINE gone(m) == Removes(log[m]) /\ called[log[m].id] = c
           come(m) == Adds(log[m]) /\ called[log[m].id] = c
<1>1. \A m : Lives(log, m, called, c) <=> \E k \in 1..m : come(k) /\ \A l \in (k + 1)..m : ~gone(l)
  BY DEF Lives
<1>2. ~(come(n + 1) /\ gone(n + 1))
  OBVIOUS
<1> HIDE DEF gone, come
<1>3. ~Lives(log, 0, called, c)
  BY <1>1
<1>4. ASSUME Lives(log, n + 1, called, c) PROVE come(n + 1) \/ (Lives(log, n, called, c) /\ ~gone(n + 1))
  BY <1>1, <1>4
<1>5. come(n + 1) => Lives(log, n + 1, called, c)
  BY <1>1
<1>6. ASSUME Lives(log, n, called, c), ~gone(n + 1) PROVE Lives(log, n + 1, called, c)
  <2>1. PICK k \in 1..n : come(k) /\ \A l \in (k + 1)..n : ~gone(l)
    BY <1>1, <1>6
  <2>2. \A l \in (k + 1)..(n + 1) : l \in (k + 1)..n \/ l = n + 1
    OBVIOUS
  <2>3. k \in 1..(n + 1) /\ \A l \in (k + 1)..(n + 1) : ~gone(l)
    BY <1>6, <2>1, <2>2
  <2>4. QED
    BY <1>1, <2>1, <2>3
<1>7. QED
  BY <1>3, <1>4, <1>5, <1>6 DEF gone, come

(* What one event makes of the stops. *)
Folded(s, e, i) ==
  CASE Adds(e) /\ i \notin Range(s) -> Append(s, i)
    [] Removes(e) -> Only(s, Range(s) \ {i})
    [] OTHER -> s

LEMMA FoldedIs ==
  ASSUME NEW X, NEW s \in Seq(X), NEW e, NEW i, Adds(e) \/ Removes(e) => i \in X,
         ~(Adds(e) /\ Removes(e))
  PROVE  /\ Folded(s, e, i) \in Seq(X)
         /\ \A c : c \in Range(Folded(s, e, i)) <=>
                     \/ Adds(e) /\ i = c
                     \/ c \in Range(s) /\ ~(Removes(e) /\ i = c)
         /\ Once(s) => Once(Folded(s, e, i))
<1>1. CASE Adds(e) /\ i \notin Range(s)
  <2>1. Folded(s, e, i) = Append(s, i)
    BY <1>1 DEF Folded
  <2>2. QED
    BY <1>1, <2>1, AppendIs
<1>2. CASE Removes(e)
  <2>1. Folded(s, e, i) = Only(s, Range(s) \ {i})
    BY <1>2 DEF Folded
  <2>2. QED
    BY <1>2, <2>1, OnlyKeeps
<1>3. CASE ~Removes(e) /\ ~(Adds(e) /\ i \notin Range(s))
  <2>1. Folded(s, e, i) = s
    BY <1>3 DEF Folded
  <2>2. QED
    BY <1>3, <2>1
<1>4. QED
  BY <1>1, <1>2, <1>3

(* The stops after each event. *)
FoldsTo(f, log, hops) ==
  /\ f \in [0..Len(log) -> Seq(Ids)] /\ f[0] = <<>> /\ Present(log, hops) = f[Len(log)]
  /\ \A n \in 1..Len(log) : f[n] = Folded(f[n - 1], log[n], Current(log[n].id, hops))

LEMMA PresentIs ==
  ASSUME IdsOK, NEW log \in Seq(Events(Ids)), NEW hops
  PROVE  \E f : FoldsTo(f, log, hops)
<1> DEFINE grow(n, s) == Folded(s, log[n], Current(log[n].id, hops))
           Def(f) == [n \in 0..Len(log) |->
                        IF n = 0 THEN <<>>
                        ELSE LET before == f[n - 1]
                                 i == Current(log[n].id, hops)
                             IN CASE log[n].type = "add_component" /\ i \notin Range(before) -> Append(before, i)
                                  [] log[n].type = "remove_component" -> Only(before, Range(before) \ {i})
                                  [] OTHER -> before]
<1>1. PICK Step, A, N, a : Step = [n \in 1..N |-> [s \in A |-> grow(n, s)]] /\ A = Seq(Ids) /\ N = Len(log) /\ a = <<>>
  OBVIOUS
<1>2. N \in Nat /\ a \in A /\ \A n \in 1..N, s \in A : grow(n, s) \in A
  <2>1. ASSUME NEW n \in 1..Len(log), NEW s \in Seq(Ids) PROVE Folded(s, log[n], Current(log[n].id, hops)) \in Seq(Ids)
    <3>1. log[n] \in Events(Ids)
      OBVIOUS
    <3>2. /\ Adds(log[n]) \/ Removes(log[n]) => Current(log[n].id, hops) \in Ids
          /\ ~(Adds(log[n]) /\ Removes(log[n]))
      BY <3>1, EventIs, CurrentStays
    <3> HIDE DEF Ids
    <3>3. QED
      BY <3>2, FoldedIs
  <2>2. QED
    BY <1>1, <2>1
<1>3. PICK f \in [0..N -> A] : f[0] = a /\ \A n \in 1..N : f[n] = Step[n][f[n - 1]]
  <2> HIDE DEF grow
  <2>1. Step \in [1..N -> [A -> A]]
    BY <1>1, <1>2
  <2>2. N \in Nat /\ a \in A
    BY <1>2
  <2>3. PICK f : Made(f, N, A, a, Step)
    BY ONLY <2>1, <2>2, Iterates
  <2>4. QED
    BY <2>3 DEF Made
<1>4. \A n \in 1..N : f[n] = grow(n, f[n - 1])
  <2>1. ASSUME NEW n \in 1..N PROVE f[n] = grow(n, f[n - 1])
    <3>1. n - 1 \in 0..N /\ f[n - 1] \in A
      BY <1>2
    <3> HIDE DEF grow
    <3>2. QED
      BY <1>1, <1>3, <3>1
  <2>2. QED
    BY <2>1
<1>5. f = Def(f)
  <2>1. f = [n \in 0..N |-> f[n]] /\ \A n \in 0..N : n # 0 => n \in 1..N
    BY <1>2
  <2>2. \A n \in 0..N : f[n] = IF n = 0 THEN <<>> ELSE grow(n, f[n - 1])
    BY <1>1, <1>3, <1>4, <2>1
  <2>3. QED
    BY <1>1, <2>1, <2>2 DEF Folded, Adds, Removes
<1>6. PICK F : F = Def(F) /\ Present(log, hops) = F[Len(log)]
  <2> DEFINE G == CHOOSE g : g = Def(g)
  <2>1. G = Def(G)
    BY <1>5
  <2>2. Present(log, hops) = G[Len(log)]
    BY DEF Present
  <2>3. QED
    BY <2>1, <2>2
<1>7. F[0] = a /\ \A n \in 1..N : F[n] = grow(n, F[n - 1])
  <2>1. ASSUME NEW n \in 1..N PROVE F[n] = grow(n, F[n - 1])
    <3>1. n \in 0..Len(log) /\ n # 0
      BY <1>1, <1>2
    <3>2. F[n] = LET before == F[n - 1]
                     i == Current(log[n].id, hops)
                 IN CASE log[n].type = "add_component" /\ i \notin Range(before) -> Append(before, i)
                      [] log[n].type = "remove_component" -> Only(before, Range(before) \ {i})
                      [] OTHER -> before
      BY ONLY <1>6, <3>1
    <3>3. QED
      BY ONLY <3>2 DEF Folded, Adds, Removes
  <2>2. 0 \in 0..Len(log)
    BY <1>1, <1>2
  <2>3. F[0] = <<>>
    BY <1>6, <2>2
  <2>4. QED
    BY <1>1, <2>1, <2>3
<1>8. \A n \in 0..N : F[n] \in A
  <2> HIDE DEF grow
  <2>1. Closed(F, N, A)
    BY ONLY <1>2, <1>7 DEF Closed
  <2>2. N \in Nat
    BY <1>2
  <2>3. QED
    BY ONLY <2>1, <2>2, Iterated
<1>9. F \in [0..N -> A]
  <2>1. F = [n \in 0..N |-> F[n]]
    BY <1>1, <1>6
  <2> HIDE DEF grow
  <2>2. QED
    BY ONLY <1>8, <2>1
<1>10. QED
  BY <1>1, <1>6, <1>7, <1>9 DEF FoldsTo

(* The stops of the trip: what was added and has not been removed since, each *)
(* once, under whatever the ids are called with those hops.                   *)
LEMMA PresentHas ==
  ASSUME IdsOK, NEW log \in Seq(Events(Ids)), NEW hops
  PROVE  /\ Present(log, hops) \in Seq(Ids) /\ Once(Present(log, hops))
         /\ \A called \in [Ids -> Ids] : (\A i \in Ids : Current(i, hops) = called[i]) =>
              \A c : c \in Range(Present(log, hops)) <=> Lives(log, Len(log), called, c)
<1>1. PICK f : FoldsTo(f, log, hops)
  BY PresentIs
<1>2. PICK A, N : A = Seq(Ids) /\ N = Len(log)
  OBVIOUS
<1>3. /\ N \in Nat /\ \A n \in 0..N : f[n] \in A
      /\ f[0] = <<>> /\ Present(log, hops) = f[N]
      /\ \A n \in 1..N : f[n] = Folded(f[n - 1], log[n], Current(log[n].id, hops))
  BY <1>1, <1>2 DEF FoldsTo
<1>4. ASSUME NEW n \in 1..N
      PROVE  /\ Adds(log[n]) \/ Removes(log[n]) => log[n].id \in Ids
             /\ ~(Adds(log[n]) /\ Removes(log[n]))
  <2>1. log[n] \in Events(Ids)
    BY <1>2
  <2>2. QED
    BY <2>1, EventIs
<1> DEFINE Good(n) ==
             /\ Once(f[n])
             /\ \A called \in [Ids -> Ids] : (\A i \in Ids : Current(i, hops) = called[i]) =>
                  \A c : c \in Range(f[n]) <=> Lives(log, n, called, c)
           G == {n \in Nat : n <= N => Good(n)}
<1>5. Good(0)
  <2>1. Range(<<>>) = {} /\ Once(<<>>)
    BY DEF Range, Once
  <2>2. \A called, c : ~Lives(log, 0, called, c)
    BY DEF Lives
  <2>3. QED
    BY ONLY <1>3, <2>1, <2>2
<1>6. ASSUME NEW n \in Nat, n + 1 <= N, Good(n) PROVE Good(n + 1)
  <2>1. n + 1 \in 1..N /\ n \in 0..N /\ n + 1 - 1 = n
    BY <1>3, <1>6
  <2>2. PICK e, i, s : e = log[n + 1] /\ i = Current(e.id, hops) /\ s = f[n]
    OBVIOUS
  <2>3. Adds(e) \/ Removes(e) => e.id \in Ids /\ i \in Ids
    <3>1. Adds(e) \/ Removes(e) => e.id \in Ids
      BY ONLY <1>4, <2>1, <2>2
    <3>2. QED
      BY <2>2, <3>1, CurrentStays
  <2>4. s \in Seq(Ids) /\ f[n + 1] = Folded(s, e, i) /\ ~(Adds(e) /\ Removes(e)) /\ Once(s)
    <3>1. s \in Seq(Ids)
      BY ONLY <1>2, <1>3, <2>1, <2>2
    <3>2. f[n + 1] = Folded(s, e, i)
      BY ONLY <1>3, <2>1, <2>2
    <3>3. Once(s)
      BY ONLY <1>6, <2>2
    <3>4. ~(Adds(e) /\ Removes(e))
      BY ONLY <1>4, <2>1, <2>2
    <3>5. QED
      BY ONLY <3>1, <3>2, <3>3, <3>4
  <2>5. /\ Once(f[n + 1])
        /\ \A c : c \in Range(f[n + 1]) <=> \/ Adds(e) /\ i = c
                                            \/ c \in Range(s) /\ ~(Removes(e) /\ i = c)
    <3> HIDE DEF Ids
    <3>1. QED
      BY ONLY <2>3, <2>4, FoldedIs
  <2>6. ASSUME NEW called \in [Ids -> Ids], \A j \in Ids : Current(j, hops) = called[j], NEW c
        PROVE  c \in Range(f[n + 1]) <=> Lives(log, n + 1, called, c)
    <3>1. c \in Range(s) <=> Lives(log, n, called, c)
      BY ONLY <1>6, <2>2, <2>6
    <3>2. Adds(e) \/ Removes(e) => called[e.id] = i
      BY ONLY <2>2, <2>3, <2>6
    <3>3. Lives(log, n + 1, called, c) <=>
              \/ Adds(e) /\ called[e.id] = c
              \/ Lives(log, n, called, c) /\ ~(Removes(e) /\ called[e.id] = c)
      BY ONLY <2>2, <2>4, LivesOn, n \in Nat
    <3>4. QED
      BY ONLY <2>5, <3>1, <3>2, <3>3
  <2>7. QED
    BY ONLY <2>5, <2>6
<1>7. Good(N)
  <2> HIDE DEF Good
  <2>1. 0 \in G /\ \A n \in Nat : n \in G => n + 1 \in G
    BY ONLY <1>3, <1>5, <1>6
  <2>2. N \in G
    <3> HIDE DEF G
    <3>1. QED
      BY ONLY <1>3, <2>1, Induction
  <2>3. QED
    BY ONLY <1>3, <2>2
<1>8. Present(log, hops) \in Seq(Ids)
  BY ONLY <1>2, <1>3
<1>9. QED
  BY ONLY <1>2, <1>3, <1>7, <1>8

-----------------------------------------------------------------------------
(* Orders of finite sets. *)

Preorders(R, T) ==
  /\ \A a, b \in T : <<a, b>> \in R \/ <<b, a>> \in R
  /\ \A a, b, c \in T : <<a, b>> \in R /\ <<b, c>> \in R => <<a, c>> \in R

Orders(R, T) == Preorders(R, T) /\ \A a, b \in T : <<a, b>> \in R /\ <<b, a>> \in R => a = b

Down(R, T, x) == {y \in T : <<y, x>> \in R}

Place(R, T, x) == Cardinality(Down(R, T, x))

(* What is further down has fewer below it. *)
LEMMA PlacesGrow ==
  ASSUME NEW T, IsFiniteSet(T), NEW R, Preorders(R, T), NEW x \in T, NEW y \in T, ~(<<y, x>> \in R)
  PROVE  Place(R, T, x) < Place(R, T, y)
<1>1. Down(R, T, x) \subseteq Down(R, T, y)
  BY DEF Down, Preorders
<1>2. y \in Down(R, T, y) /\ y \notin Down(R, T, x)
  BY DEF Down, Preorders
<1>3. IsFiniteSet(Down(R, T, y)) /\ IsFiniteSet(Down(R, T, x))
  <2>1. Down(R, T, y) \in SUBSET T /\ Down(R, T, x) \in SUBSET T
    BY DEF Down
  <2>2. QED
    BY <2>1, FS_Subset
<1>4. Cardinality(Down(R, T, x)) <= Cardinality(Down(R, T, y))
      /\ Cardinality(Down(R, T, x)) # Cardinality(Down(R, T, y))
  <2> HIDE DEF Down
  <2>1. QED
    BY <1>1, <1>2, <1>3, FS_Subset
<1>5. Cardinality(Down(R, T, x)) \in Nat /\ Cardinality(Down(R, T, y)) \in Nat
  BY <1>3, FS_CardinalityType
<1>6. QED
  BY <1>4, <1>5 DEF Place

(* A finite set has something that is least. *)
LEMMA LeastOf ==
  ASSUME NEW T, IsFiniteSet(T), T # {}, NEW R, Preorders(R, T)
  PROVE  \E x \in T : \A y \in T : <<x, y>> \in R
<1> DEFINE places == {Place(R, T, x) : x \in T}
<1>1. places \in SUBSET Nat /\ places # {}
  <2>1. ASSUME NEW x \in T PROVE Place(R, T, x) \in Nat
    <3>1. Down(R, T, x) \in SUBSET T
      BY DEF Down
    <3>2. QED
      BY <3>1, FS_Subset, FS_CardinalityType DEF Place
  <2>2. QED
    BY <2>1
<1>2. PICK n \in places : \A m \in places : n <= m
  <2> HIDE DEF places
  <2>1. QED
    BY <1>1, LeastInNat
<1>3. PICK x \in T : n = Place(R, T, x)
  BY <1>2
<1>4. ASSUME NEW y \in T, ~(<<x, y>> \in R) PROVE FALSE
  <2>1. Place(R, T, y) < Place(R, T, x)
    BY <1>4, PlacesGrow
  <2>2. Place(R, T, x) <= Place(R, T, y)
    BY <1>2, <1>3
  <2>3. Place(R, T, x) \in Nat /\ Place(R, T, y) \in Nat
    BY <1>1
  <2>4. QED
    BY <2>1, <2>2, <2>3
<1>5. QED
  BY <1>4

(* Every place is taken, and by one. *)
LEMMA Ranked ==
  ASSUME NEW T, IsFiniteSet(T), NEW R, Orders(R, T)
  PROVE  /\ Cardinality(T) \in Nat
         /\ \A n \in 1..Cardinality(T) : \E x \in T : Place(R, T, x) = n
         /\ \A x \in T : Place(R, T, x) \in 1..Cardinality(T)
         /\ \A x, y \in T : Place(R, T, x) = Place(R, T, y) => x = y
<1>1. Cardinality(T) \in Nat
  BY FS_CardinalityType
<1>2. ASSUME NEW x \in T PROVE Place(R, T, x) \in 1..Cardinality(T)
  <2>1. Down(R, T, x) \in SUBSET T /\ x \in Down(R, T, x)
    BY DEF Down, Orders, Preorders
  <2>2. IsFiniteSet(Down(R, T, x)) /\ Cardinality(Down(R, T, x)) <= Cardinality(T)
    BY <2>1, FS_Subset
  <2>3. Cardinality(Down(R, T, x)) \in Nat /\ Cardinality(Down(R, T, x)) # 0
    <3>1. Cardinality(Down(R, T, x)) \in Nat
      BY <2>2, FS_CardinalityType
    <3>2. Cardinality(Down(R, T, x)) = 0 => Down(R, T, x) = {}
      BY <2>2, FS_EmptySet
    <3>3. QED
      BY <2>1, <3>1, <3>2
  <2>4. QED
    BY <1>1, <2>2, <2>3 DEF Place
<1>3. ASSUME NEW x \in T, NEW y \in T, Place(R, T, x) = Place(R, T, y), x # y PROVE FALSE
  <2>1. ~(<<y, x>> \in R) \/ ~(<<x, y>> \in R)
    BY <1>3 DEF Orders
  <2>2. Place(R, T, x) < Place(R, T, y) \/ Place(R, T, y) < Place(R, T, x)
    BY <2>1, PlacesGrow DEF Orders
  <2>3. Place(R, T, x) \in 1..Cardinality(T)
    BY <1>2
  <2>4. QED
    BY <1>1, <1>3, <2>2, <2>3
<1>4. PICK M, p : M = 1..Cardinality(T) /\ p = [x \in T |-> Place(R, T, x)]
  OBVIOUS
<1>5. p \in Injection(T, M)
  <2>1. p \in [T -> M] /\ DOMAIN p = T
    BY <1>2, <1>4
  <2>2. \A x, y \in T : p[x] = p[y] => x = y
    BY <1>3, <1>4
  <2>3. QED
    BY ONLY <2>1, <2>2 DEF Injection, IsInjective
<1>6. IsFiniteSet(M) /\ Cardinality(M) = Cardinality(T)
  <2>1. IsFiniteSet(1..Cardinality(T)) /\ Cardinality(1..Cardinality(T)) = Cardinality(T)
    BY <1>1, FS_Interval
  <2>2. QED
    BY <1>4, <2>1
<1>7. p \in Surjection(T, M)
  BY <1>5, <1>6, FS_Injection
<1>8. ASSUME NEW n \in M PROVE \E x \in T : p[x] = n
  BY <1>7 DEF Surjection
<1>9. QED
  BY <1>1, <1>2, <1>3, <1>4, <1>8

(* A list that has each element at its place. *)
LEMMA ListedIs ==
  ASSUME NEW T, IsFiniteSet(T), NEW R, Orders(R, T), NEW list,
         list = [n \in 1..Cardinality(T) |-> list[n]],
         \A n \in 1..Cardinality(T) : list[n] \in T /\ Place(R, T, list[n]) = n
  PROVE  list \in Seq(T) /\ Once(list) /\ Range(list) = T
<1>1. PICK N : N = Cardinality(T)
  OBVIOUS
<1>2. /\ N \in Nat /\ DOMAIN list = 1..N /\ list \in [1..N -> T]
      /\ \A n \in 1..N : Place(R, T, list[n]) = n
  BY <1>1, Ranked
<1>3. list \in Seq(T)
  BY ONLY <1>2
<1>4. Once(list)
  BY ONLY <1>2 DEF Once
<1>5. ASSUME NEW x \in T PROVE x \in Range(list)
  <2>1. PICK n \in 1..N : n = Place(R, T, x)
    BY <1>1, Ranked
  <2>2. list[n] = x
    BY <1>1, <1>2, <2>1, Ranked
  <2>3. QED
    BY ONLY <1>2, <2>2 DEF Range
<1>6. Range(list) \subseteq T
  BY ONLY <1>2 DEF Range
<1>7. QED
  BY <1>3, <1>4, <1>5, <1>6

LEMMA NoneIsNoNumber == None \notin Nat
BY CatalogAssumption

(* Each is no later in its tour than those after it. *)
InOrder(list) == \A m, n \in DOMAIN list : m < n => TourOrder(list[m], list[n])

(* Stops by the days of their tour. *)
LEMMA TourListIs ==
  ASSUME NEW T, IsFiniteSet(T),
         \A a \in T : a.id \in Nat /\ a.idx \in Nat \cup {None},
         \A a, b \in T : a.id = b.id => a = b
  PROVE  /\ Listing(T, TourOrder) \in Seq(T) /\ Once(Listing(T, TourOrder)) /\ Range(Listing(T, TourOrder)) = T
         /\ InOrder(Listing(T, TourOrder))
<1>1. PICK R : R = {p \in T \X T : TourOrder(p[1], p[2])}
  OBVIOUS
<1>2. \A a, b \in T : <<a, b>> \in R <=> TourOrder(a, b)
  BY <1>1
<1>3. Orders(R, T)
  <2>1. \A a, b \in T : TourOrder(a, b) \/ TourOrder(b, a)
    BY NoneIsNoNumber DEF TourOrder
  <2>2. \A a, b, c \in T : TourOrder(a, b) /\ TourOrder(b, c) => TourOrder(a, c)
    BY NoneIsNoNumber DEF TourOrder
  <2>3. ASSUME NEW a \in T, NEW b \in T, TourOrder(a, b), TourOrder(b, a) PROVE a = b
    <3>1. PICK v, w, k, l : v = a.idx /\ w = b.idx /\ k = a.id /\ l = b.id
      OBVIOUS
    <3>2. k \in Nat /\ l \in Nat /\ v \in Nat \cup {None} /\ w \in Nat \cup {None} /\ None \notin Nat
      BY <3>1, NoneIsNoNumber
    <3>3. /\ IF (v = None) # (w = None) THEN w = None ELSE IF v = w THEN k <= l ELSE v < w
          /\ IF (w = None) # (v = None) THEN v = None ELSE IF w = v THEN l <= k ELSE w < v
      BY ONLY <2>3, <3>1 DEF TourOrder
    <3>4. k = l
      BY ONLY <3>2, <3>3
    <3>5. QED
      BY <3>1, <3>4
  <2>4. QED
    BY ONLY <1>2, <2>1, <2>2, <2>3 DEF Orders, Preorders
<1>4. ASSUME NEW x \in T PROVE Place(R, T, x) = Cardinality({y \in T : TourOrder(y, x)})
  <2>1. Down(R, T, x) = {y \in T : TourOrder(y, x)}
    BY <1>2 DEF Down
  <2>2. QED
    BY <2>1 DEF Place
<1>5. PICK list : list = Listing(T, TourOrder)
  OBVIOUS
<1>6. list = [n \in 1..Cardinality(T) |-> CHOOSE x \in T : Cardinality({y \in T : TourOrder(y, x)}) = n]
  BY <1>5 DEF Listing
<1>7. ASSUME NEW n \in 1..Cardinality(T) PROVE list[n] \in T /\ Place(R, T, list[n]) = n
  <2>1. PICK x \in T : Place(R, T, x) = n
    BY <1>3, Ranked
  <2>2. list[n] = CHOOSE z \in T : Cardinality({y \in T : TourOrder(y, z)}) = n
    BY <1>6
  <2>3. \E z \in T : Cardinality({y \in T : TourOrder(y, z)}) = n
    BY <1>4, <2>1
  <2>4. list[n] \in T /\ Cardinality({y \in T : TourOrder(y, list[n])}) = n
    BY <2>2, <2>3
  <2>5. QED
    BY <1>4, <2>4
<1>8. list \in Seq(T) /\ Once(list) /\ Range(list) = T
  <2>1. list = [n \in 1..Cardinality(T) |-> list[n]]
    <3> DEFINE pick(n) == CHOOSE x \in T : Cardinality({y \in T : TourOrder(y, x)}) = n
    <3>1. list = [n \in 1..Cardinality(T) |-> pick(n)]
      BY <1>6
    <3> HIDE DEF pick
    <3>2. QED
      BY <3>1
  <2>2. QED
    BY ONLY IsFiniteSet(T), <1>3, <1>7, <2>1, ListedIs
<1>9. InOrder(list)
  <2>1. DOMAIN list = 1..Cardinality(T) /\ Cardinality(T) \in Nat
    BY ONLY <1>6, IsFiniteSet(T), FS_CardinalityType
  <2>2. ASSUME NEW m \in DOMAIN list, NEW n \in DOMAIN list, m < n PROVE TourOrder(list[m], list[n])
    <3>1. PICK x, y : x = list[n] /\ y = list[m]
      OBVIOUS
    <3>2. x \in T /\ y \in T /\ Place(R, T, x) = n /\ Place(R, T, y) = m
      BY ONLY <1>7, <2>1, <3>1, m \in DOMAIN list, n \in DOMAIN list
    <3>3. ~(<<y, x>> \in R) => Place(R, T, x) < Place(R, T, y)
      BY ONLY IsFiniteSet(T), <1>3, <3>2, PlacesGrow DEF Orders
    <3>4. <<y, x>> \in R
      BY ONLY <2>1, <2>2, <3>2, <3>3
    <3>5. QED
      BY ONLY <1>2, <3>1, <3>2, <3>4
  <2>3. QED
    BY ONLY <2>2 DEF InOrder
<1>10. QED
  BY <1>5, <1>8, <1>9

-----------------------------------------------------------------------------
(* The geographic order. *)

StopsOK(S) ==
  /\ IsFiniteSet(S)
  /\ \A a \in S : a.id \in Nat /\ a.idx \in Nat \cup {None} /\ a.at \in Int
  /\ \A a, b \in S : a.id = b.id => a = b

(* The block that a stop is in. *)
Fellows(S, s) == IF s.tour = None THEN {s} ELSE {x \in S : x.tour = s.tour}

BlockOf(S, s) == IF s.tour = None THEN <<s>> ELSE Listing({x \in S : x.tour = s.tour}, TourOrder)

LEMMA BlockIs ==
  ASSUME NEW S, StopsOK(S), NEW s \in S
  PROVE  /\ BlockOf(S, s) \in Seq(S) /\ Once(BlockOf(S, s)) /\ BlockOf(S, s) # <<>>
         /\ Range(BlockOf(S, s)) = Fellows(S, s)
<1>1. CASE s.tour = None
  <2>1. PICK b : b = <<s>>
    OBVIOUS
  <2>2. BlockOf(S, s) = b /\ Fellows(S, s) = {s}
    BY <1>1, <2>1 DEF BlockOf, Fellows
  <2>3. b \in Seq(S) /\ DOMAIN b = {1} /\ b[1] = s /\ b # <<>>
    BY <2>1
  <2>4. Once(b) /\ Range(b) = {s}
    BY ONLY <2>3 DEF Once, Range
  <2>5. QED
    BY <2>2, <2>3, <2>4
<1>2. CASE s.tour # None
  <2>1. PICK T : T = {x \in S : x.tour = s.tour}
    OBVIOUS
  <2>2. BlockOf(S, s) = Listing(T, TourOrder) /\ Fellows(S, s) = T
    BY <1>2, <2>1 DEF BlockOf, Fellows
  <2>3. /\ IsFiniteSet(T) /\ T \subseteq S /\ s \in T
        /\ \A a \in T : a.id \in Nat /\ a.idx \in Nat \cup {None}
        /\ \A a, b \in T : a.id = b.id => a = b
    <3>1. T \in SUBSET S /\ s \in T
      BY <2>1
    <3>2. QED
      BY <3>1, FS_Subset DEF StopsOK
  <2>4. PICK b : b = Listing(T, TourOrder)
    OBVIOUS
  <2>5. b \in Seq(T) /\ Once(b) /\ Range(b) = T
    BY <2>3, <2>4, TourListIs
  <2>6. b \in Seq(S)
    BY ONLY <2>3, <2>5
  <2>7. b # <<>>
    <3>1. Range(<<>>) = {}
      BY DEF Range
    <3>2. QED
      BY ONLY <2>3, <2>5, <3>1
  <2>8. QED
    BY <2>2, <2>4, <2>5, <2>6, <2>7
<1>3. QED
  BY <1>1, <1>2

(* The blocks share the stops out. *)
Parts(B, S) ==
  /\ IsFiniteSet(B)
  /\ \A b \in B : b \in Seq(S) /\ Once(b) /\ b # <<>>
  /\ \A b, c \in B : b # c => Range(b) \cap Range(c) = {}
  /\ \A s \in S : \E b \in B : s \in Range(b)

LEMMA BlocksArePartition ==
  ASSUME NEW S, StopsOK(S)
  PROVE  Parts(Blocks(S), S)
<1>1. Blocks(S) = {BlockOf(S, s) : s \in S}
  <2>1. ASSUME NEW s \in S PROVE BlockOf(S, s) \in Blocks(S)
    BY DEF BlockOf, Blocks
  <2>2. ASSUME NEW b \in Blocks(S) PROVE \E s \in S : b = BlockOf(S, s)
    <3>1. \/ \E t \in {s.tour : s \in S} \ {None} : b = Listing({s \in S : s.tour = t}, TourOrder)
          \/ \E s \in {x \in S : x.tour = None} : b = <<s>>
      BY DEF Blocks
    <3>2. CASE \E t \in {s.tour : s \in S} \ {None} : b = Listing({s \in S : s.tour = t}, TourOrder)
      <4>1. PICK s \in S : s.tour # None /\ b = Listing({x \in S : x.tour = s.tour}, TourOrder)
        BY <3>2
      <4>2. QED
        BY <4>1 DEF BlockOf
    <3>3. CASE \E s \in {x \in S : x.tour = None} : b = <<s>>
      BY <3>3 DEF BlockOf
    <3>4. QED
      BY <3>1, <3>2, <3>3
  <2>3. QED
    BY <2>1, <2>2
<1>2. PICK B : B = Blocks(S)
  OBVIOUS
<1>3. IsFiniteSet(B)
  <2>1. PICK g : g = [s \in S |-> BlockOf(S, s)]
    OBVIOUS
  <2>2. g \in Surjection(S, B)
    <3>1. \A s \in S : BlockOf(S, s) \in B
      BY <1>1, <1>2
    <3>2. \A b \in B : \E s \in S : b = BlockOf(S, s)
      BY <1>1, <1>2
    <3>3. g \in [S -> B] /\ \A b \in B : \E s \in S : g[s] = b
      BY ONLY <2>1, <3>1, <3>2
    <3>4. QED
      BY ONLY <3>3 DEF Surjection
  <2>3. QED
    BY <2>2, FS_Surjection DEF StopsOK
<1>4. ASSUME NEW b \in B PROVE b \in Seq(S) /\ Once(b) /\ b # <<>>
  <2>1. PICK s \in S : b = BlockOf(S, s)
    BY <1>1, <1>2
  <2>2. QED
    BY <2>1, BlockIs
<1>5. ASSUME NEW b \in B, NEW c \in B, NEW x \in Range(b) \cap Range(c) PROVE b = c
  <2>1. PICK s \in S, t \in S : b = BlockOf(S, s) /\ c = BlockOf(S, t)
    BY <1>1, <1>2
  <2>2. x \in Fellows(S, s) /\ x \in Fellows(S, t)
    BY <1>5, <2>1, BlockIs
  <2>3. QED
    BY <2>1, <2>2 DEF Fellows, BlockOf
<1>6. ASSUME NEW s \in S PROVE \E b \in B : s \in Range(b)
  <2>1. BlockOf(S, s) \in B /\ s \in Fellows(S, s)
    BY <1>1, <1>2 DEF Fellows
  <2>2. QED
    BY <2>1, BlockIs
<1>7. QED
  BY <1>2, <1>3, <1>4, <1>5, <1>6 DEF Parts

(* Of the blocks that are left there is one to follow. *)
LEMMA FollowUpIs ==
  ASSUME NEW S, StopsOK(S), NEW B, Parts(B, S), NEW left \in SUBSET B, left # {}, NEW done \in Seq(S)
  PROVE  FollowUp(done, left) \in left
<1> DEFINE follows(b, c) == IF done = <<>> THEN Westmost(b[1], c[1]) ELSE Nearer(done[Len(done)], b[1], c[1])
<1>1. PICK R : R = {p \in left \X left : follows(p[1], p[2])}
  OBVIOUS
<1>2. \A b, c \in left : <<b, c>> \in R <=> follows(b, c)
  BY <1>1
<1>3. IsFiniteSet(left)
  BY FS_Subset DEF Parts
<1>4. \A b \in left : b[1].id \in Nat /\ b[1].at \in Int
  <2>1. ASSUME NEW b \in left PROVE b[1] \in S
    <3>1. b \in Seq(S) /\ b # <<>>
      BY DEF Parts
    <3>2. QED
      BY ONLY <3>1
  <2>2. QED
    BY <2>1 DEF StopsOK
<1>5. Preorders(R, left)
  <2>1. CASE done = <<>>
    <3>1. \A b, c \in left : follows(b, c) <=> Westmost(b[1], c[1])
      BY <2>1
    <3>2. \A b, c \in left : Westmost(b[1], c[1]) \/ Westmost(c[1], b[1])
      BY ONLY <1>4 DEF Westmost
    <3>3. \A b, c, d \in left : Westmost(b[1], c[1]) /\ Westmost(c[1], d[1]) => Westmost(b[1], d[1])
      BY ONLY <1>4 DEF Westmost
    <3> HIDE DEF follows
    <3>4. QED
      BY ONLY <1>2, <3>1, <3>2, <3>3 DEF Preorders
  <2>2. CASE done # <<>>
    <3>1. PICK last : last = done[Len(done)]
      OBVIOUS
    <3>2. last.at \in Int
      <4>1. last \in S
        BY <2>2, <3>1
      <4>2. QED
        BY ONLY StopsOK(S), <4>1 DEF StopsOK
    <3>3. \A b, c \in left : follows(b, c) <=> Nearer(last, b[1], c[1])
      BY <2>2, <3>1
    <3>4. \A b \in left : Distance(last, b[1]) \in Int
      BY ONLY <1>4, <3>2 DEF Distance
    <3>5. \A b, c \in left : Nearer(last, b[1], c[1]) \/ Nearer(last, c[1], b[1])
      BY ONLY <1>4, <3>4 DEF Nearer
    <3>6. \A b, c, d \in left : Nearer(last, b[1], c[1]) /\ Nearer(last, c[1], d[1]) => Nearer(last, b[1], d[1])
      BY ONLY <1>4, <3>4 DEF Nearer
    <3> HIDE DEF follows
    <3>7. QED
      BY ONLY <1>2, <3>3, <3>5, <3>6 DEF Preorders
  <2>3. QED
    BY <2>1, <2>2
<1>6. \E b \in left : \A c \in left : follows(b, c)
  <2> HIDE DEF follows
  <2>1. QED
    BY ONLY <1>2, <1>3, <1>5, LeastOf, left # {}
<1>7. FollowUp(done, left) = CHOOSE b \in left : \A c \in left : follows(b, c)
  BY DEF FollowUp
<1> HIDE DEF follows
<1>8. QED
  BY ONLY <1>6, <1>7

(* The visiting order as it grows. *)
Extended(s) ==
  LET b == FollowUp(s.done, s.left) IN [done |-> s.done \o b, left |-> s.left \ {b}]

Chain(f, B) ==
  /\ f[0] = [done |-> <<>>, left |-> B]
  /\ \A n \in 1..Cardinality(B) : f[n] = Extended(f[n - 1])

Walks(S, B) == [done : Seq(S), left : SUBSET B]

LEMMA ExtendedIs ==
  ASSUME NEW S, StopsOK(S), NEW B, Parts(B, S), NEW s \in Walks(S, B), s.left # {}
  PROVE  /\ Extended(s) \in Walks(S, B)
         /\ Cardinality(Extended(s).left) = Cardinality(s.left) - 1
         /\ \E b \in s.left : Extended(s).done = s.done \o b /\ Extended(s).left = s.left \ {b}
<1>1. s.done \in Seq(S) /\ s.left \in SUBSET B
  BY DEF Walks
<1>2. PICK b : b = FollowUp(s.done, s.left)
  OBVIOUS
<1>3. b \in s.left
  BY <1>1, <1>2, FollowUpIs
<1>4. PICK d, l : d = s.done \o b /\ l = s.left \ {b}
  OBVIOUS
<1>5. Extended(s) = [done |-> d, left |-> l]
  BY <1>2, <1>4 DEF Extended
<1>6. d \in Seq(S)
  <2>1. b \in Seq(S)
    BY <1>1, <1>3 DEF Parts
  <2>2. QED
    BY ONLY <1>1, <1>4, <2>1, ConcatIs
<1>7. l \in SUBSET B
  BY <1>1, <1>4
<1>8. Cardinality(l) = Cardinality(s.left) - 1
  <2>1. IsFiniteSet(s.left)
    BY <1>1, FS_Subset DEF Parts
  <2>2. QED
    BY <1>3, <1>4, <2>1, FS_RemoveElement
<1>9. Extended(s) \in Walks(S, B)
  <2> HIDE DEF Extended
  <2>1. QED
    BY ONLY <1>5, <1>6, <1>7 DEF Walks
<1>10. Extended(s).done = d /\ Extended(s).left = l
  BY ONLY <1>5
<1>11. QED
  BY ONLY <1>3, <1>4, <1>8, <1>9, <1>10

LEMMA SequenceIs ==
  ASSUME NEW S, StopsOK(S)
  PROVE  \E f : Chain(f, Blocks(S)) /\ Sequence(S) = f[Cardinality(Blocks(S))].done
<1>1. PICK B, N : B = Blocks(S) /\ N = Cardinality(B)
  OBVIOUS
<1>2. Parts(B, S) /\ N \in Nat
  BY <1>1, BlocksArePartition, FS_CardinalityType DEF Parts
<1> DEFINE grow(s) == IF s.left = {} THEN s ELSE Extended(s)
           A == Walks(S, B)
           a == [done |-> <<>>, left |-> B]
           Def(g) == [n \in 0..N |-> IF n = 0 THEN a ELSE Extended(g[n - 1])]
<1>3. \A s \in A : grow(s) \in A
  BY <1>2, ExtendedIs
<1>4. a \in A
  BY DEF Walks
<1>5. PICK f : f \in [0..N -> A] /\ f[0] = a /\ \A n \in 1..N : f[n] = grow(f[n - 1])
  <2> HIDE DEF grow, A, a
  <2>1. PICK Step : Step = [n \in 1..N |-> [s \in A |-> grow(s)]]
    OBVIOUS
  <2>2. Step \in [1..N -> [A -> A]]
    BY <1>3, <2>1
  <2>3. PICK f : Made(f, N, A, a, Step)
    BY ONLY <1>2, <1>4, <2>2, Iterates
  <2>4. f \in [0..N -> A] /\ f[0] = a /\ \A n \in 1..N : f[n] = Step[n][f[n - 1]]
    BY ONLY <2>3 DEF Made
  <2>5. ASSUME NEW n \in 1..N PROVE f[n] = grow(f[n - 1])
    <3>1. f[n - 1] \in A
      BY ONLY <1>2, <2>4
    <3>2. QED
      BY ONLY <2>1, <2>4, <3>1
  <2>6. QED
    BY ONLY <2>4, <2>5
<1>6. \A n \in 0..N : Cardinality(f[n].left) = N - n
  <2> DEFINE Good(n) == Cardinality(f[n].left) = N - n
             G == {n \in Nat : n <= N => Good(n)}
  <2>1. Good(0)
    BY ONLY <1>1, <1>2, <1>5
  <2>2. ASSUME NEW n \in Nat, n + 1 <= N, Good(n) PROVE Good(n + 1)
    <3>1. n + 1 \in 1..N /\ n + 1 - 1 = n /\ n \in 0..N /\ N - n # 0
      BY <1>2, <2>2
    <3>2. PICK s : s = f[n]
      OBVIOUS
    <3>3. s \in Walks(S, B)
      BY ONLY <1>5, <3>1, <3>2
    <3>4. s.left # {}
      <4>1. Cardinality({}) = 0
        BY FS_EmptySet
      <4>2. QED
        BY ONLY <2>2, <3>1, <3>2, <4>1
    <3>5. f[n + 1] = Extended(s)
      BY ONLY <1>5, <3>1, <3>2, <3>4
    <3>6. Cardinality(f[n + 1].left) = Cardinality(s.left) - 1
      BY <1>2, <3>3, <3>4, <3>5, ExtendedIs
    <3>7. QED
      BY ONLY <1>2, <2>2, <3>2, <3>6
  <2>3. \A n \in Nat : n \in G
    <3> HIDE DEF Good
    <3>1. 0 \in G /\ \A n \in Nat : n \in G => n + 1 \in G
      BY ONLY <1>2, <2>1, <2>2
    <3> HIDE DEF G
    <3>2. QED
      BY ONLY <3>1, Induction
  <2>4. QED
    BY ONLY <1>2, <2>3
<1>7. \A n \in 1..N : f[n] = Extended(f[n - 1])
  <2>1. ASSUME NEW n \in 1..N PROVE f[n] = Extended(f[n - 1])
    <3>1. n - 1 \in 0..N /\ N - (n - 1) # 0
      BY ONLY <1>2, n \in 1..N
    <3>2. f[n - 1].left # {}
      <4>1. Cardinality({}) = 0
        BY FS_EmptySet
      <4>2. QED
        BY ONLY <1>6, <3>1, <4>1
    <3>3. QED
      BY ONLY <1>5, <3>2, n \in 1..N
  <2>2. QED
    BY <2>1
<1>8. f = Def(f)
  <2>1. DOMAIN f = 0..N /\ f = [n \in 0..N |-> f[n]]
    BY ONLY <1>5
  <2>2. \A n \in 0..N : f[n] = IF n = 0 THEN a ELSE Extended(f[n - 1])
    <3>1. \A n \in 0..N : n = 0 \/ n \in 1..N
      BY ONLY <1>2
    <3> HIDE DEF a
    <3>2. QED
      BY ONLY <1>5, <1>7, <3>1
  <2> HIDE DEF a
  <2>3. QED
    BY ONLY <2>1, <2>2
<1>9. PICK g : g = Def(g) /\ Sequence(S) = g[N].done
  <2> DEFINE h == CHOOSE g : g = Def(g)
  <2>1. h = Def(h)
    <3> HIDE DEF Def
    <3>1. QED
      BY ONLY <1>8
  <2>2. Sequence(S) = h[N].done
    BY ONLY <1>1 DEF Sequence, Extended
  <2>3. QED
    BY ONLY <2>1, <2>2
<1>10. Chain(g, B)
  <2> HIDE DEF a
  <2>1. 0 \in 0..N /\ \A n \in 1..N : n \in 0..N /\ n # 0
    BY ONLY <1>2
  <2>2. g[0] = a /\ \A n \in 1..N : g[n] = Extended(g[n - 1])
    BY ONLY <1>9, <2>1
  <2>3. QED
    BY ONLY <1>1, <2>2 DEF Chain, a
<1>11. QED
  BY ONLY <1>1, <1>9, <1>10

(* The visiting order has every stop, once. *)
LEMMA SequenceHas ==
  ASSUME NEW S, StopsOK(S)
  PROVE  Sequence(S) \in Seq(S) /\ Once(Sequence(S)) /\ Range(Sequence(S)) = S
<1>1. PICK B, N : B = Blocks(S) /\ N = Cardinality(B)
  OBVIOUS
<1>2. Parts(B, S) /\ N \in Nat
  BY <1>1, BlocksArePartition, FS_CardinalityType DEF Parts
<1>3. PICK f : Chain(f, B) /\ Sequence(S) = f[N].done
  BY ONLY StopsOK(S), <1>1, SequenceIs
<1>4. f[0] = [done |-> <<>>, left |-> B] /\ \A n \in 1..N : f[n] = Extended(f[n - 1])
  BY <1>1, <1>3 DEF Chain
<1> DEFINE Good(n) == /\ f[n] \in Walks(S, B) /\ Cardinality(f[n].left) = N - n /\ Once(f[n].done)
                      /\ \A s \in S : s \in Range(f[n].done) <=> \A b \in f[n].left : s \notin Range(b)
           G == {n \in Nat : n <= N => Good(n)}
<1>5. Good(0)
  <2>1. f[0].done = <<>> /\ f[0].left = B /\ f[0] \in Walks(S, B)
    BY <1>4 DEF Walks
  <2>2. Range(<<>>) = {} /\ Once(<<>>)
    BY DEF Range, Once
  <2>3. QED
    BY ONLY <1>1, <1>2, <2>1, <2>2 DEF Parts
<1>6. ASSUME NEW n \in Nat, n + 1 <= N, Good(n) PROVE Good(n + 1)
  <2>1. n + 1 \in 1..N /\ n + 1 - 1 = n /\ N - n # 0 /\ N - n - 1 = N - (n + 1)
    BY ONLY <1>2, <1>6
  <2>2. PICK s, t : s = f[n] /\ t = f[n + 1]
    OBVIOUS
  <2>3. /\ s \in Walks(S, B) /\ Cardinality(s.left) = N - n /\ Once(s.done)
        /\ \A x \in S : x \in Range(s.done) <=> \A b \in s.left : x \notin Range(b)
    BY ONLY <1>6, <2>2
  <2>4. s.left # {}
    <3>1. Cardinality({}) = 0
      BY FS_EmptySet
    <3>2. QED
      BY ONLY <2>1, <2>3, <3>1
  <2>5. t = Extended(s)
    BY ONLY <1>4, <2>1, <2>2
  <2>6. PICK b \in s.left : t.done = s.done \o b /\ t.left = s.left \ {b}
    <3>1. \E b \in s.left : Extended(s).done = s.done \o b /\ Extended(s).left = s.left \ {b}
      BY ONLY StopsOK(S), <1>2, <2>3, <2>4, ExtendedIs
    <3>2. QED
      BY ONLY <2>5, <3>1
  <2>7. t \in Walks(S, B) /\ Cardinality(t.left) = N - (n + 1)
    <3>1. t \in Walks(S, B) /\ Cardinality(t.left) = Cardinality(s.left) - 1
      BY <1>2, <2>3, <2>4, <2>5, ExtendedIs
    <3>2. QED
      BY ONLY <2>1, <2>3, <3>1
  <2>8. s.done \in Seq(S) /\ s.left \subseteq B /\ b \in Seq(S) /\ Once(b)
    <3>1. s.done \in Seq(S) /\ s.left \subseteq B
      BY <2>3 DEF Walks
    <3>2. QED
      BY ONLY <1>2, <2>6, <3>1 DEF Parts
  <2>9. Range(b) \subseteq S /\ Range(s.done) \subseteq S
    BY ONLY <2>8 DEF Range
  <2>10. Range(s.done) \cap Range(b) = {}
    BY ONLY <2>3, <2>6, <2>9
  <2>11. Once(t.done) /\ Range(t.done) = Range(s.done) \cup Range(b)
    <3>1. PICK d : d = s.done
      OBVIOUS
    <3>2. Once(d \o b) /\ Range(d \o b) = Range(d) \cup Range(b)
      BY ONLY <2>3, <2>8, <2>10, <3>1, ConcatIs
    <3>3. QED
      BY ONLY <2>6, <3>1, <3>2
  <2>12. ASSUME NEW x \in S
         PROVE  x \in Range(t.done) <=> \A c \in t.left : x \notin Range(c)
    <3>1. \A c \in s.left : c # b => Range(c) \cap Range(b) = {}
      BY ONLY <1>2, <2>6, <2>8 DEF Parts
    <3>2. QED
      BY ONLY <2>3, <2>6, <2>11, <3>1, x \in S
  <2>13. QED
    BY ONLY <2>2, <2>7, <2>11, <2>12
<1>7. Good(N)
  <2> HIDE DEF Good
  <2>1. 0 \in G /\ \A n \in Nat : n \in G => n + 1 \in G
    BY ONLY <1>2, <1>5, <1>6
  <2>2. N \in G
    <3> HIDE DEF G
    <3>1. QED
      BY ONLY <1>2, <2>1, Induction
  <2>3. QED
    BY ONLY <1>2, <2>2
<1>8. f[N].left = {} /\ f[N].done \in Seq(S)
  <2>1. f[N].left \in SUBSET B /\ f[N].done \in Seq(S)
    BY ONLY <1>7 DEF Walks
  <2>2. IsFiniteSet(f[N].left)
    BY ONLY <1>2, <2>1, FS_Subset DEF Parts
  <2>3. Cardinality(f[N].left) = 0
    BY ONLY <1>2, <1>7
  <2>4. QED
    BY ONLY <2>1, <2>2, <2>3, FS_EmptySet
<1>9. Range(f[N].done) = S
  <2>1. Range(f[N].done) \subseteq S
    BY ONLY <1>8 DEF Range
  <2>2. QED
    BY ONLY <1>7, <1>8, <2>1
<1>10. QED
  BY ONLY <1>3, <1>7, <1>8, <1>9

-----------------------------------------------------------------------------
(* What the traveller is shown. *)

CatalogOK ==
  catalog \in [DOMAIN catalog -> [tour : Tours, idx : Nat \cup {None}, name : DOMAIN At]]

IdsOf(entries) == [n \in DOMAIN entries |-> entries[n].id]

LEMMA RowIs ==
  ASSUME CatalogOK, NEW i \in DOMAIN catalog
  PROVE  /\ Row(i).id = i /\ Row(i).idx \in Nat \cup {None} /\ Row(i).at \in Int
         /\ "id" \in DOMAIN Row(i)
<1>1. PICK c : c = catalog[i]
  OBVIOUS
<1>2. c \in [tour : Tours, idx : Nat \cup {None}, name : DOMAIN At]
  BY <1>1 DEF CatalogOK
<1>3. c.idx \in Nat \cup {None} /\ At[c.name] \in Int
  BY <1>2, CatalogAssumption
<1>4. Row(i) = [id |-> i, tour |-> c.tour, idx |-> c.idx, name |-> c.name, at |-> At[c.name]]
  BY <1>1 DEF Row
<1>5. QED
  BY ONLY <1>3, <1>4

(* More fields leave an entry's id. *)
LEMMA WithFieldsIs ==
  ASSUME NEW f, NEW g, "id" \in DOMAIN f
  PROVE  Over(f, g).id = f.id
BY DEF Over

LEMMA GroupIs ==
  ASSUME NEW ordered, \A n \in DOMAIN ordered : "id" \in DOMAIN ordered[n]
  PROVE  IdsOf(GroupIntoDays(ordered)) = IdsOf(ordered)
<1>1. PICK t : t = GroupIntoDays(ordered)
  OBVIOUS
<1>2. DOMAIN t = DOMAIN ordered /\ \A n \in DOMAIN ordered : t[n] = Over(ordered[n], [day |-> Days(ordered)[n]])
  BY <1>1 DEF GroupIntoDays
<1>3. \A n \in DOMAIN ordered : t[n].id = ordered[n].id
  BY <1>2, WithFieldsIs
<1>4. QED
  BY <1>1, <1>2, <1>3 DEF IdsOf

(* A list of stops, each with an id of its own, and the list of the ids. *)
LEMMA IdsOfIs ==
  ASSUME NEW X, NEW S, NEW s \in Seq(S), \A a \in S : a.id \in X, \A a, b \in S : a.id = b.id => a = b
  PROVE  /\ IdsOf(s) \in Seq(X) /\ Range(IdsOf(s)) = {a.id : a \in Range(s)}
         /\ Once(s) => Once(IdsOf(s))
<1>1. PICK g, N : g = IdsOf(s) /\ N = Len(s)
  OBVIOUS
<1>2. N \in Nat /\ DOMAIN s = 1..N /\ \A n \in 1..N : s[n] \in S
  BY <1>1
<1>3. g = [n \in 1..N |-> s[n].id]
  BY <1>1, <1>2 DEF IdsOf
<1>4. g \in Seq(X)
  BY ONLY <1>2, <1>3, \A a \in S : a.id \in X
<1>5. DOMAIN g = 1..N /\ \A n \in 1..N : g[n] = s[n].id
  BY ONLY <1>3
<1>6. Range(g) = {a.id : a \in Range(s)}
  BY ONLY <1>2, <1>5 DEF Range
<1>7. Once(s) => Once(g)
  BY ONLY <1>2, <1>5, \A a, b \in S : a.id = b.id => a = b DEF Once
<1>8. QED
  BY ONLY <1>1, <1>4, <1>6, <1>7

(* The stops of a list of ids. *)
RowsOf(ids) == [n \in DOMAIN ids |-> Row(ids[n])]

LEMMA RowsOfIs ==
  ASSUME CatalogOK, NEW ids \in Seq(DOMAIN catalog)
  PROVE  /\ IdsOf(RowsOf(ids)) = ids /\ RowsOf(ids) \in Seq({Row(i) : i \in DOMAIN catalog})
         /\ Range(RowsOf(ids)) = {Row(i) : i \in Range(ids)}
         /\ \A n \in DOMAIN RowsOf(ids) : "id" \in DOMAIN RowsOf(ids)[n]
<1>1. PICK r, N, X : r = RowsOf(ids) /\ N = Len(ids) /\ X = DOMAIN catalog
  OBVIOUS
<1>2. N \in Nat /\ DOMAIN ids = 1..N /\ (\A n \in 1..N : ids[n] \in X) /\ ids = [n \in 1..N |-> ids[n]]
  BY <1>1
<1>3. DOMAIN r = 1..N /\ (\A n \in 1..N : r[n] = Row(ids[n])) /\ r = [n \in 1..N |-> Row(ids[n])]
  BY ONLY <1>1, <1>2 DEF RowsOf
<1>4. \A i \in X : Row(i).id = i /\ "id" \in DOMAIN Row(i)
  BY <1>1, RowIs
<1>5. IdsOf(r) = ids
  <2>1. IdsOf(r) = [n \in 1..N |-> r[n].id] /\ \A n \in 1..N : r[n].id = ids[n]
    BY ONLY <1>2, <1>3, <1>4 DEF IdsOf
  <2>2. QED
    BY ONLY <1>2, <2>1
<1>6. r \in Seq({Row(i) : i \in X})
  BY ONLY <1>2, <1>3
<1>7. Range(r) = {Row(i) : i \in Range(ids)}
  BY ONLY <1>2, <1>3 DEF Range
<1>8. \A n \in 1..N : "id" \in DOMAIN r[n]
  BY ONLY <1>2, <1>3, <1>4
<1>9. QED
  BY ONLY <1>1, <1>3, <1>5, <1>6, <1>7, <1>8

LEMMA IntervalIs ==
  ASSUME NEW N \in Nat
  PROVE  IsFiniteSet(1..N) /\ Cardinality(1..N) = N
BY FS_Interval

(* As many elements as places, if none is twice in a list. *)
LEMMA Counted ==
  ASSUME NEW S, NEW s \in Seq(S)
  PROVE  IsFiniteSet(Range(s)) /\ (Once(s) => Cardinality(Range(s)) = Len(s))
<1>1. PICK N, T : N = Len(s) /\ T = Range(s)
  OBVIOUS
<1>2. N \in Nat /\ DOMAIN s = 1..N /\ s = [n \in 1..N |-> s[n]]
  BY <1>1
<1>3. s \in Surjection(1..N, T)
  <2>1. s \in [1..N -> T] /\ \A x \in T : \E n \in 1..N : s[n] = x
    BY ONLY <1>1, <1>2 DEF Range
  <2>2. QED
    BY ONLY <2>1 DEF Surjection
<1>4. IsFiniteSet(1..N) /\ Cardinality(1..N) = N
  BY ONLY <1>2, IntervalIs
<1>5. IsFiniteSet(T) /\ (Cardinality(T) = Cardinality(1..N) <=> s \in Injection(1..N, T))
  BY ONLY <1>3, <1>4, FS_Surjection
<1>6. ASSUME Once(s) PROVE s \in Injection(1..N, T)
  <2>1. s \in [1..N -> T]
    BY ONLY <1>3 DEF Surjection
  <2>2. \A m, n \in DOMAIN s : s[m] = s[n] => m = n
    BY ONLY <1>6 DEF Once
  <2>3. QED
    BY ONLY <2>1, <2>2 DEF Injection, IsInjective
<1>7. QED
  BY ONLY <1>1, <1>4, <1>5, <1>6

(* The itinerary has the stops that are served, each once, in whatever order. *)
LEMMA ProjectedIs ==
  ASSUME CatalogOK, DOMAIN catalog \subseteq Nat,
         NEW served \in Seq(DOMAIN catalog), Once(served),
         NEW X, NEW order \in Seq(X), Once(order)
  PROVE  /\ IdsOf(ProjectItinerary(served, order)) \in Seq(DOMAIN catalog)
         /\ Once(IdsOf(ProjectItinerary(served, order)))
         /\ Range(IdsOf(ProjectItinerary(served, order))) = Range(served)
<1>1. PICK C, S : C = DOMAIN catalog /\ S = {Row(i) : i \in C}
  OBVIOUS
<1>2. Range(served) \subseteq C
  BY ONLY <1>1, served \in Seq(DOMAIN catalog) DEF Range
<1>3. \A i \in C : Row(i).id = i /\ Row(i).idx \in Nat \cup {None} /\ Row(i).at \in Int /\ "id" \in DOMAIN Row(i)
  BY ONLY CatalogOK, <1>1, RowIs
<1>4. CASE order = <<>>
  <2>1. PICK T, q : T = Range(RowsOf(served)) /\ q = Sequence(T)
    OBVIOUS
  <2>2. ProjectItinerary(served, order) = GroupIntoDays(q)
    BY <1>4, <2>1 DEF ProjectItinerary, RowsOf
  <2>3. T = {Row(i) : i \in Range(served)} /\ IsFiniteSet(T)
    <3>1. T = {Row(i) : i \in Range(served)} /\ RowsOf(served) \in Seq({Row(i) : i \in DOMAIN catalog})
      BY ONLY CatalogOK, served \in Seq(DOMAIN catalog), <2>1, RowsOfIs
    <3>2. QED
      BY ONLY <2>1, <3>1, Counted
  <2>4. /\ \A a \in T : a.id \in Range(served) /\ a = Row(a.id) /\ "id" \in DOMAIN a
        /\ \A a, b \in T : a.id = b.id => a = b
    BY ONLY <1>2, <1>3, <2>3
  <2>5. StopsOK(T)
    BY ONLY <1>1, <1>2, <1>3, <2>3, <2>4, DOMAIN catalog \subseteq Nat DEF StopsOK
  <2>6. q \in Seq(T) /\ Once(q) /\ Range(q) = T
    BY ONLY <2>1, <2>5, SequenceHas
  <2>7. \A n \in DOMAIN q : "id" \in DOMAIN q[n]
    BY ONLY <2>4, <2>6 DEF Range
  <2>8. IdsOf(GroupIntoDays(q)) = IdsOf(q)
    BY ONLY <2>7, GroupIs
  <2>9. IdsOf(q) \in Seq(C) /\ Range(IdsOf(q)) = {a.id : a \in T} /\ Once(IdsOf(q))
    <3>1. \A a \in T : a.id \in C
      BY ONLY <1>2, <2>4
    <3>2. QED
      BY ONLY <2>4, <2>6, <3>1, IdsOfIs
  <2>10. {a.id : a \in T} = Range(served)
    BY ONLY <1>2, <1>3, <2>3
  <2>11. QED
    BY ONLY <1>1, <2>2, <2>8, <2>9, <2>10
<1>5. CASE order # <<>>
  <2>1. PICK listed, rest, ids : /\ listed = Only(order, Range(served))
                                 /\ rest = Only(served, Range(served) \ Range(order))
                                 /\ ids = listed \o rest
    OBVIOUS
  <2>2. ProjectItinerary(served, order) = GroupIntoDays(RowsOf(ids))
    BY <1>5, <2>1 DEF ProjectItinerary, RowsOf
  <2>3. listed \in Seq(X) /\ Once(listed) /\ Range(listed) = Range(order) \cap Range(served)
    BY ONLY order \in Seq(X), Once(order), <2>1, OnlyKeeps
  <2>4. listed \in Seq(C)
    <3>1. \A n \in 1..Len(listed) : listed[n] \in C
      <4>1. Range(listed) \subseteq C /\ DOMAIN listed = 1..Len(listed)
        BY ONLY <1>2, <2>3
      <4>2. QED
        BY ONLY <4>1 DEF Range
    <3>2. QED
      BY ONLY <2>3, <3>1
  <2>5. rest \in Seq(C) /\ Once(rest) /\ Range(rest) = Range(served) \ Range(order)
    <3>1. /\ rest \in Seq(C) /\ Once(rest)
          /\ Range(rest) = Range(served) \cap (Range(served) \ Range(order))
      BY ONLY served \in Seq(DOMAIN catalog), Once(served), <1>1, <2>1, OnlyKeeps
    <3>2. QED
      BY ONLY <3>1
  <2>6. ids \in Seq(C) /\ Once(ids) /\ Range(ids) = Range(served)
    <3>1. Range(listed) \cap Range(rest) = {} /\ Range(listed) \cup Range(rest) = Range(served)
      BY ONLY <2>3, <2>5
    <3>2. ids \in Seq(C) /\ Once(ids) /\ Range(ids) = Range(listed) \cup Range(rest)
      BY ONLY <2>1, <2>3, <2>4, <2>5, <3>1, ConcatIs
    <3>3. QED
      BY ONLY <3>1, <3>2
  <2>7. IdsOf(RowsOf(ids)) = ids /\ \A n \in DOMAIN RowsOf(ids) : "id" \in DOMAIN RowsOf(ids)[n]
    BY ONLY CatalogOK, <1>1, <2>6, RowsOfIs
  <2>8. IdsOf(GroupIntoDays(RowsOf(ids))) = ids
    BY ONLY <2>7, GroupIs
  <2>9. QED
    BY ONLY <1>1, <2>2, <2>6, <2>8
<1>6. QED
  BY ONLY <1>4, <1>5

LEMMA ResolveIs ==
  ASSUME IdsOK, NEW hops, NEW ids \in Seq(Ids)
  PROVE  Resolve(IdRows, redirect, hops, ids) \in Seq(Ids) /\ Once(Resolve(IdRows, redirect, hops, ids))
<1>1. PICK N, r, X : N = Len(ids) /\ X = Ids /\ r = [n \in DOMAIN ids |-> Current(ids[n], hops)]
  OBVIOUS
<1>2. N \in Nat /\ DOMAIN ids = 1..N /\ \A n \in 1..N : ids[n] \in X
  BY ONLY ids \in Seq(Ids), <1>1
<1>3. \A n \in 1..N : Current(ids[n], hops) \in X
  BY ONLY IdsOK, <1>1, <1>2, CurrentStays
<1>4. r \in Seq(X)
  <2>1. r = [n \in 1..N |-> Current(ids[n], hops)]
    BY ONLY <1>1, <1>2
  <2>2. QED
    BY ONLY <1>2, <1>3, <2>1
<1>5. Resolve(IdRows, redirect, hops, ids) = Distinct(r)
  BY ONLY <1>1 DEF Resolve, Current
<1>6. QED
  BY ONLY <1>1, <1>4, <1>5, DistinctKeeps

LEMMA OrderIs ==
  ASSUME IdsOK, NEW hops, NEW log \in Seq(Events(Ids))
  PROVE  ExplicitOrder(log, hops) \in Seq(Ids) /\ Once(ExplicitOrder(log, hops))
<1>1. PICK last : last = {n \in DOMAIN log : /\ log[n].type = "reorder"
                                             /\ \A m \in (n + 1)..Len(log) : ~Shaping(log[m])}
  OBVIOUS
<1>2. CASE last = {}
  <2>1. ExplicitOrder(log, hops) = <<>>
    BY ONLY <1>1, <1>2 DEF ExplicitOrder
  <2>2. <<>> \in Seq(Ids) /\ Once(<<>>)
    BY DEF Once
  <2>3. QED
    BY ONLY <2>1, <2>2
<1>3. CASE last # {}
  <2>1. PICK k : k = CHOOSE n \in last : TRUE
    OBVIOUS
  <2>2. k \in last
    BY ONLY <1>3, <2>1
  <2>3. k \in DOMAIN log /\ log[k].type = "reorder"
    BY ONLY <1>1, <2>2
  <2>4. log[k] \in Events(Ids)
    BY ONLY log \in Seq(Events(Ids)), <2>3
  <2>5. log[k].order \in Seq(Ids)
    BY ONLY <2>3, <2>4, EventIs
  <2>6. ExplicitOrder(log, hops) = Resolve(IdRows, redirect, hops, log[k].order)
    BY ONLY <1>1, <1>3, <2>1 DEF ExplicitOrder
  <2>7. QED
    BY ONLY IdsOK, <2>5, <2>6, ResolveIs
<1>4. QED
  BY ONLY <1>2, <1>3

(* An added day is after a stop by the id that its stop has. *)
LEMMA CustomDayIs ==
  ASSUME IdsOK, NEW hops, NEW log \in Seq(Events(Ids)), NEW d \in Range(CustomDays(log, hops))
  PROVE  d.day \in Nat /\ (d.after = None \/ \E a \in Ids : d.after = Current(a, hops))
<1> DEFINE removed == {log[n].day : n \in {m \in DOMAIN log : log[m].type = "remove_day"}}
           standing == {e \in Range(log) : e.type = "add_day" /\ e.day \notin removed}
<1>1. PICK left, T : T = standing /\ left = Only(log, T)
  OBVIOUS
<1>2. PICK days : days = [n \in DOMAIN left |-> [left[n] EXCEPT !.after = IF @ = None THEN None ELSE Current(@, hops)]]
  OBVIOUS
<1>3. CustomDays(log, hops) = days
  BY ONLY <1>1, <1>2 DEF CustomDays
<1>4. PICK n \in DOMAIN left : d = [left[n] EXCEPT !.after = IF @ = None THEN None ELSE Current(@, hops)]
  <2>1. d \in Range(days)
    BY ONLY d \in Range(CustomDays(log, hops)), <1>3
  <2>2. QED
    BY ONLY <1>2, <2>1 DEF Range
<1>5. PICK e : e = left[n]
  OBVIOUS
<1>6. e \in Events(Ids) /\ e.type = "add_day"
  <2>1. left \in Seq(Events(Ids)) /\ Range(left) = Range(log) \cap T
    BY ONLY log \in Seq(Events(Ids)), <1>1, OnlyKeeps
  <2>2. e \in Events(Ids)
    BY ONLY n \in DOMAIN left, <1>5, <2>1
  <2>3. e \in T
    BY ONLY n \in DOMAIN left, <1>5, <2>1 DEF Range
  <2> HIDE DEF removed
  <2>4. QED
    BY ONLY <1>1, <2>2, <2>3
<1>7. e \in [type : {"add_day"}, day : Nat, after : Ids \cup {None}]
  BY ONLY <1>6 DEF Events
<1>8. d.day = e.day /\ d.after = IF e.after = None THEN None ELSE Current(e.after, hops)
  BY ONLY <1>4, <1>5, <1>7
<1>9. QED
  BY ONLY <1>7, <1>8

-----------------------------------------------------------------------------
(* The invariant. *)

Wanted == {now[i] : i \in kept}

Blurred == {now[i] : i \in joined}

TablesOK ==
  /\ CatalogOK
  /\ DOMAIN IdRows \subseteq Ids /\ DOMAIN FirstCatalog \subseteq Ids
  /\ \A i \in DOMAIN catalog : i \notin DOMAIN redirect /\ i \notin DOMAIN IdRows

LogOK == events \in Seq(Events(Ids)) /\ kept \subseteq Ids /\ joined \subseteq Ids

(* The log says what the traveller wants, but where a remove took more.      *)
Agreed ==
  /\ \A c : Lives(events, Len(events), now, c) => c \in Wanted
  /\ \A c \in Wanted \ Blurred : Lives(events, Len(events), now, c)

Inv == IdsOK /\ TablesOK /\ LogOK /\ Agreed

LEMMA PresentIsWanted ==
  ASSUME Inv
  PROVE  /\ Present(events, Hops) \in Seq(Ids) /\ Once(Present(events, Hops))
         /\ Range(Present(events, Hops)) \subseteq Wanted
         /\ Wanted \ Blurred \subseteq Range(Present(events, Hops))
<1>1. IdsOK /\ events \in Seq(Events(Ids)) /\ Agreed
  BY DEF Inv, LogOK
<1>2. now \in [Ids -> Ids] /\ \A i \in Ids : Current(i, Hops) = now[i]
  <2>1. \A i \in Ids : Current(i, Hops) = now[i]
    BY ONLY <1>1, CurrentIsNow
  <2>2. now \in [Ids -> Ids]
    BY ONLY <1>1 DEF IdsOK
  <2>3. QED
    BY ONLY <2>1, <2>2
<1>3. /\ Present(events, Hops) \in Seq(Ids) /\ Once(Present(events, Hops))
      /\ \A c : c \in Range(Present(events, Hops)) <=> Lives(events, Len(events), now, c)
  BY ONLY <1>1, <1>2, PresentHas
<1>4. QED
  BY ONLY <1>1, <1>3 DEF Agreed

(* What is served is shown in the itinerary, the rest apart. *)
LEMMA ShownIs ==
  ASSUME Inv
  PROVE  LET shown == IdsOf(Trip) \o IdsOf(Apart)
         IN /\ shown \in Seq(Ids) /\ Once(shown)
            /\ Range(shown) = Range(Present(events, Hops))
<1>1. PICK P, C : P = Present(events, Hops) /\ C = DOMAIN catalog
  OBVIOUS
<1>2. P \in Seq(Ids) /\ Once(P)
  BY ONLY Inv, <1>1, PresentIsWanted
<1>3. IdsOK /\ CatalogOK /\ events \in Seq(Events(Ids)) /\ C \subseteq Ids /\ C \subseteq Nat
  <2>1. IdsOK /\ CatalogOK /\ events \in Seq(Events(Ids))
    BY ONLY Inv DEF Inv, TablesOK, LogOK
  <2>2. C \subseteq Ids /\ Ids \subseteq Nat
    BY ONLY <1>1, <2>1 DEF IdsOK, Ids
  <2>3. QED
    BY ONLY <2>1, <2>2
<1>4. PICK served, gone : served = Served(events, Hops) /\ gone = Missing(events, Hops)
  OBVIOUS
<1>5. /\ served \in Seq(C) /\ Once(served) /\ Range(served) = Range(P) \cap ServedIds
      /\ gone \in Seq(Ids) /\ Once(gone) /\ Range(gone) = Range(P) \ ServedIds
  <2>1. /\ served \in Seq(Ids) /\ Once(served) /\ Range(served) = Range(P) \cap ServedIds
        /\ gone \in Seq(Ids) /\ Once(gone) /\ Range(gone) = Range(P) \cap (Range(P) \ ServedIds)
    BY ONLY <1>1, <1>2, <1>4, OnlyKeeps DEF Served, Missing
  <2>2. served \in Seq(C)
    <3>1. DOMAIN served = 1..Len(served) /\ Range(served) \subseteq C
      BY ONLY <1>1, <2>1 DEF ServedIds
    <3>2. \A n \in 1..Len(served) : served[n] \in C
      BY ONLY <3>1 DEF Range
    <3>3. QED
      BY ONLY <2>1, <3>2
  <2>3. QED
    BY ONLY <2>1, <2>2
<1>6. PICK order : order = ExplicitOrder(events, Hops)
  OBVIOUS
<1>7. order \in Seq(Ids) /\ Once(order)
  BY ONLY <1>3, <1>6, OrderIs
<1>8. Trip = ProjectItinerary(served, order)
  BY ONLY <1>4, <1>6 DEF Trip, Itinerary
<1>9. PICK trip, apart : trip = IdsOf(Trip) /\ apart = IdsOf(Apart)
  OBVIOUS
<1>10. trip \in Seq(C) /\ Once(trip) /\ Range(trip) = Range(served)
  BY ONLY <1>1, <1>3, <1>5, <1>7, <1>8, <1>9, ProjectedIs
<1>11. apart = gone
  <2> DEFINE stop(i) == IF i \in DOMAIN draft THEN draft[i] ELSE Blank
             said(n) == [id |-> gone[n], reason |-> StopReason(stop(gone[n]).tour, Views)]
  <2>1. Apart = [n \in DOMAIN gone |-> Over(said(n), stop(gone[n]))]
    BY ONLY <1>4 DEF Apart, UnavailableStops
  <2>2. \A n : "id" \in DOMAIN said(n) /\ said(n).id = gone[n]
    OBVIOUS
  <2> HIDE DEF said, stop
  <2>3. \A n : Over(said(n), stop(gone[n])).id = gone[n]
    BY ONLY <2>2, WithFieldsIs
  <2>4. DOMAIN Apart = DOMAIN gone /\ \A n \in DOMAIN gone : Apart[n] = Over(said(n), stop(gone[n]))
    BY ONLY <2>1
  <2>5. apart = [n \in DOMAIN gone |-> gone[n]]
    BY ONLY <1>9, <2>3, <2>4 DEF IdsOf
  <2>6. gone = [n \in DOMAIN gone |-> gone[n]]
    BY ONLY <1>5
  <2>7. QED
    BY ONLY <2>5, <2>6
<1>12. trip \in Seq(Ids) /\ apart \in Seq(Ids) /\ Once(trip) /\ Once(apart)
  <2>1. C \subseteq Ids /\ trip \in Seq(C)
    BY ONLY <1>3, <1>10
  <2>2. trip \in Seq(Ids)
    BY ONLY <2>1, SeqWidens
  <2>3. QED
    BY ONLY <1>5, <1>10, <1>11, <2>2
<1>13. Range(trip) \cap Range(apart) = {} /\ Range(trip) \cup Range(apart) = Range(P)
  BY ONLY <1>5, <1>10, <1>11
<1>14. trip \o apart \in Seq(Ids) /\ Once(trip \o apart) /\ Range(trip \o apart) = Range(P)
  <2>1. trip \o apart \in Seq(Ids) /\ Once(trip \o apart) /\ Range(trip \o apart) = Range(trip) \cup Range(apart)
    BY ONLY <1>12, <1>13, ConcatIs
  <2>2. QED
    BY ONLY <1>13, <2>1
<1>15. QED
  BY ONLY <1>1, <1>9, <1>14

LEMMA InvIsEnough ==
  ASSUME Inv
  PROVE  NothingVanishes
<1>1. PICK shown, nights : /\ shown = IdsOf(Trip) \o IdsOf(Apart)
                           /\ nights = {d.after : d \in Range(CustomDays(events, Hops))} \ {None}
  OBVIOUS
<1>2. shown \in Seq(Ids) /\ Once(shown) /\ Range(shown) = Range(Present(events, Hops))
  BY ONLY Inv, <1>1, ShownIs
<1>3. Len(shown) = Cardinality(Range(shown))
  BY ONLY <1>2, Counted
<1>4. Range(shown) \subseteq Wanted /\ Wanted \ Blurred \subseteq Range(shown)
  BY ONLY Inv, <1>2, PresentIsWanted
<1>5. ASSUME NEW i \in nights, now[i] \in Wanted \ Blurred PROVE i \in Range(shown)
  <2>1. IdsOK /\ events \in Seq(Events(Ids))
    BY ONLY Inv DEF Inv, LogOK
  <2>2. PICK d \in Range(CustomDays(events, Hops)) : i = d.after /\ i # None
    BY ONLY <1>1, i \in nights
  <2>3. PICK a \in Ids : i = Current(a, Hops)
    BY ONLY <2>1, <2>2, CustomDayIs
  <2>4. i = now[a] /\ now[now[a]] = now[a]
    <3>1. i = now[a]
      BY ONLY <2>1, <2>3, CurrentIsNow
    <3>2. QED
      BY ONLY <2>1, <3>1 DEF IdsOK
  <2>5. QED
    BY ONLY <1>4, <1>5, <2>4
<1>6. QED
  BY ONLY <1>1, <1>3, <1>4, <1>5 DEF NothingVanishes, Wanted, Blurred, IdsOf

LEMMA InitKeeps ==
  ASSUME Init
  PROVE  Inv
<1>1. PICK X : X = 0..(FirstNext - 1)
  OBVIOUS
<1>2. /\ FirstNext \in Nat /\ X \subseteq Nat
      /\ DOMAIN FirstCatalog \subseteq X /\ DOMAIN IdRows \subseteq X
      /\ \A i \in DOMAIN IdRows : IdRows[i] \in DOMAIN FirstCatalog /\ i \notin DOMAIN FirstCatalog
  BY ONLY <1>1, CatalogAssumption
<1>3. /\ catalog = FirstCatalog /\ redirect = NoRows /\ changes = 0 /\ next = FirstNext /\ Ids = X
      /\ now = [i \in X |-> IF i \in DOMAIN IdRows THEN IdRows[i] ELSE i]
  BY ONLY Init, <1>1 DEF Init, Ids
<1>4. \A i : i \notin DOMAIN redirect /\ Hop(redirect, i) = IF i \in DOMAIN IdRows THEN IdRows[i] ELSE i
  <2>1. \A i : i \notin DOMAIN NoRows
    BY DEF NoRows
  <2>2. QED
    BY ONLY <1>3, <2>1 DEF Hop, NextHop
<1>5. IdsOK
  <2>1. now \in [X -> X] /\ \A i \in X : now[i] = IF i \in DOMAIN IdRows THEN IdRows[i] ELSE i
    BY ONLY <1>2, <1>3
  <2>2. \A i \in X : /\ Hop(redirect, i) \in X /\ now[Hop(redirect, i)] = now[i]
                     /\ now[now[i]] = now[i]
                     /\ now[i] = i => Hop(redirect, i) = i
    BY ONLY <1>2, <1>4, <2>1
  <2>3. \A i \in DOMAIN catalog : now[i] = i
    BY ONLY <1>2, <1>3, <2>1
  <2>4. \E rank \in [X -> 0..(changes + 1)] : \A i \in X : now[i] # i => rank[Hop(redirect, i)] < rank[i]
    <3>1. PICK rank : rank = [i \in X |-> IF i \in DOMAIN IdRows THEN 1 ELSE 0]
      OBVIOUS
    <3>2. \A i \in X : rank[i] = (IF i \in DOMAIN IdRows THEN 1 ELSE 0) /\ rank[i] \in 0..(changes + 1)
      BY ONLY <1>3, <3>1
    <3>3. rank \in [X -> 0..(changes + 1)]
      BY ONLY <3>1, <3>2
    <3>4. \A i \in X : now[i] # i => rank[Hop(redirect, i)] < rank[i]
      <4>1. SUFFICES ASSUME NEW i \in X, now[i] # i PROVE rank[Hop(redirect, i)] < rank[i]
        OBVIOUS
      <4>2. i \in DOMAIN IdRows
        BY ONLY <2>1, <4>1
      <4>3. PICK h : h = Hop(redirect, i)
        OBVIOUS
      <4>4. h \in X /\ h \notin DOMAIN IdRows
        BY ONLY <1>2, <1>4, <4>2, <4>3
      <4>5. rank[h] = 0 /\ rank[i] = 1
        BY ONLY <3>2, <4>1, <4>2, <4>4
      <4>6. QED
        BY ONLY <4>3, <4>5
    <3>5. QED
      BY ONLY <3>3, <3>4
  <2>5. changes \in 0..MaxChanges /\ next \in Nat
    BY ONLY <1>2, <1>3, HopsSuffice
  <2>6. DOMAIN catalog \subseteq X /\ DOMAIN redirect \subseteq X
    BY ONLY <1>2, <1>3, <1>4
  <2>7. QED
    BY ONLY <1>3, <2>1, <2>2, <2>3, <2>4, <2>5, <2>6 DEF IdsOK, Sinks
<1>6. TablesOK
  BY ONLY <1>2, <1>3, <1>4, CatalogAssumption DEF TablesOK, CatalogOK
<1>10. events = <<>> /\ kept = {} /\ joined = {}
  BY ONLY Init DEF Init
<1>7. LogOK
  BY ONLY <1>10 DEF LogOK
<1>8. Agreed
  <2>1. Len(events) = 0
    BY ONLY <1>10
  <2>2. \A c : ~Lives(events, 0, now, c)
    BY DEF Lives
  <2>3. Wanted = {}
    BY ONLY <1>10 DEF Wanted
  <2>4. QED
    BY ONLY <2>1, <2>2, <2>3 DEF Agreed
<1>9. QED
  BY ONLY <1>5, <1>6, <1>7, <1>8 DEF Inv

-----------------------------------------------------------------------------
(* The traveller's requests. *)

(* What happens to an event leaves what was before it.                       *)
LEMMA LivesSame ==
  ASSUME NEW log, NEW other, NEW n \in Nat, NEW called, NEW c, \A k \in 1..n : log[k] = other[k]
  PROVE  Lives(log, n, called, c) <=> Lives(other, n, called, c)
<1>1. \A k \in 1..n : \A m \in (k + 1)..n : m \in 1..n
  OBVIOUS
<1>2. QED
  BY ONLY <1>1, \A k \in 1..n : log[k] = other[k] DEF Lives

LEMMA LivesAfter ==
  ASSUME NEW X, NEW log \in Seq(Events(X)), NEW e \in Events(X), NEW called, NEW c
  PROVE  /\ Append(log, e) \in Seq(Events(X))
         /\ Lives(Append(log, e), Len(Append(log, e)), called, c) <=>
              \/ Adds(e) /\ called[e.id] = c
              \/ Lives(log, Len(log), called, c) /\ ~(Removes(e) /\ called[e.id] = c)
<1>1. PICK longer, n : longer = Append(log, e) /\ n = Len(log)
  OBVIOUS
<1>2. /\ n \in Nat /\ longer \in Seq(Events(X)) /\ Len(longer) = n + 1 /\ longer[n + 1] = e
      /\ \A k \in 1..n : longer[k] = log[k]
  BY <1>1
<1>3. ~(Adds(e) /\ Removes(e))
  BY ONLY e \in Events(X), EventIs
<1>4. Lives(longer, n, called, c) <=> Lives(log, n, called, c)
  BY ONLY <1>2, LivesSame
<1>5. Lives(longer, n + 1, called, c) <=>
        \/ Adds(e) /\ called[e.id] = c
        \/ Lives(longer, n, called, c) /\ ~(Removes(e) /\ called[e.id] = c)
  BY ONLY <1>2, <1>3, LivesOn
<1>6. QED
  BY ONLY <1>1, <1>2, <1>4, <1>5

(* Several adds at once. *)
AddsOf(ids) == [n \in DOMAIN ids |-> [type |-> "add_component", id |-> ids[n]]]

LEMMA LivesAdded ==
  ASSUME NEW X, NEW log \in Seq(Events(X)), NEW ids \in Seq(X), NEW called, NEW c,
         NEW longer, longer = log \o AddsOf(ids)
  PROVE  /\ longer \in Seq(Events(X))
         /\ Lives(longer, Len(longer), called, c) <=>
              \/ Lives(log, Len(log), called, c)
              \/ c \in {called[i] : i \in Range(ids)}
<1>1. PICK adds, n, m : adds = AddsOf(ids) /\ longer = log \o adds /\ n = Len(log) /\ m = Len(ids)
  BY ONLY longer = log \o AddsOf(ids)
<1>2. n \in Nat /\ m \in Nat /\ DOMAIN ids = 1..m /\ \A k \in 1..m : ids[k] \in X
  BY ONLY <1>1, log \in Seq(Events(X)), ids \in Seq(X)
<1>3. adds = [k \in 1..m |-> [type |-> "add_component", id |-> ids[k]]]
  BY ONLY <1>1, <1>2 DEF AddsOf
<1>4. \A k \in 1..m : adds[k] \in Events(X) /\ Adds(adds[k]) /\ ~Removes(adds[k]) /\ adds[k].id = ids[k]
  <2>1. ASSUME NEW k \in 1..m PROVE adds[k] \in Events(X)
    <3>1. adds[k] \in [type : {"add_component", "remove_component"}, id : X]
      BY ONLY <1>2, <1>3, k \in 1..m
    <3>2. QED
      BY ONLY <3>1 DEF Events
  <2>2. QED
    BY ONLY <1>3, <2>1 DEF Adds, Removes
<1>5. adds \in Seq(Events(X)) /\ Len(adds) = m
  <2>1. adds = [k \in 1..m |-> adds[k]] /\ \A k \in 1..m : adds[k] \in Events(X)
    BY ONLY <1>3, <1>4
  <2>2. m \in Nat
    BY ONLY <1>2
  <2>3. QED
    BY ONLY <2>1, <2>2
<1>6. /\ longer \in Seq(Events(X)) /\ Len(longer) = n + m
      /\ \A k \in 1..n : longer[k] = log[k]
      /\ \A k \in 1..m : longer[n + k] = adds[k]
  <2>1. PICK E : E = Events(X)
    OBVIOUS
  <2>2. log \in Seq(E) /\ adds \in Seq(E) /\ longer = log \o adds
    BY ONLY <1>1, <1>5, <2>1, log \in Seq(Events(X))
  <2>10. Len(log) = n /\ Len(adds) = m
    BY ONLY <1>1, <1>5
  <2>3. longer \in Seq(E) /\ Len(longer) = n + m
    <3>1. longer \in Seq(E)
      BY ONLY <2>2
    <3>2. Len(longer) = Len(log) + Len(adds)
      BY ONLY <2>2
    <3>3. QED
      BY ONLY <2>10, <3>1, <3>2
  <2>4. \A k \in 1..(n + m) : longer[k] = IF k <= n THEN log[k] ELSE adds[k - n]
    <3>1. \A k \in 1..(Len(log) + Len(adds)) : longer[k] = IF k <= Len(log) THEN log[k] ELSE adds[k - Len(log)]
      BY ONLY <2>2
    <3>2. QED
      BY ONLY <2>10, <3>1
  <2>5. n \in Nat /\ m \in Nat
    BY ONLY <1>2
  <2>6. \A k \in 1..n : longer[k] = log[k]
    BY ONLY <2>4, <2>5
  <2>7. \A k \in 1..m : n + k \in 1..(n + m) /\ ~(n + k <= n) /\ (n + k) - n = k
    BY ONLY <2>5
  <2>8. \A k \in 1..m : longer[n + k] = adds[k]
    BY ONLY <2>4, <2>7
  <2>9. QED
    BY ONLY <2>1, <2>3, <2>6, <2>8
<1>7. \A k \in (n + 1)..(n + m) : k - n \in 1..m /\ longer[k] = adds[k - n]
  <2>1. \A k \in (n + 1)..(n + m) : k - n \in 1..m /\ n + (k - n) = k
    BY ONLY <1>2
  <2>2. QED
    BY ONLY <1>6, <2>1
<1>8. \A k \in (n + 1)..(n + m) : ~Removes(longer[k])
  BY ONLY <1>4, <1>7
<1> DEFINE gone(k) == Removes(longer[k]) /\ called[longer[k].id] = c
           come(k) == Adds(longer[k]) /\ called[longer[k].id] = c
<1>9. \A k : Lives(longer, k, called, c) <=> \E j \in 1..k : come(j) /\ \A l \in (j + 1)..k : ~gone(l)
  BY ONLY TRUE DEF Lives
<1>10. /\ \A k \in (n + 1)..(n + m) : ~gone(k)
       /\ \A k \in (n + 1)..(n + m) : come(k) => \E i \in Range(ids) : called[i] = c
       /\ \A k \in 1..m : called[ids[k]] = c => come(n + k)
  <2>1. \A k \in (n + 1)..(n + m) : come(k) => ids[k - n] \in Range(ids) /\ called[ids[k - n]] = c
    BY ONLY <1>2, <1>4, <1>7 DEF Range
  <2>2. QED
    BY ONLY <1>4, <1>6, <1>8, <2>1
<1> HIDE DEF gone, come
<1>11. Lives(longer, n + m, called, c) <=> Lives(longer, n, called, c) \/ \E i \in Range(ids) : called[i] = c
  <2>1. ASSUME Lives(longer, n + m, called, c)
        PROVE  Lives(longer, n, called, c) \/ \E i \in Range(ids) : called[i] = c
    <3>1. PICK j \in 1..(n + m) : come(j) /\ \A l \in (j + 1)..(n + m) : ~gone(l)
      BY ONLY <1>9, <2>1
    <3>2. CASE j \in 1..n
      <4>1. \A l \in (j + 1)..n : l \in (j + 1)..(n + m)
        BY ONLY <1>2, <3>2
      <4>2. QED
        BY ONLY <1>9, <3>1, <3>2, <4>1
    <3>3. CASE j \notin 1..n
      <4>1. j \in (n + 1)..(n + m)
        BY ONLY <1>2, <3>3, j \in 1..(n + m)
      <4>2. QED
        BY ONLY <1>10, <3>1, <4>1
    <3>4. QED
      BY ONLY <3>2, <3>3
  <2>2. ASSUME Lives(longer, n, called, c) PROVE Lives(longer, n + m, called, c)
    <3>1. PICK j \in 1..n : come(j) /\ \A l \in (j + 1)..n : ~gone(l)
      BY ONLY <1>9, <2>2
    <3>2. \A l \in (j + 1)..(n + m) : l \in (j + 1)..n \/ l \in (n + 1)..(n + m)
      BY ONLY <1>2, j \in 1..n
    <3>3. j \in 1..(n + m) /\ \A l \in (j + 1)..(n + m) : ~gone(l)
      BY ONLY <1>2, <1>10, <3>1, <3>2
    <3>4. QED
      BY ONLY <1>9, <3>1, <3>3
  <2>3. ASSUME NEW i \in Range(ids), called[i] = c PROVE Lives(longer, n + m, called, c)
    <3>1. PICK k \in 1..m : i = ids[k]
      BY ONLY <1>2, i \in Range(ids) DEF Range
    <3>2. come(n + k) /\ n + k \in 1..(n + m)
      BY ONLY <1>2, <1>10, <2>3, <3>1
    <3>3. \A l \in (n + k + 1)..(n + m) : l \in (n + 1)..(n + m)
      BY ONLY <1>2, k \in 1..m
    <3>4. \A l \in (n + k + 1)..(n + m) : ~gone(l)
      BY ONLY <1>10, <3>3
    <3>5. QED
      BY ONLY <1>9, <3>2, <3>4
  <2>4. QED
    BY ONLY <2>1, <2>2, <2>3
<1>12. Lives(longer, n, called, c) <=> Lives(log, n, called, c)
  BY ONLY <1>2, <1>6, LivesSame
<1>13. QED
  BY ONLY <1>1, <1>6, <1>11, <1>12

(* What the ids are does not change with the trip. *)
LEMMA TablesStay ==
  ASSUME IdsOK, TablesOK, UNCHANGED <<cis, now>>
  PROVE  IdsOK' /\ TablesOK' /\ Ids' = Ids
<1>1. /\ catalog' = catalog /\ redirect' = redirect /\ status' = status
      /\ next' = next /\ changes' = changes /\ now' = now
  BY DEF cis
<1>2. Ids' = Ids
  BY <1>1 DEF Ids
<1>3. IdsOK'
  BY <1>1, <1>2 DEF IdsOK, Sinks, Hop, NextHop
<1>4. TablesOK'
  BY <1>1, <1>2 DEF TablesOK, CatalogOK
<1>5. QED
  BY <1>2, <1>3, <1>4

(* A request that writes a log that says what the traveller wants then.       *)
LEMMA EditKeeps ==
  ASSUME Inv, NEW log \in Seq(Events(Ids)), NEW hops, Write(log, hops), NEW keeps \in SUBSET Ids, kept' = keeps,
         \A c : Lives(log, Len(log), now, c) => c \in {now[i] : i \in keeps},
         \A c \in {now[i] : i \in keeps} \ Blurred : Lives(log, Len(log), now, c)
  PROVE  Inv'
<1>1. events' = log /\ UNCHANGED <<cis, now, joined>>
  BY ONLY Write(log, hops) DEF Write
<1>2. IdsOK' /\ TablesOK' /\ Ids' = Ids
  BY ONLY Inv, <1>1, TablesStay DEF Inv
<1>3. LogOK'
  BY ONLY Inv, <1>1, <1>2, log \in Seq(Events(Ids)), keeps \in SUBSET Ids, kept' = keeps DEF Inv, LogOK, Events
<1>4. now' = now /\ Wanted' = {now[i] : i \in keeps} /\ Blurred' = Blurred
  BY ONLY <1>1, kept' = keeps DEF Wanted, Blurred
<1>5. \A c : Lives(events, Len(events), now, c)' <=> Lives(log, Len(log), now, c)
  BY ONLY <1>1, <1>4 DEF Lives, Adds, Removes
<1>6. Agreed'
  BY ONLY <1>4, <1>5, \A c : Lives(log, Len(log), now, c) => c \in {now[i] : i \in keeps},
          \A c \in {now[i] : i \in keeps} \ Blurred : Lives(log, Len(log), now, c) DEF Agreed
<1>7. QED
  BY ONLY <1>2, <1>3, <1>6 DEF Inv

(* A request that appends one event. *)
LEMMA EventKeeps ==
  ASSUME Inv, NEW e \in Events(Ids), NEW hops, Write(Append(events, e), hops),
         kept' = IF Adds(e) THEN kept \cup {e.id}
                 ELSE IF Removes(e) THEN {j \in kept : now[j] # now[e.id]} ELSE kept
  PROVE  Inv'
<1>1. PICK log, keeps : log = Append(events, e) /\ keeps = kept'
  OBVIOUS
<1>2. /\ events \in Seq(Events(Ids)) /\ kept \subseteq Ids
      /\ \A c : Lives(events, Len(events), now, c) => c \in Wanted
      /\ \A c \in Wanted \ Blurred : Lives(events, Len(events), now, c)
  BY ONLY Inv DEF Inv, LogOK, Agreed
<1>3. /\ log \in Seq(Events(Ids))
      /\ \A c : Lives(log, Len(log), now, c) <=>
           \/ Adds(e) /\ now[e.id] = c
           \/ Lives(events, Len(events), now, c) /\ ~(Removes(e) /\ now[e.id] = c)
  BY ONLY <1>1, <1>2, e \in Events(Ids), LivesAfter
<1>4. (Adds(e) => e.id \in Ids) /\ ~(Adds(e) /\ Removes(e))
  BY ONLY e \in Events(Ids), EventIs
<1>5. keeps = IF Adds(e) THEN kept \cup {e.id}
              ELSE IF Removes(e) THEN {j \in kept : now[j] # now[e.id]} ELSE kept
  BY ONLY <1>1, kept' = IF Adds(e) THEN kept \cup {e.id}
                        ELSE IF Removes(e) THEN {j \in kept : now[j] # now[e.id]} ELSE kept
<1>6. /\ keeps \in SUBSET Ids
      /\ \A c : c \in {now[i] : i \in keeps} <=>
                  \/ Adds(e) /\ now[e.id] = c
                  \/ c \in Wanted /\ ~(Removes(e) /\ now[e.id] = c)
  BY ONLY <1>2, <1>4, <1>5 DEF Wanted
<1>7. /\ \A c : Lives(log, Len(log), now, c) => c \in {now[i] : i \in keeps}
      /\ \A c \in {now[i] : i \in keeps} \ Blurred : Lives(log, Len(log), now, c)
  BY ONLY <1>2, <1>3, <1>6
<1>8. Write(log, hops) /\ kept' = keeps
  BY ONLY <1>1, Write(Append(events, e), hops)
<1>9. QED
  BY ONLY Inv, <1>3, <1>6, <1>7, <1>8, EditKeeps

LEMMA AddComponentKeeps ==
  ASSUME Inv, NEW i \in Ids, AddComponent(i)
  PROVE  Inv'
<1>1. PICK e : e = [type |-> "add_component", id |-> i]
  OBVIOUS
<1>2. e \in Events(Ids) /\ Adds(e) /\ e.id = i
  BY <1>1 DEF Events, Adds
<1>3. PICK hops : Write(Append(events, e), hops)
  BY ONLY AddComponent(i), <1>1 DEF AddComponent
<1>4. kept' = kept \cup {i}
  BY ONLY AddComponent(i) DEF AddComponent
<1>5. QED
  BY ONLY Inv, <1>2, <1>3, <1>4, EventKeeps

LEMMA RemoveComponentKeeps ==
  ASSUME Inv, NEW i \in Ids, RemoveComponent(i)
  PROVE  Inv'
<1>1. PICK e : e = [type |-> "remove_component", id |-> i]
  OBVIOUS
<1>2. e \in Events(Ids) /\ ~Adds(e) /\ Removes(e) /\ e.id = i
  BY <1>1 DEF Events, Adds, Removes
<1>3. PICK hops : Write(Append(events, e), hops)
  BY ONLY RemoveComponent(i), <1>1 DEF RemoveComponent
<1>4. kept' = {j \in kept : now[j] # now[i]}
  BY ONLY RemoveComponent(i) DEF RemoveComponent
<1>5. QED
  BY ONLY Inv, <1>2, <1>3, <1>4, EventKeeps

LEMMA ReorderKeeps ==
  ASSUME Inv, NEW order \in Seq(Ids), Reorder(order)
  PROVE  Inv'
<1>1. PICK e : e = [type |-> "reorder", order |-> order]
  OBVIOUS
<1>2. e \in Events(Ids) /\ ~Adds(e) /\ ~Removes(e)
  BY <1>1 DEF Events, Adds, Removes
<1>3. PICK hops : Write(Append(events, e), hops)
  BY ONLY Reorder(order), <1>1 DEF Reorder
<1>4. kept' = kept
  BY ONLY Reorder(order) DEF Reorder
<1>5. QED
  BY ONLY Inv, <1>2, <1>3, <1>4, EventKeeps

LEMMA AddDayKeeps ==
  ASSUME Inv, NEW after \in Ids \cup {None}, AddDay(after)
  PROVE  Inv'
<1>1. PICK hops, at : /\ at = IF after = None THEN None ELSE Current(after, hops)
                      /\ Write(Append(events, [type |-> "add_day", day |-> Len(events), after |-> at]), hops)
  BY ONLY AddDay(after) DEF AddDay
<1>2. PICK e, n : n = Len(events) /\ e = [type |-> "add_day", day |-> n, after |-> at]
  OBVIOUS
<1>3. n \in Nat
  BY ONLY Inv, <1>2 DEF Inv, LogOK
<1>4. at \in Ids \cup {None}
  <2>1. IdsOK
    BY ONLY Inv DEF Inv
  <2>2. QED
    BY ONLY <1>1, <2>1, after \in Ids \cup {None}, CurrentStays
<1>5. e \in Events(Ids) /\ ~Adds(e) /\ ~Removes(e)
  BY ONLY <1>2, <1>3, <1>4 DEF Events, Adds, Removes
<1>6. Write(Append(events, e), hops)
  BY ONLY <1>1, <1>2
<1>7. kept' = kept
  BY ONLY AddDay(after) DEF AddDay
<1>8. QED
  BY ONLY Inv, <1>5, <1>6, <1>7, EventKeeps

LEMMA RemoveDayKeeps ==
  ASSUME Inv, RemoveDay
  PROVE  Inv'
<1>1. PICK hops, d : /\ d \in Range(CustomDays(events, hops))
                     /\ Write(Append(events, [type |-> "remove_day", day |-> d.day]), hops)
  BY ONLY RemoveDay DEF RemoveDay
<1>2. IdsOK /\ events \in Seq(Events(Ids))
  BY ONLY Inv DEF Inv, LogOK
<1>3. PICK e : e = [type |-> "remove_day", day |-> d.day]
  OBVIOUS
<1>4. d.day \in Nat
  BY ONLY <1>1, <1>2, CustomDayIs
<1>5. e \in Events(Ids) /\ ~Adds(e) /\ ~Removes(e)
  BY ONLY <1>3, <1>4 DEF Events, Adds, Removes
<1>6. Write(Append(events, e), hops)
  BY ONLY <1>1, <1>3
<1>7. kept' = kept
  BY ONLY RemoveDay DEF RemoveDay
<1>8. QED
  BY ONLY Inv, <1>5, <1>6, <1>7, EventKeeps

(* A proposed route is a list of components.                                 *)
LEMMA RouteIs ==
  ASSUME IdsOK, TablesOK, NEW t
  PROVE  RouteOf(t) \in Seq(Ids)
<1> DEFINE key(a) == [id |-> a, idx |-> FirstCatalog[a].idx]
           upto(a, b) == TourOrder(key(a), key(b))
<1>1. PICK T : T = {i \in DOMAIN FirstCatalog : FirstCatalog[i].tour = t}
  OBVIOUS
<1>2. PICK R : R = {p \in T \X T : upto(p[1], p[2])}
  OBVIOUS
<1>3. PICK list : list = RouteOf(t)
  OBVIOUS
<1>4. list = [n \in 1..Cardinality(T) |-> CHOOSE x \in T : Cardinality({y \in T : upto(y, x)}) = n]
  BY ONLY <1>1, <1>3 DEF RouteOf, Listing
<1>5. IsFiniteSet(T) /\ T \subseteq Ids /\ T \subseteq Nat /\ \A a \in T : FirstCatalog[a].idx \in Nat \cup {None}
  <2>1. DOMAIN FirstCatalog \subseteq 0..(FirstNext - 1) /\ FirstNext \in Nat
    BY ONLY CatalogAssumption
  <2>2. \A a \in DOMAIN FirstCatalog : FirstCatalog[a].idx \in Nat \cup {None}
    BY ONLY CatalogAssumption
  <2>3. T \subseteq DOMAIN FirstCatalog /\ T \subseteq Ids
    BY ONLY <1>1, TablesOK DEF TablesOK
  <2>4. IsFiniteSet(0..(FirstNext - 1)) /\ T \subseteq 0..(FirstNext - 1) /\ T \subseteq Nat
    <3>1. IsFiniteSet(0..(FirstNext - 1))
      <4>1. 0 \in Int /\ FirstNext - 1 \in Int
        BY ONLY <2>1
      <4>2. QED
        BY ONLY <4>1, FS_Interval
    <3>2. QED
      BY ONLY <2>1, <2>3, <3>1
  <2>5. IsFiniteSet(T)
    BY ONLY <2>4, FS_Subset
  <2>6. QED
    BY ONLY <2>2, <2>3, <2>4, <2>5
<1>6. \A a, b \in T : <<a, b>> \in R <=> upto(a, b)
  <2> HIDE DEF upto
  <2>1. QED
    BY ONLY <1>2
<1>7. Orders(R, T)
  <2>1. \A a, b \in T : upto(a, b) \/ upto(b, a)
    BY ONLY <1>5, NoneIsNoNumber DEF TourOrder
  <2>2. \A a, b, c \in T : upto(a, b) /\ upto(b, c) => upto(a, c)
    BY ONLY <1>5, NoneIsNoNumber DEF TourOrder
  <2>3. ASSUME NEW a \in T, NEW b \in T, upto(a, b), upto(b, a) PROVE a = b
    <3>1. PICK v, w : v = FirstCatalog[a].idx /\ w = FirstCatalog[b].idx
      OBVIOUS
    <3>2. a \in Nat /\ b \in Nat /\ v \in Nat \cup {None} /\ w \in Nat \cup {None} /\ None \notin Nat
      BY ONLY <1>5, <3>1, NoneIsNoNumber
    <3>3. /\ IF (v = None) # (w = None) THEN w = None ELSE IF v = w THEN a <= b ELSE v < w
          /\ IF (w = None) # (v = None) THEN v = None ELSE IF w = v THEN b <= a ELSE w < v
      BY ONLY <2>3, <3>1 DEF TourOrder
    <3>4. QED
      BY ONLY <3>2, <3>3
  <2> HIDE DEF upto
  <2>4. QED
    BY ONLY <1>6, <2>1, <2>2, <2>3 DEF Orders, Preorders
<1> HIDE DEF upto
<1>8. ASSUME NEW n \in 1..Cardinality(T) PROVE list[n] \in T
  <2>1. PICK x \in T : Place(R, T, x) = n
    <3>1. IsFiniteSet(T)
      BY ONLY <1>5
    <3>2. \A m \in 1..Cardinality(T) : \E x \in T : Place(R, T, x) = m
      BY ONLY <3>1, <1>7, Ranked
    <3>3. QED
      BY ONLY n \in 1..Cardinality(T), <3>2
  <2>2. Down(R, T, x) = {y \in T : upto(y, x)}
    BY ONLY <1>6 DEF Down
  <2>3. list[n] = CHOOSE z \in T : Cardinality({y \in T : upto(y, z)}) = n
    BY ONLY n \in 1..Cardinality(T), <1>4
  <2>4. Cardinality({y \in T : upto(y, x)}) = n
    BY ONLY <2>1, <2>2 DEF Place
  <2>5. QED
    BY ONLY <2>3, <2>4
<1>9. PICK N : N = Cardinality(T)
  OBVIOUS
<1>10. N \in Nat /\ list = [n \in 1..N |-> list[n]] /\ \A n \in 1..N : list[n] \in T
  <2>1. Cardinality(T) \in Nat
    BY ONLY <1>5, FS_CardinalityType
  <2> DEFINE pick(n) == CHOOSE x \in T : Cardinality({y \in T : upto(y, x)}) = n
  <2>2. list = [n \in 1..N |-> pick(n)]
    BY ONLY <1>4, <1>9
  <2> HIDE DEF pick
  <2>3. list = [n \in 1..N |-> list[n]]
    BY ONLY <2>2
  <2>4. QED
    BY ONLY <1>8, <1>9, <2>1, <2>3
<1>11. list \in Seq(T)
  BY ONLY <1>10
<1>12. QED
  BY ONLY <1>3, <1>5, <1>11, SeqWidens

(* The route is pinned, and its order is put before what there was besides.   *)
LEMMA ApplyRouteKeeps ==
  ASSUME Inv, NEW route \in Seq(Ids), ApplyRoute(route)
  PROVE  Inv'
<1>1. PICK hops, ids, served, new :
        /\ ids = Resolve(IdRows, redirect, hops, route)
        /\ served = Range(Served(events, hops))
        /\ new = Only(ids, Range(ids) \ served)
        /\ \E others \in SetToSeqs(served \ Range(ids)) :
             /\ Write(events \o [n \in DOMAIN new |-> [type |-> "add_component", id |-> new[n]]]
                             \o <<[type |-> "reorder", order |-> ids \o others]>>, hops)
             /\ kept' = kept \cup Range(new)
  BY ONLY ApplyRoute(route) DEF ApplyRoute
<1>2. PICK others \in SetToSeqs(served \ Range(ids)) :
        /\ Write(events \o [n \in DOMAIN new |-> [type |-> "add_component", id |-> new[n]]]
                        \o <<[type |-> "reorder", order |-> ids \o others]>>, hops)
        /\ kept' = kept \cup Range(new)
  BY ONLY <1>1
<1>3. /\ IdsOK /\ events \in Seq(Events(Ids)) /\ kept \subseteq Ids
      /\ \A c : Lives(events, Len(events), now, c) => c \in Wanted
      /\ \A c \in Wanted \ Blurred : Lives(events, Len(events), now, c)
  BY ONLY Inv DEF Inv, LogOK, Agreed
<1>4. ids \in Seq(Ids) /\ new \in Seq(Ids)
  <2>1. ids \in Seq(Ids)
    BY ONLY <1>1, <1>3, route \in Seq(Ids), ResolveIs
  <2>2. QED
    BY ONLY <1>1, <2>1, OnlyKeeps
<1>5. served \subseteq Ids /\ IsFiniteSet(served)
  <2>1. PICK P, S : P = Present(events, hops) /\ S = Served(events, hops)
    OBVIOUS
  <2>2. P \in Seq(Ids)
    BY ONLY <1>3, <2>1, PresentHas
  <2>3. S = Only(P, ServedIds)
    BY ONLY <2>1 DEF Served
  <2>4. S \in Seq(Ids)
    BY ONLY <2>2, <2>3, OnlyKeeps
  <2>5. served = Range(S)
    BY ONLY <1>1, <2>1
  <2>6. served \subseteq Ids
    BY ONLY <2>4, <2>5 DEF Range
  <2>7. IsFiniteSet(Ids)
    <3>1. 0 \in Int /\ next - 1 \in Int
      BY ONLY <1>3 DEF IdsOK
    <3>2. QED
      BY ONLY <3>1, FS_Interval DEF Ids
  <2>8. QED
    BY ONLY <2>6, <2>7, FS_Subset
<1>6. others \in Seq(Ids)
  <2>1. PICK rest, M : rest = served \ Range(ids) /\ M = Cardinality(rest)
    OBVIOUS
  <2>2. rest \subseteq Ids /\ M \in Nat
    BY ONLY <1>5, <2>1, FS_Subset, FS_CardinalityType
  <2>3. others \in [1..M -> rest]
    BY ONLY others \in SetToSeqs(served \ Range(ids)), <2>1 DEF SetToSeqs
  <2>4. others \in Seq(rest)
    BY ONLY <2>2, <2>3
  <2>5. QED
    BY ONLY <2>2, <2>4, SeqWidens
<1>7. PICK e, order : e = [type |-> "reorder", order |-> order] /\ order = ids \o others
  OBVIOUS
<1>8. e \in Events(Ids) /\ ~Adds(e) /\ ~Removes(e)
  <2>1. order \in Seq(Ids)
    BY ONLY <1>4, <1>6, <1>7, ConcatIs
  <2>2. QED
    BY ONLY <1>7, <2>1 DEF Events, Adds, Removes
<1>9. PICK added, log : added = events \o AddsOf(new) /\ log = Append(added, e)
  OBVIOUS
<1>10. /\ added \in Seq(Events(Ids))
       /\ \A c : Lives(added, Len(added), now, c) <=>
                   \/ Lives(events, Len(events), now, c)
                   \/ \E i \in Range(new) : now[i] = c
  <2>1. events \in Seq(Events(Ids)) /\ new \in Seq(Ids) /\ added = events \o AddsOf(new)
    BY ONLY <1>3, <1>4, <1>9
  <2>2. added \in Seq(Events(Ids))
    BY ONLY <2>1, LivesAdded
  <2>3. ASSUME NEW c
        PROVE  Lives(added, Len(added), now, c) <=> Lives(events, Len(events), now, c) \/ c \in {now[i] : i \in Range(new)}
    BY ONLY <2>1, LivesAdded
  <2>4. QED
    BY ONLY <2>2, <2>3
<1>11. /\ log \in Seq(Events(Ids))
       /\ \A c : Lives(log, Len(log), now, c) <=> Lives(added, Len(added), now, c)
  BY ONLY <1>8, <1>9, <1>10, LivesAfter
<1>12. Write(log, hops)
  <2>1. added \o <<e>> = Append(added, e)
    <3>1. PICK E : E = Events(Ids)
      OBVIOUS
    <3>2. added \in Seq(E) /\ e \in E
      BY ONLY <1>8, <1>10, <3>1
    <3>3. QED
      BY ONLY <3>2
  <2>2. [n \in DOMAIN new |-> [type |-> "add_component", id |-> new[n]]] = AddsOf(new)
    BY DEF AddsOf
  <2>3. QED
    BY ONLY <1>2, <1>7, <1>9, <2>1, <2>2
<1>13. PICK keeps : keeps = kept \cup Range(new)
  OBVIOUS
<1>14. Range(new) \subseteq Ids
  BY ONLY <1>4 DEF Range
<1>15. /\ keeps \in SUBSET Ids
       /\ \A c : c \in {now[i] : i \in keeps} <=> c \in Wanted \/ \E i \in Range(new) : now[i] = c
  BY ONLY <1>3, <1>13, <1>14 DEF Wanted
<1>16. /\ \A c : Lives(log, Len(log), now, c) => c \in {now[i] : i \in keeps}
       /\ \A c \in {now[i] : i \in keeps} \ Blurred : Lives(log, Len(log), now, c)
  BY ONLY <1>3, <1>10, <1>11, <1>15
<1>17. kept' = keeps
  BY ONLY <1>2, <1>13
<1>18. QED
  BY ONLY Inv, <1>11, <1>12, <1>15, <1>16, <1>17, EditKeeps

-----------------------------------------------------------------------------
(* The catalog's side: an id goes to another. *)

(* Where the ids of X go, one hop and in the end; C is where they end, and no  *)
(* chain is longer than M.                                                     *)
Routes(X, C, called, hop, M) ==
  /\ C \subseteq X /\ called \in [X -> X] /\ hop \in [X -> X]
  /\ \A j \in X : /\ called[hop[j]] = called[j] /\ called[called[j]] = called[j]
                  /\ called[j] = j => hop[j] = j
  /\ \A j \in C : called[j] = j
  /\ \E rank \in [X -> 0..M] : \A j \in X : called[j] # j => rank[hop[j]] < rank[j]

(* One of C goes to another of it, or to a new id. *)
Recalled(X, called, i, to) == [j \in X \cup {to} |-> IF j \in X /\ called[j] # i THEN called[j] ELSE to]

Rehopped(X, hop, i, to) == [j \in X \cup {to} |-> IF j = i THEN to ELSE IF j \in X THEN hop[j] ELSE j]

LEMMA Rerouted ==
  ASSUME NEW X, NEW C, NEW called, NEW hop, NEW M \in Nat, Routes(X, C, called, hop, M),
         NEW i \in C, NEW to, to \in C \ {i} \/ to \notin X
  PROVE  Routes(X \cup {to}, (C \ {i}) \cup {to}, Recalled(X, called, i, to), Rehopped(X, hop, i, to), M + 1)
<1>1. PICK Y, c2, h2 : Y = X \cup {to} /\ c2 = Recalled(X, called, i, to) /\ h2 = Rehopped(X, hop, i, to)
  OBVIOUS
<1>2. /\ C \subseteq X /\ called \in [X -> X] /\ hop \in [X -> X]
      /\ \A j \in X : /\ called[hop[j]] = called[j] /\ called[called[j]] = called[j]
                      /\ called[j] = j => hop[j] = j
      /\ \A j \in C : called[j] = j
  BY ONLY Routes(X, C, called, hop, M) DEF Routes
<1>3. PICK rank \in [X -> 0..M] : \A j \in X : called[j] # j => rank[hop[j]] < rank[j]
  BY ONLY Routes(X, C, called, hop, M) DEF Routes
<1>4. /\ i \in X /\ called[i] = i /\ to # i
      /\ to \in X => called[to] = to /\ hop[to] = to
  BY ONLY <1>2, i \in C, to \in C \ {i} \/ to \notin X
<1>5. /\ c2 = [j \in Y |-> IF j \in X /\ called[j] # i THEN called[j] ELSE to]
      /\ h2 = [j \in Y |-> IF j = i THEN to ELSE IF j \in X THEN hop[j] ELSE j]
  BY ONLY <1>1 DEF Recalled, Rehopped
<1>6. /\ \A j \in Y : j \in X \/ j = to
      /\ X \subseteq Y /\ to \in Y
      /\ \A j \in Y : c2[j] = IF j \in X /\ called[j] # i THEN called[j] ELSE to
      /\ \A j \in Y : h2[j] = IF j = i THEN to ELSE IF j \in X THEN hop[j] ELSE j
  BY ONLY <1>1, <1>5
<1>7. c2 \in [Y -> Y] /\ h2 \in [Y -> Y] /\ c2[to] = to /\ h2[to] = to
  <2>1. \A j \in Y : c2[j] \in Y /\ h2[j] \in Y
    BY ONLY <1>2, <1>6
  <2>2. c2[to] = to /\ h2[to] = to
    BY ONLY <1>4, <1>6
  <2>3. DOMAIN c2 = Y /\ DOMAIN h2 = Y /\ c2 = [j \in Y |-> c2[j]] /\ h2 = [j \in Y |-> h2[j]]
    BY ONLY <1>5
  <2>4. QED
    BY ONLY <2>1, <2>2, <2>3
<1>8. ASSUME NEW j \in Y
      PROVE  /\ c2[h2[j]] = c2[j] /\ c2[c2[j]] = c2[j]
             /\ c2[j] = j => h2[j] = j
  <2>1. CASE j = to
    BY ONLY <1>7, <2>1
  <2>2. CASE j # to /\ j \in X
    <3>1. c2[h2[j]] = c2[j]
      BY ONLY <1>2, <1>4, <1>6, <1>7, <2>2
    <3>2. c2[c2[j]] = c2[j]
      BY ONLY <1>2, <1>4, <1>6, <1>7, <2>2
    <3>3. c2[j] = j => h2[j] = j
      BY ONLY <1>2, <1>4, <1>6, <1>7, <2>2
    <3>4. QED
      BY ONLY <3>1, <3>2, <3>3
  <2>3. QED
    BY ONLY j \in Y, <1>6, <2>1, <2>2
<1>9. ASSUME NEW j \in (C \ {i}) \cup {to} PROVE j \in Y /\ c2[j] = j
  BY ONLY j \in (C \ {i}) \cup {to}, <1>2, <1>6, <1>7
<1>10. \E r2 \in [Y -> 0..(M + 1)] : \A j \in Y : c2[j] # j => r2[h2[j]] < r2[j]
  <2>1. PICK r2 : r2 = [j \in Y |-> IF c2[j] = j THEN 0 ELSE IF called[j] = i THEN rank[j] + 1 ELSE rank[j]]
    OBVIOUS
  <2>2. \A j \in Y : r2[j] = IF c2[j] = j THEN 0 ELSE IF called[j] = i THEN rank[j] + 1 ELSE rank[j]
    BY ONLY <2>1
  <2>3. \A j \in X : rank[j] \in 0..M
    BY ONLY <1>3
  <2>4. r2 \in [Y -> 0..(M + 1)]
    <3>1. ASSUME NEW j \in Y PROVE r2[j] \in 0..(M + 1)
      <4>1. CASE j \in X
        <5>1. rank[j] \in 0..M
          BY ONLY <2>3, <4>1
        <5>2. r2[j] \in {0, rank[j] + 1, rank[j]}
          BY ONLY <2>2, j \in Y
        <5>3. QED
          BY ONLY M \in Nat, <5>1, <5>2
      <4>2. CASE j \notin X
        <5>1. r2[j] = 0
          BY ONLY <1>6, <1>7, <2>2, <4>2, j \in Y
        <5>2. QED
          BY ONLY M \in Nat, <5>1
      <4>3. QED
        BY ONLY <4>1, <4>2
    <3>2. r2 = [j \in Y |-> r2[j]]
      BY ONLY <2>1
    <3>3. QED
      BY ONLY <3>1, <3>2
  <2>5. ASSUME NEW j \in Y, c2[j] # j PROVE r2[h2[j]] < r2[j]
    <3>1. j \in X /\ j # to
      BY ONLY <1>6, <1>7, <2>5, j \in Y
    <3>2. rank[j] \in 0..M /\ r2[j] = IF called[j] = i THEN rank[j] + 1 ELSE rank[j]
      BY ONLY <2>2, <2>3, <2>5, <3>1, j \in Y
    <3>3. CASE j = i
      <4>1. h2[j] = to /\ r2[to] = 0
        BY ONLY <1>6, <1>7, <2>2, <3>3, j \in Y
      <4>2. r2[j] = rank[j] + 1
        BY ONLY <1>4, <3>2, <3>3
      <4>3. QED
        BY ONLY <3>2, <4>1, <4>2
    <3>4. CASE j # i
      <4>1. PICK h : h = hop[j]
        OBVIOUS
      <4>2. h2[j] = h /\ h \in X /\ h \in Y /\ called[h] = called[j]
        BY ONLY <1>2, <1>6, <3>1, <3>4, <4>1
      <4>3. rank[h] < rank[j]
        <5>1. called[j] # j
          BY ONLY <1>6, <2>5, <3>1, <3>4, j \in Y
        <5>2. QED
          BY ONLY <1>3, <3>1, <4>1, <5>1
      <4>4. rank[h] \in 0..M
        BY ONLY <2>3, <4>2
      <4>5. r2[h] = 0 \/ r2[h] = IF called[j] = i THEN rank[h] + 1 ELSE rank[h]
        BY ONLY <2>2, <4>2
      <4>6. QED
        BY ONLY M \in Nat, <3>2, <4>2, <4>3, <4>4, <4>5
    <3>5. QED
      BY ONLY <3>3, <3>4
  <2>6. QED
    BY ONLY <2>4, <2>5
<1>11. Routes(Y, (C \ {i}) \cup {to}, c2, h2, M + 1)
  BY ONLY <1>7, <1>8, <1>9, <1>10 DEF Routes
<1>12. QED
  BY ONLY <1>1, <1>11

(* The hops of the tables, and what they say of the ids. *)
HopsOf(X, redirects) == [j \in X |-> Hop(redirects, j)]

RoutesOK ==
  /\ next \in Nat /\ changes \in 0..MaxChanges
  /\ DOMAIN redirect \subseteq Ids
  /\ Routes(Ids, DOMAIN catalog, now, HopsOf(Ids, redirect), changes + 1)

LEMMA RoutesAre == IdsOK <=> RoutesOK
<1>1. PICK X : X = Ids
  OBVIOUS
<1>2. PICK h : h = HopsOf(X, redirect)
  OBVIOUS
<1>3. h = [j \in X |-> Hop(redirect, j)] /\ \A j \in X : h[j] = Hop(redirect, j)
  BY ONLY <1>2 DEF HopsOf
<1>4. h \in [X -> X] <=> \A j \in X : Hop(redirect, j) \in X
  BY ONLY <1>3
<1>5. (\E rank \in [Ids -> 0..(changes + 1)] : Sinks(rank)) <=>
        \E rank \in [X -> 0..(changes + 1)] : \A j \in X : now[j] # j => rank[h[j]] < rank[j]
  BY ONLY <1>1, <1>3 DEF Sinks
<1>6. QED
  BY ONLY <1>1, <1>2, <1>3, <1>4, <1>5 DEF IdsOK, RoutesOK, Routes

LEMMA GoesKeepsIds ==
  ASSUME IdsOK, TablesOK, NEW i \in DOMAIN catalog, NEW to, Goes(i, to),
         \/ to \in DOMAIN catalog \ {i} /\ next' = next
         \/ to = next /\ next' = next + 1,
         DOMAIN catalog' = (DOMAIN catalog \ {i}) \cup {to}
  PROVE  /\ IdsOK' /\ Ids' = Ids \cup {to}
         /\ now' = Recalled(Ids, now, i, to)
         /\ DOMAIN redirect' = DOMAIN redirect \cup {i} /\ to \notin DOMAIN redirect'
<1>1. /\ changes < MaxChanges /\ changes' = changes + 1
      /\ redirect' = Over([j \in {i} |-> to], redirect)
      /\ now' = [j \in 0..(next' - 1) |-> IF j \in Ids /\ now[j] # i THEN now[j] ELSE to]
  BY ONLY Goes(i, to) DEF Goes, Change
<1>2. PICK X, C, h : X = Ids /\ C = DOMAIN catalog /\ h = HopsOf(X, redirect)
  OBVIOUS
<1>3. /\ next \in Nat /\ changes \in 0..MaxChanges
      /\ DOMAIN redirect \subseteq X
      /\ Routes(X, C, now, h, changes + 1)
  BY ONLY IdsOK, <1>2, RoutesAre DEF RoutesOK
<1>4. X = 0..(next - 1) /\ C \subseteq X
  BY ONLY <1>2, <1>3 DEF Ids, Routes
<1>5. /\ i \in C /\ i \in X /\ i \notin DOMAIN redirect /\ i \notin DOMAIN IdRows
      /\ to \notin DOMAIN redirect /\ to \notin DOMAIN IdRows /\ to # i
      /\ to \in C \ {i} \/ to \notin X
  <2>1. /\ \A j \in C : j \notin DOMAIN redirect /\ j \notin DOMAIN IdRows
        /\ DOMAIN IdRows \subseteq X
    BY ONLY TablesOK, <1>2 DEF TablesOK
  <2>2. i \in C /\ (to \in C \ {i} \/ to = next)
    BY ONLY i \in DOMAIN catalog, <1>2, \/ to \in DOMAIN catalog \ {i} /\ next' = next
                                        \/ to = next /\ next' = next + 1
  <2>3. next \notin X
    BY ONLY <1>3, <1>4
  <2>4. QED
    BY ONLY <1>3, <1>4, <2>1, <2>2, <2>3
<1>6. PICK Y : Y = X \cup {to}
  OBVIOUS
<1>7. Ids' = Y /\ next' \in Nat /\ 0..(next' - 1) = Y
  <2>1. CASE to \in DOMAIN catalog \ {i} /\ next' = next
    BY ONLY <1>2, <1>3, <1>4, <1>6, <2>1 DEF Ids
  <2>2. CASE to = next /\ next' = next + 1
    BY ONLY <1>3, <1>4, <1>6, <2>2 DEF Ids
  <2>3. QED
    BY ONLY <2>1, <2>2, \/ to \in DOMAIN catalog \ {i} /\ next' = next
                        \/ to = next /\ next' = next + 1
<1>8. now' = Recalled(X, now, i, to)
  BY ONLY <1>1, <1>2, <1>6, <1>7 DEF Recalled
<1>9. DOMAIN redirect' = DOMAIN redirect \cup {i}
      /\ \A j \in DOMAIN redirect' : redirect'[j] = IF j = i THEN to ELSE redirect[j]
  <2>1. PICK g : g = [j \in {i} |-> to]
    OBVIOUS
  <2>2. DOMAIN g = {i} /\ g[i] = to
    BY ONLY <2>1
  <2>3. redirect' = [j \in DOMAIN g \cup DOMAIN redirect |-> IF j \in DOMAIN g THEN g[j] ELSE redirect[j]]
    BY ONLY <1>1, <2>1 DEF Over
  <2>4. QED
    BY ONLY <2>2, <2>3
<1>10. \A j : NextHop(IdRows, redirect', j) = IF j = i THEN to ELSE NextHop(IdRows, redirect, j)
  BY ONLY <1>5, <1>9 DEF NextHop
<1>11. HopsOf(Ids, redirect)' = Rehopped(X, h, i, to)
  <2>1. h = [j \in X |-> NextHop(IdRows, redirect, j)]
    BY ONLY <1>2 DEF HopsOf, Hop
  <2>2. HopsOf(Ids, redirect)' = [j \in Y |-> NextHop(IdRows, redirect', j)]
    BY ONLY <1>7 DEF HopsOf, Hop
  <2>3. Rehopped(X, h, i, to) = [j \in Y |-> IF j = i THEN to ELSE IF j \in X THEN h[j] ELSE j]
    BY ONLY <1>6 DEF Rehopped
  <2>4. NextHop(IdRows, redirect, to) = to
    BY ONLY <1>5 DEF NextHop
  <2>5. ASSUME NEW j \in Y
        PROVE  NextHop(IdRows, redirect', j) = IF j = i THEN to ELSE IF j \in X THEN h[j] ELSE j
    BY ONLY j \in Y, <1>6, <1>10, <2>1, <2>4
  <2>6. QED
    BY ONLY <2>2, <2>3, <2>5
<1>12. Routes(Y, (C \ {i}) \cup {to}, Recalled(X, now, i, to), Rehopped(X, h, i, to), (changes + 1) + 1)
  <2>1. changes + 1 \in Nat
    BY ONLY <1>3, HopsSuffice
  <2>2. QED
    BY ONLY <1>3, <1>5, <1>6, <2>1, Rerouted
<1>13. Routes(Ids, DOMAIN catalog, now, HopsOf(Ids, redirect), changes + 1)'
  <2>1. DOMAIN catalog' = (C \ {i}) \cup {to}
    BY ONLY <1>2, DOMAIN catalog' = (DOMAIN catalog \ {i}) \cup {to}
  <2>2. Routes(Ids', DOMAIN catalog', now', HopsOf(Ids, redirect)', changes' + 1)
    BY ONLY <1>1, <1>7, <1>8, <1>11, <1>12, <2>1
  <2>3. QED
    BY ONLY <2>2 DEF Routes
<1>14. next' \in Nat /\ changes' \in 0..MaxChanges /\ DOMAIN redirect' \subseteq Ids'
  <2>1. changes' \in 0..MaxChanges
    BY ONLY <1>1, <1>3, HopsSuffice
  <2>2. QED
    BY ONLY <1>3, <1>5, <1>6, <1>7, <1>9, <2>1
<1>15. IdsOK'
  <2>1. IdsOK' <=> RoutesOK'
    BY ONLY RoutesAre, PTL
  <2>2. QED
    BY ONLY <1>13, <1>14, <2>1 DEF RoutesOK
<1>16. QED
  BY ONLY <1>2, <1>5, <1>6, <1>7, <1>8, <1>9, <1>15

LEMMA EventsWiden ==
  ASSUME NEW X, NEW Y, X \subseteq Y
  PROVE  Events(X) \subseteq Events(Y)
<1>1. Seq(X) \subseteq Seq(Y)
  BY ONLY X \subseteq Y, SeqWidens
<1>2. QED
  BY ONLY X \subseteq Y, <1>1 DEF Events

(* What an id goes to takes over what the log says of it. *)
LEMMA LivesMoved ==
  ASSUME NEW X, NEW log \in Seq(Events(X)), NEW called \in [X -> X], NEW i, NEW to, i # to,
         NEW moved, moved = Recalled(X, called, i, to), NEW n, n = Len(log)
  PROVE  /\ \A c : c # i /\ c # to => (Lives(log, n, moved, c) <=> Lives(log, n, called, c))
         /\ ~Lives(log, n, moved, i)
         /\ Lives(log, n, moved, to) => Lives(log, n, called, i) \/ Lives(log, n, called, to)
         /\ to \notin X => (Lives(log, n, called, i) => Lives(log, n, moved, to))
<1> DEFINE come(k) == Adds(log[k])
           gone(k) == Removes(log[k])
           id(k) == log[k].id
<1>1. n \in Nat /\ \A k \in 1..n : log[k] \in Events(X)
  BY ONLY n = Len(log), log \in Seq(Events(X))
<1>2. \A k \in 1..n : come(k) \/ gone(k) => id(k) \in X
  BY ONLY <1>1, EventIs
<1>3. \A j \in X : moved[j] = IF called[j] # i THEN called[j] ELSE to
  BY ONLY moved = Recalled(X, called, i, to) DEF Recalled
<1>4. \A any, c : Lives(log, n, any, c) <=>
        \E k \in 1..n : /\ come(k) /\ any[id(k)] = c
                        /\ \A m \in (k + 1)..n : ~(gone(m) /\ any[id(m)] = c)
  BY ONLY TRUE DEF Lives
<1>5. \A k \in 1..n : k \in Nat /\ \A m \in (k + 1)..n : m \in 1..n
  BY ONLY <1>1
<1> HIDE DEF come, gone, id
<1>6. ASSUME NEW c, c # i, c # to PROVE Lives(log, n, moved, c) <=> Lives(log, n, called, c)
  <2>1. \A j \in X : moved[j] = c <=> called[j] = c
    BY ONLY <1>3, <1>6
  <2>2. \A k \in 1..n : come(k) \/ gone(k) => (moved[id(k)] = c <=> called[id(k)] = c)
    BY ONLY <1>2, <2>1
  <2>3. QED
    BY ONLY <1>4, <1>5, <2>2
<1>7. ~Lives(log, n, moved, i)
  <2>1. \A k \in 1..n : come(k) => moved[id(k)] # i
    BY ONLY <1>2, <1>3, i # to
  <2>2. QED
    BY ONLY <1>4, <2>1
<1>8. ASSUME Lives(log, n, moved, to) PROVE Lives(log, n, called, i) \/ Lives(log, n, called, to)
  <2>1. PICK k \in 1..n : /\ come(k) /\ moved[id(k)] = to
                          /\ \A m \in (k + 1)..n : ~(gone(m) /\ moved[id(m)] = to)
    BY ONLY <1>4, <1>8
  <2>2. called[id(k)] = i \/ called[id(k)] = to
    BY ONLY <1>2, <1>3, <2>1
  <2>3. \A m \in (k + 1)..n : gone(m) => called[id(m)] # i /\ called[id(m)] # to
    <3>1. \A m \in (k + 1)..n : gone(m) => id(m) \in X /\ moved[id(m)] # to
      BY ONLY <1>2, <1>5, <2>1
    <3>2. QED
      BY ONLY <1>3, <3>1
  <2>4. QED
    BY ONLY <1>4, <2>1, <2>2, <2>3
<1>9. ASSUME to \notin X, Lives(log, n, called, i) PROVE Lives(log, n, moved, to)
  <2>1. PICK k \in 1..n : /\ come(k) /\ called[id(k)] = i
                          /\ \A m \in (k + 1)..n : ~(gone(m) /\ called[id(m)] = i)
    BY ONLY <1>4, <1>9
  <2>2. moved[id(k)] = to
    BY ONLY <1>2, <1>3, <2>1
  <2>3. \A m \in (k + 1)..n : gone(m) => moved[id(m)] # to
    <3>1. \A m \in (k + 1)..n : gone(m) => id(m) \in X /\ called[id(m)] # i
      BY ONLY <1>2, <1>5, <2>1
    <3>2. \A j \in X : called[j] # to
      BY ONLY <1>9, called \in [X -> X]
    <3>3. QED
      BY ONLY <1>3, <3>1, <3>2
  <2>4. QED
    BY ONLY <1>4, <2>1, <2>2, <2>3
<1>10. QED
  BY ONLY <1>6, <1>7, <1>8, <1>9

(* What is said of the trip stays right; where ids meet, only of the others.  *)
LEMMA GoesAgrees ==
  ASSUME Inv, NEW i \in Ids, now[i] = i, NEW to, to # i,
         now' = Recalled(Ids, now, i, to), UNCHANGED <<events, kept>>,
         \/ to \notin Ids /\ joined' = joined
         \/ to \in Ids /\ joined' = joined \cup {to} /\ now[to] = to
  PROVE  Agreed'
<1>1. PICK X, n : X = Ids /\ n = Len(events)
  OBVIOUS
<1>2. /\ now \in [X -> X] /\ events \in Seq(Events(X)) /\ kept \subseteq X /\ joined \subseteq X
      /\ \A c : Lives(events, n, now, c) => c \in Wanted
      /\ \A c \in Wanted \ Blurred : Lives(events, n, now, c)
  BY ONLY Inv, <1>1 DEF Inv, IdsOK, LogOK, Agreed
<1>3. PICK moved : moved = now'
  OBVIOUS
<1>4. moved = Recalled(X, now, i, to)
  BY ONLY <1>1, <1>3, now' = Recalled(Ids, now, i, to)
<1>5. \A j \in X : moved[j] = IF now[j] # i THEN now[j] ELSE to
  BY ONLY <1>4 DEF Recalled
<1>7. /\ \A c : c # i /\ c # to => (Lives(events, n, moved, c) <=> Lives(events, n, now, c))
      /\ ~Lives(events, n, moved, i)
      /\ Lives(events, n, moved, to) => Lives(events, n, now, i) \/ Lives(events, n, now, to)
      /\ to \notin X => (Lives(events, n, now, i) => Lives(events, n, moved, to))
  BY ONLY <1>1, <1>2, <1>4, to # i, LivesMoved
<1>8. /\ \A c : c \in Wanted <=> \E j \in kept : now[j] = c
      /\ \A c : c \in Blurred <=> \E j \in joined : now[j] = c
      /\ \A c : c \in Wanted' <=> \E j \in kept : moved[j] = c
      /\ \A c : c \in Blurred' <=> \E j \in joined' : moved[j] = c
  BY ONLY <1>3, UNCHANGED <<events, kept>> DEF Wanted, Blurred
<1>9. ASSUME NEW c, Lives(events, n, moved, c) PROVE c \in Wanted'
  <2>1. CASE c = to
    <3>1. PICK j \in kept : now[j] = i \/ now[j] = to
      BY ONLY <1>2, <1>7, <1>8, <1>9, <2>1
    <3>2. moved[j] = to
      BY ONLY <1>2, <1>5, <3>1
    <3>3. QED
      BY ONLY <1>8, <2>1, <3>2
  <2>2. CASE c # to
    <3>1. c # i /\ Lives(events, n, now, c)
      BY ONLY <1>7, <1>9, <2>2
    <3>2. PICK j \in kept : now[j] = c
      BY ONLY <1>2, <1>8, <3>1
    <3>3. moved[j] = c
      BY ONLY <1>2, <1>5, <3>1, <3>2
    <3>4. QED
      BY ONLY <1>8, <3>3
  <2>3. QED
    BY ONLY <2>1, <2>2
<1>10. ASSUME NEW c \in Wanted' \ Blurred' PROVE Lives(events, n, moved, c)
  <2>1. PICK j \in kept : moved[j] = c
    BY ONLY <1>8, c \in Wanted' \ Blurred'
  <2>2. j \in X /\ c = IF now[j] # i THEN now[j] ELSE to
    BY ONLY <1>2, <1>5, <2>1
  <2>3. CASE c = to
    <3>1. to \notin X /\ joined' = joined
      <4>1. CASE to \in Ids /\ joined' = joined \cup {to} /\ now[to] = to
        <5>1. to \in joined' /\ moved[to] = to
          BY ONLY <1>1, <1>5, <4>1, to # i
        <5>2. QED
          BY ONLY <1>8, <2>3, <5>1, c \in Wanted' \ Blurred'
      <4>2. QED
        BY ONLY <1>1, <4>1, \/ to \notin Ids /\ joined' = joined
                            \/ to \in Ids /\ joined' = joined \cup {to} /\ now[to] = to
    <3>2. now[j] = i
      BY ONLY <1>2, <2>2, <2>3, <3>1
    <3>3. i \in Wanted
      BY ONLY <1>8, <2>1, <3>2
    <3>4. i \notin Blurred
      <4>1. ASSUME NEW k \in joined, now[k] = i PROVE FALSE
        <5>1. moved[k] = to
          BY ONLY <1>2, <1>5, <4>1
        <5>2. QED
          BY ONLY <1>8, <2>3, <3>1, <5>1, c \in Wanted' \ Blurred'
      <4>2. QED
        BY ONLY <1>8, <4>1
    <3>5. QED
      BY ONLY <1>2, <1>7, <2>3, <3>1, <3>3, <3>4
  <2>4. CASE c # to
    <3>1. now[j] = c /\ c # i
      BY ONLY <2>2, <2>4
    <3>2. c \in Wanted
      BY ONLY <1>8, <2>1, <3>1
    <3>3. c \notin Blurred
      <4>1. ASSUME NEW k \in joined, now[k] = c PROVE FALSE
        <5>1. moved[k] = c /\ k \in joined'
          BY ONLY <1>2, <1>5, <3>1, <4>1, \/ to \notin Ids /\ joined' = joined
                                          \/ to \in Ids /\ joined' = joined \cup {to} /\ now[to] = to
        <5>2. QED
          BY ONLY <1>8, <5>1, c \in Wanted' \ Blurred'
      <4>2. QED
        BY ONLY <1>8, <4>1
    <3>4. QED
      BY ONLY <1>2, <1>7, <2>4, <3>1, <3>2, <3>3
  <2>5. QED
    BY ONLY <2>3, <2>4
<1>11. \A c : Lives(events, Len(events), now, c)' <=> Lives(events, n, moved, c)
  BY ONLY <1>1, <1>3, UNCHANGED <<events, kept>> DEF Lives, Adds, Removes
<1>12. QED
  BY ONLY <1>9, <1>10, <1>11 DEF Agreed

(* An id that goes to another, whatever becomes of the row it had. *)
LEMMA GoesKeeps ==
  ASSUME Inv, NEW i \in DOMAIN catalog, NEW to, Goes(i, to), CatalogOK',
         \/ to \in DOMAIN catalog \ {i} /\ next' = next /\ joined' = joined \cup {to}
         \/ to = next /\ next' = next + 1 /\ joined' = joined,
         DOMAIN catalog' = (DOMAIN catalog \ {i}) \cup {to}
  PROVE  Inv'
<1>1. IdsOK /\ TablesOK /\ LogOK
  BY ONLY Inv DEF Inv
<1>2. /\ IdsOK' /\ Ids' = Ids \cup {to}
      /\ now' = Recalled(Ids, now, i, to)
      /\ DOMAIN redirect' = DOMAIN redirect \cup {i} /\ to \notin DOMAIN redirect'
  <2>1. \/ to \in DOMAIN catalog \ {i} /\ next' = next
        \/ to = next /\ next' = next + 1
    BY ONLY \/ to \in DOMAIN catalog \ {i} /\ next' = next /\ joined' = joined \cup {to}
            \/ to = next /\ next' = next + 1 /\ joined' = joined
  <2>2. QED
    BY ONLY <1>1, <2>1, i \in DOMAIN catalog, Goes(i, to),
            DOMAIN catalog' = (DOMAIN catalog \ {i}) \cup {to}, GoesKeepsIds
<1>3. /\ DOMAIN catalog \subseteq Ids /\ \A j \in DOMAIN catalog : now[j] = j
      /\ next \notin Ids
  BY ONLY <1>1 DEF IdsOK, Ids
<1>4. UNCHANGED <<events, kept>>
  BY ONLY Goes(i, to) DEF Goes, Change, saved
<1>5. /\ \/ to \in DOMAIN catalog \ {i} /\ joined' = joined \cup {to}
         \/ to = next /\ joined' = joined
      /\ to # i
  BY ONLY <1>3, i \in DOMAIN catalog,
          \/ to \in DOMAIN catalog \ {i} /\ next' = next /\ joined' = joined \cup {to}
          \/ to = next /\ next' = next + 1 /\ joined' = joined
<1>6. Agreed'
  <2>1. \/ to \notin Ids /\ joined' = joined
        \/ to \in Ids /\ joined' = joined \cup {to} /\ now[to] = to
    BY ONLY <1>3, <1>5
  <2>2. i \in Ids /\ now[i] = i
    BY ONLY <1>3, i \in DOMAIN catalog
  <2>3. QED
    BY ONLY Inv, <1>2, <1>4, <1>5, <2>1, <2>2, GoesAgrees
<1>7. TablesOK'
  <2>1. /\ DOMAIN IdRows \subseteq Ids /\ DOMAIN FirstCatalog \subseteq Ids
        /\ \A j \in DOMAIN catalog : j \notin DOMAIN redirect /\ j \notin DOMAIN IdRows
    BY ONLY <1>1 DEF TablesOK
  <2>2. \A j \in DOMAIN catalog' : j \notin DOMAIN redirect' /\ j \notin DOMAIN IdRows
    BY ONLY <1>2, <1>3, <1>5, <2>1, DOMAIN catalog' = (DOMAIN catalog \ {i}) \cup {to}
  <2>3. DOMAIN IdRows \subseteq Ids' /\ DOMAIN FirstCatalog \subseteq Ids'
    BY ONLY <1>2, <2>1
  <2>4. QED
    BY ONLY CatalogOK', <2>2, <2>3 DEF TablesOK
<1>8. LogOK'
  <2>1. Events(Ids) \subseteq Events(Ids')
    BY ONLY <1>2, EventsWiden
  <2>2. events \in Seq(Events(Ids)) /\ kept \subseteq Ids /\ joined \subseteq Ids
    BY ONLY <1>1 DEF LogOK
  <2>3. events' \in Seq(Events(Ids'))
    BY ONLY <1>4, <2>1, <2>2, SeqWidens
  <2>4. kept' \subseteq Ids' /\ joined' \subseteq Ids'
    BY ONLY <1>2, <1>4, <1>5, <2>2
  <2>5. QED
    BY ONLY <2>3, <2>4 DEF LogOK, Events
<1>9. QED
  BY ONLY <1>2, <1>6, <1>7, <1>8 DEF Inv

LEMMA RebuildKeeps ==
  ASSUME Inv, NEW i \in DOMAIN catalog, Rebuild(i)
  PROVE  Inv'
<1>1. /\ Goes(i, next) /\ next' = next + 1 /\ joined' = joined
      /\ catalog' = Over([j \in {next} |-> catalog[i]], Without(i))
  BY ONLY Rebuild(i) DEF Rebuild
<1>2. PICK C, f, g : C = DOMAIN catalog /\ f = [j \in {next} |-> catalog[i]] /\ g = Without(i)
  OBVIOUS
<1>3. g = [j \in C \ {i} |-> catalog[j]]
  BY ONLY <1>2 DEF Without
<1>4. catalog' = [j \in DOMAIN f \cup DOMAIN g |-> IF j \in DOMAIN f THEN f[j] ELSE g[j]]
  BY ONLY <1>1, <1>2 DEF Over
<1>5. /\ DOMAIN f = {next} /\ f[next] = catalog[i]
      /\ DOMAIN g = C \ {i} /\ \A j \in C \ {i} : g[j] = catalog[j]
  BY ONLY <1>2, <1>3
<1>6. PICK V : V = [tour : Tours, idx : Nat \cup {None}, name : DOMAIN At]
  OBVIOUS
<1>7. catalog \in [C -> V]
  BY ONLY Inv, <1>2, <1>6 DEF Inv, TablesOK, CatalogOK
<1>8. DOMAIN catalog' = (C \ {i}) \cup {next} /\ \A j \in DOMAIN catalog' : catalog'[j] \in V
  BY ONLY <1>2, <1>4, <1>5, <1>7, i \in DOMAIN catalog
<1>9. catalog' \in [DOMAIN catalog' -> V]
  <2>1. PICK new : new = catalog'
    OBVIOUS
  <2>2. new = [j \in DOMAIN new |-> new[j]] /\ \A j \in DOMAIN new : new[j] \in V
    BY ONLY <1>4, <1>8, <2>1
  <2>3. new \in [DOMAIN new -> V]
    BY ONLY <2>2
  <2>4. QED
    BY ONLY <2>1, <2>3
<1>10. CatalogOK' /\ DOMAIN catalog' = (DOMAIN catalog \ {i}) \cup {next}
  BY ONLY <1>2, <1>6, <1>8, <1>9 DEF CatalogOK
<1>11. QED
  BY ONLY Inv, i \in DOMAIN catalog, <1>1, <1>10, GoesKeeps

(* A row less. *)
LEMMA WithoutIs ==
  ASSUME CatalogOK, NEW i, catalog' = Without(i)
  PROVE  CatalogOK' /\ DOMAIN catalog' = DOMAIN catalog \ {i}
<1>1. PICK C, V, new : C = DOMAIN catalog /\ V = [tour : Tours, idx : Nat \cup {None}, name : DOMAIN At] /\ new = catalog'
  OBVIOUS
<1>2. catalog \in [C -> V]
  BY ONLY CatalogOK, <1>1 DEF CatalogOK
<1>3. new = [j \in C \ {i} |-> catalog[j]]
  BY ONLY catalog' = Without(i), <1>1 DEF Without
<1>4. DOMAIN new = C \ {i} /\ new \in [C \ {i} -> V]
  BY ONLY <1>2, <1>3
<1>5. QED
  BY ONLY <1>1, <1>4 DEF CatalogOK

LEMMA MergeKeeps ==
  ASSUME Inv, NEW i \in DOMAIN catalog, NEW into \in DOMAIN catalog, i # into, Merge(i, into)
  PROVE  Inv'
<1>1. Goes(i, into) /\ next' = next /\ catalog' = Without(i) /\ joined' = joined \cup {into}
  BY ONLY Merge(i, into) DEF Merge
<1>2. CatalogOK' /\ DOMAIN catalog' = DOMAIN catalog \ {i}
  <2>1. CatalogOK
    BY ONLY Inv DEF Inv, TablesOK
  <2>2. QED
    BY ONLY <1>1, <2>1, WithoutIs
<1>3. into \in DOMAIN catalog \ {i} /\ DOMAIN catalog' = (DOMAIN catalog \ {i}) \cup {into}
  BY ONLY <1>2, into \in DOMAIN catalog, i # into
<1>4. QED
  BY ONLY Inv, i \in DOMAIN catalog, <1>1, <1>2, <1>3, GoesKeeps

(* A change of the catalog that moves no id. *)
LEMMA FewerKeeps ==
  ASSUME Inv, Change, UNCHANGED <<redirect, next, now, joined>>, CatalogOK', DOMAIN catalog' \subseteq DOMAIN catalog
  PROVE  Inv'
<1>1. /\ redirect' = redirect /\ next' = next /\ now' = now /\ joined' = joined
      /\ events' = events /\ kept' = kept
      /\ changes < MaxChanges /\ changes' = changes + 1
  BY ONLY Change, UNCHANGED <<redirect, next, now, joined>> DEF Change, saved
<1>2. Ids' = Ids
  BY ONLY <1>1 DEF Ids
<1>3. IdsOK'
  <2>1. IdsOK
    BY ONLY Inv DEF Inv
  <2>2. changes' \in 0..MaxChanges /\ 0..(changes + 1) \subseteq 0..(changes' + 1)
    BY ONLY <1>1, <2>1, HopsSuffice DEF IdsOK
  <2>3. \E rank \in [Ids -> 0..(changes' + 1)] : Sinks(rank)
    <3>1. PICK rank \in [Ids -> 0..(changes + 1)] : Sinks(rank)
      BY ONLY <2>1 DEF IdsOK
    <3>2. rank \in [Ids -> 0..(changes' + 1)]
      BY ONLY <2>2, <3>1
    <3>3. QED
      BY ONLY <3>1, <3>2
  <2>4. \A rank : Sinks(rank)' <=> Sinks(rank)
    BY ONLY <1>1, <1>2 DEF Sinks, Hop, NextHop
  <2>5. QED
    BY ONLY <1>1, <1>2, <2>1, <2>2, <2>3, <2>4, DOMAIN catalog' \subseteq DOMAIN catalog DEF IdsOK, Hop, NextHop
<1>4. TablesOK'
  BY ONLY Inv, <1>1, <1>2, CatalogOK', DOMAIN catalog' \subseteq DOMAIN catalog DEF Inv, TablesOK
<1>5. LogOK'
  BY ONLY Inv, <1>1, <1>2 DEF Inv, LogOK, Events
<1>6. Agreed'
  <2>1. Wanted' = Wanted /\ Blurred' = Blurred
    BY ONLY <1>1 DEF Wanted, Blurred
  <2>2. \A c : Lives(events, Len(events), now, c)' <=> Lives(events, Len(events), now, c)
    BY ONLY <1>1 DEF Lives, Adds, Removes
  <2>3. Agreed
    BY ONLY Inv DEF Inv
  <2>4. QED
    BY ONLY <2>1, <2>2, <2>3 DEF Agreed
<1>7. QED
  BY ONLY <1>3, <1>4, <1>5, <1>6 DEF Inv

LEMMA DropKeeps ==
  ASSUME Inv, NEW i \in DOMAIN catalog, Drop(i)
  PROVE  Inv'
<1>1. Change /\ catalog' = Without(i) /\ UNCHANGED <<redirect, next, now, joined>>
  BY ONLY Drop(i) DEF Drop
<1>2. CatalogOK
  BY ONLY Inv DEF Inv, TablesOK
<1>3. CatalogOK' /\ DOMAIN catalog' \subseteq DOMAIN catalog
  BY ONLY <1>1, <1>2, WithoutIs
<1>4. QED
  BY ONLY Inv, <1>1, <1>3, FewerKeeps

LEMMA SetStatusKeeps ==
  ASSUME Inv, NEW t, NEW s, SetStatus(t, s)
  PROVE  Inv'
<1>1. Change /\ catalog' = catalog /\ UNCHANGED <<redirect, next, now, joined>>
  BY ONLY SetStatus(t, s) DEF SetStatus
<1>2. CatalogOK' /\ DOMAIN catalog' \subseteq DOMAIN catalog
  BY ONLY Inv, <1>1 DEF Inv, TablesOK, CatalogOK
<1>3. QED
  BY ONLY Inv, <1>1, <1>2, FewerKeeps

LEMMA NextKeeps ==
  ASSUME Inv, [Next]_vars
  PROVE  Inv'
<1>1. IdsOK /\ TablesOK /\ LogOK
  BY ONLY Inv DEF Inv
<1>2. \A list \in Shown : list \in Seq(Ids) /\ Range(list) \subseteq Ids
  <2>1. \A hops : Present(events, hops) \in Seq(Ids)
    BY ONLY <1>1, PresentHas DEF LogOK
  <2>2. \A list \in Shown : \E hops : list = Present(events, hops)
    BY ONLY TRUE DEF Shown
  <2>3. QED
    BY ONLY <2>1, <2>2 DEF Range
<1>3. ASSUME NEW i \in Ids, AddComponent(i) PROVE Inv'
  BY ONLY Inv, <1>3, AddComponentKeeps
<1>4. ASSUME NEW i \in UNION {Range(list) : list \in Shown}, RemoveComponent(i) \/ AddDay(i) PROVE Inv'
  <2>1. i \in Ids
    BY ONLY <1>2, i \in UNION {Range(list) : list \in Shown}
  <2>2. CASE RemoveComponent(i)
    BY ONLY Inv, <2>1, <2>2, RemoveComponentKeeps
  <2>3. CASE AddDay(i)
    <3>1. i \in Ids \cup {None}
      BY ONLY <2>1
    <3>2. QED
      BY ONLY Inv, <2>3, <3>1, AddDayKeeps
  <2>4. QED
    BY ONLY <1>4, <2>2, <2>3
<1>5. ASSUME AddDay(None) PROVE Inv'
  <2>1. None \in Ids \cup {None}
    OBVIOUS
  <2>2. QED
    BY ONLY Inv, <1>5, <2>1, AddDayKeeps
<1>6. ASSUME RemoveDay PROVE Inv'
  BY ONLY Inv, <1>6, RemoveDayKeeps
<1>7. ASSUME NEW list \in Shown, Reorder(Reverse(list)) PROVE Inv'
  <2>1. Reverse(list) \in Seq(Ids)
    BY ONLY <1>2, list \in Shown, ReverseIs
  <2>2. QED
    BY ONLY Inv, <1>7, <2>1, ReorderKeeps
<1>8. ASSUME NEW t \in Tours, ApplyRoute(RouteOf(t)) PROVE Inv'
  <2>1. RouteOf(t) \in Seq(Ids)
    BY ONLY <1>1, RouteIs
  <2>2. QED
    BY ONLY Inv, <1>8, <2>1, ApplyRouteKeeps
<1>9. ASSUME NEW i \in DOMAIN catalog, Rebuild(i) PROVE Inv'
  BY ONLY Inv, <1>9, RebuildKeeps
<1>10. ASSUME NEW i \in DOMAIN catalog, NEW j \in DOMAIN catalog, i # j, Merge(i, j) PROVE Inv'
  BY ONLY Inv, <1>10, MergeKeeps
<1>11. ASSUME NEW i \in DOMAIN catalog, Drop(i) PROVE Inv'
  BY ONLY Inv, <1>11, DropKeeps
<1>12. ASSUME NEW t \in Tours, NEW s \in Fates, SetStatus(t, s) PROVE Inv'
  BY ONLY Inv, <1>12, SetStatusKeeps
<1>13. ASSUME UNCHANGED vars PROVE Inv'
  <2>1. UNCHANGED <<cis, now>> /\ events' = events /\ kept' = kept /\ joined' = joined /\ now' = now
    BY ONLY <1>13 DEF vars, saved
  <2>2. IdsOK' /\ TablesOK' /\ Ids' = Ids
    BY ONLY <1>1, <2>1, TablesStay
  <2>3. LogOK'
    BY ONLY <1>1, <2>1, <2>2 DEF LogOK, Events
  <2>4. Agreed'
    BY ONLY Inv, <2>1 DEF Inv, Agreed, Wanted, Blurred, Lives, Adds, Removes
  <2>5. QED
    BY ONLY <2>2, <2>3, <2>4 DEF Inv
<1>14. QED
  BY ONLY [Next]_vars, <1>3, <1>4, <1>5, <1>6, <1>7, <1>8, <1>9, <1>10, <1>11, <1>12, <1>13 DEF Next

-----------------------------------------------------------------------------
(* Whatever the catalog does to its ids, in whatever order and however often  *)
(* between the traveller's requests, the stops of the trip are the ones that  *)
(* were added and not removed, each once, in the itinerary or listed apart    *)
(* (events._components_and_missing, component_ids.id_map).                    *)
THEOREM StopsRemain == Spec => []NothingVanishes
<1>1. Init => Inv
  BY InitKeeps
<1>2. Inv /\ [Next]_vars => Inv'
  BY NextKeeps
<1>3. Inv => NothingVanishes
  BY InvIsEnough
<1>4. QED
  BY <1>1, <1>2, <1>3, PTL DEF Spec

-----------------------------------------------------------------------------
(* What the itinerary is made of. *)

(* The itinerary is a list of rows, with their days. *)
LEMMA ProjectedRows ==
  ASSUME CatalogOK, DOMAIN catalog \subseteq Nat,
         NEW served \in Seq(DOMAIN catalog), Once(served),
         NEW X, NEW order \in Seq(X), Once(order)
  PROVE  \E rows \in Seq({Row(i) : i \in DOMAIN catalog}) :
           /\ ProjectItinerary(served, order) = GroupIntoDays(rows)
           /\ order = <<>> => /\ rows = Sequence({Row(i) : i \in Range(served)})
                              /\ StopsOK({Row(i) : i \in Range(served)})
<1>1. PICK C, S : C = DOMAIN catalog /\ S = {Row(i) : i \in C}
  OBVIOUS
<1>2. Range(served) \subseteq C
  BY ONLY <1>1, served \in Seq(DOMAIN catalog) DEF Range
<1>3. \A i \in C : Row(i).id = i /\ Row(i).idx \in Nat \cup {None} /\ Row(i).at \in Int
  BY ONLY CatalogOK, <1>1, RowIs
<1>4. CASE order = <<>>
  <2>1. PICK T, q : T = {Row(i) : i \in Range(served)} /\ q = Sequence(T)
    OBVIOUS
  <2>2. Range(RowsOf(served)) = T /\ IsFiniteSet(T)
    <3>1. Range(RowsOf(served)) = T /\ RowsOf(served) \in Seq({Row(i) : i \in DOMAIN catalog})
      BY ONLY CatalogOK, served \in Seq(DOMAIN catalog), <2>1, RowsOfIs
    <3>2. QED
      BY ONLY <3>1, Counted
  <2>3. ProjectItinerary(served, order) = GroupIntoDays(q)
    BY <1>4, <2>1, <2>2 DEF ProjectItinerary, RowsOf
  <2>4. StopsOK(T)
    <3>1. /\ \A a \in T : a.id \in Nat /\ a.idx \in Nat \cup {None} /\ a.at \in Int
          /\ \A a, b \in T : a.id = b.id => a = b
      BY ONLY <1>1, <1>2, <1>3, <2>1, DOMAIN catalog \subseteq Nat
    <3>2. QED
      BY ONLY <2>2, <3>1 DEF StopsOK
  <2>5. q \in Seq(S)
    <3>1. q \in Seq(T) /\ T \subseteq S
      BY ONLY <1>1, <1>2, <2>1, <2>4, SequenceHas
    <3>2. QED
      BY ONLY <3>1, SeqWidens
  <2>6. QED
    BY ONLY <1>1, <2>1, <2>3, <2>4, <2>5
<1>5. CASE order # <<>>
  <2>1. PICK listed, rest, ids : /\ listed = Only(order, Range(served))
                                 /\ rest = Only(served, Range(served) \ Range(order))
                                 /\ ids = listed \o rest
    OBVIOUS
  <2>2. ProjectItinerary(served, order) = GroupIntoDays(RowsOf(ids))
    BY <1>5, <2>1 DEF ProjectItinerary, RowsOf
  <2>3. listed \in Seq(C)
    <3>1. listed \in Seq(X) /\ Range(listed) = Range(order) \cap Range(served)
      BY ONLY order \in Seq(X), Once(order), <2>1, OnlyKeeps
    <3>2. Range(listed) \subseteq C /\ DOMAIN listed = 1..Len(listed)
      BY ONLY <1>2, <3>1
    <3>3. \A n \in 1..Len(listed) : listed[n] \in C
      BY ONLY <3>2 DEF Range
    <3>4. QED
      BY ONLY <3>1, <3>3
  <2>4. rest \in Seq(C)
    BY ONLY served \in Seq(DOMAIN catalog), Once(served), <1>1, <2>1, OnlyKeeps
  <2>5. ids \in Seq(C)
    BY ONLY <2>1, <2>3, <2>4, ConcatIs
  <2>6. RowsOf(ids) \in Seq(S)
    BY ONLY CatalogOK, <1>1, <2>5, RowsOfIs
  <2>7. QED
    BY ONLY <1>1, <1>5, <2>2, <2>6
<1>6. QED
  BY ONLY <1>4, <1>5

(* The day of a stop is a number. *)
LEMMA DaysAre ==
  ASSUME NEW S, NEW ordered \in Seq(S)
  PROVE  \A n \in DOMAIN ordered : Days(ordered)[n] \in Nat
<1> DEFINE shares(n) == n > 1 /\ SharesDay(ordered[n - 1], ordered[n])
           grow(n, d) == IF shares(n) THEN d ELSE d + 1
           Def(f) == [n \in 0..Len(ordered) |->
                        IF n = 0 THEN 0
                        ELSE IF n > 1 /\ SharesDay(ordered[n - 1], ordered[n]) THEN f[n - 1]
                        ELSE f[n - 1] + 1]
<1>1. PICK Step, N : Step = [n \in 1..N |-> [d \in Nat |-> grow(n, d)]] /\ N = Len(ordered)
  OBVIOUS
<1>2. N \in Nat /\ 0 \in Nat /\ \A n \in 1..N, d \in Nat : grow(n, d) \in Nat
  BY <1>1
<1>3. PICK f \in [0..N -> Nat] : f[0] = 0 /\ \A n \in 1..N : f[n] = Step[n][f[n - 1]]
  <2> HIDE DEF grow
  <2>1. Step \in [1..N -> [Nat -> Nat]]
    BY ONLY <1>1, <1>2
  <2>2. PICK f : Made(f, N, Nat, 0, Step)
    BY ONLY <1>2, <2>1, Iterates
  <2>3. QED
    BY ONLY <2>2 DEF Made
<1>4. \A n \in 1..N : f[n] = grow(n, f[n - 1])
  <2>1. ASSUME NEW n \in 1..N PROVE f[n] = grow(n, f[n - 1])
    <3>1. f[n - 1] \in Nat
      BY ONLY <1>2, <1>3
    <3> HIDE DEF grow
    <3>2. QED
      BY ONLY <1>1, <1>3, <3>1
  <2>2. QED
    BY ONLY <2>1
<1>5. f = Def(f)
  <2>1. f = [n \in 0..N |-> f[n]] /\ \A n \in 0..N : n # 0 => n \in 1..N
    BY ONLY <1>2, <1>3
  <2>2. \A n \in 0..N : f[n] = IF n = 0 THEN 0 ELSE grow(n, f[n - 1])
    <3> HIDE DEF grow
    <3>1. QED
      BY ONLY <1>3, <1>4, <2>1
  <2> HIDE DEF shares
  <2>3. f = [n \in 0..N |-> IF n = 0 THEN 0 ELSE IF shares(n) THEN f[n - 1] ELSE f[n - 1] + 1]
    BY ONLY <2>1, <2>2
  <2>4. QED
    BY ONLY <1>1, <2>3, Zenon DEF shares
<1>6. PICK F : F = Def(F) /\ Days(ordered) = [n \in DOMAIN ordered |-> F[n]]
  <2> DEFINE G == CHOOSE g : g = Def(g)
  <2>1. G = Def(G)
    <3> HIDE DEF Def
    <3>1. QED
      BY ONLY <1>5
  <2>2. Days(ordered) = [n \in DOMAIN ordered |-> G[n]]
    BY ONLY TRUE DEF Days
  <2>3. QED
    BY ONLY <2>1, <2>2
<1>7. \A n \in 0..N : F[n] \in Nat
  <2> HIDE DEF shares
  <2>1. F = [n \in 0..N |-> IF n = 0 THEN 0 ELSE IF shares(n) THEN F[n - 1] ELSE F[n - 1] + 1]
    BY ONLY <1>1, <1>6 DEF shares
  <2>2. F[0] = 0 /\ \A n \in 1..N : F[n] = IF shares(n) THEN F[n - 1] ELSE F[n - 1] + 1
    <3>1. 0 \in 0..N /\ \A n \in 1..N : n \in 0..N /\ n # 0
      BY ONLY <1>2
    <3>2. QED
      BY ONLY <2>1, <3>1
  <2>3. Closed(F, N, Nat)
    BY ONLY <2>2 DEF Closed
  <2>4. QED
    BY ONLY <1>2, <2>3, Iterated
<1>8. DOMAIN ordered \subseteq 0..N
  BY ONLY ordered \in Seq(S), <1>1
<1>9. QED
  BY ONLY <1>6, <1>7, <1>8

(* An entry of the itinerary is a row of the catalog, with its day. *)
FromRow(e) ==
  /\ {"id", "tour", "idx", "name", "day"} \subseteq DOMAIN e
  /\ e.id \in DOMAIN catalog /\ e.day \in Nat
  /\ e.tour = catalog[e.id].tour /\ e.idx = catalog[e.id].idx /\ e.name = catalog[e.id].name

LEMMA DatedIs ==
  ASSUME NEW i \in DOMAIN catalog, NEW d \in Nat
  PROVE  FromRow(Over(Row(i), [day |-> d])) /\ Over(Row(i), [day |-> d]).id = i
<1>1. PICK r, g, e : r = Row(i) /\ g = [day |-> d] /\ e = Over(r, g)
  OBVIOUS
<1>2. /\ DOMAIN r = {"id", "tour", "idx", "name", "at"} /\ r.id = i
      /\ r.tour = catalog[i].tour /\ r.idx = catalog[i].idx /\ r.name = catalog[i].name
  BY ONLY <1>1 DEF Row
<1>3. DOMAIN g = {"day"} /\ g.day = d
  BY ONLY <1>1
<1>4. /\ DOMAIN e = DOMAIN r \cup DOMAIN g
      /\ \A x \in DOMAIN r \cup DOMAIN g : e[x] = IF x \in DOMAIN r THEN r[x] ELSE g[x]
  BY ONLY <1>1 DEF Over
<1>5. {"id", "tour", "idx", "name", "day"} \subseteq DOMAIN e
  BY ONLY <1>2, <1>3, <1>4
<1>6. e.id = r.id /\ e.tour = r.tour /\ e.idx = r.idx /\ e.name = r.name
  BY ONLY <1>2, <1>4
<1>7. e.day = g.day
  BY ONLY <1>2, <1>3, <1>4
<1>8. QED
  BY ONLY i \in DOMAIN catalog, d \in Nat, <1>1, <1>2, <1>3, <1>5, <1>6, <1>7 DEF FromRow

LEMMA ServedIs ==
  ASSUME IdsOK, CatalogOK, NEW hops, NEW log \in Seq(Events(Ids))
  PROVE  /\ Served(log, hops) \in Seq(DOMAIN catalog) /\ Once(Served(log, hops))
         /\ Range(Served(log, hops)) = Range(Present(log, hops)) \cap ServedIds
         /\ Missing(log, hops) \in Seq(Ids) /\ Once(Missing(log, hops))
         /\ Range(Missing(log, hops)) = Range(Present(log, hops)) \ ServedIds
<1>1. PICK P, served, gone : P = Present(log, hops) /\ served = Served(log, hops) /\ gone = Missing(log, hops)
  OBVIOUS
<1>2. P \in Seq(Ids) /\ Once(P)
  BY ONLY IdsOK, log \in Seq(Events(Ids)), <1>1, PresentHas
<1>3. /\ served \in Seq(Ids) /\ Once(served) /\ Range(served) = Range(P) \cap ServedIds
      /\ gone \in Seq(Ids) /\ Once(gone) /\ Range(gone) = Range(P) \cap (Range(P) \ ServedIds)
  BY ONLY <1>1, <1>2, OnlyKeeps DEF Served, Missing
<1>4. served \in Seq(DOMAIN catalog)
  <2>1. DOMAIN served = 1..Len(served) /\ Range(served) \subseteq DOMAIN catalog
    BY ONLY <1>3 DEF ServedIds
  <2>2. \A n \in 1..Len(served) : served[n] \in DOMAIN catalog
    BY ONLY <2>1 DEF Range
  <2>3. QED
    BY ONLY <1>3, <2>2
<1>5. QED
  BY ONLY <1>1, <1>3, <1>4

(* Each entry is of the catalog, and each served stop has one. *)
LEMMA ItineraryIs ==
  ASSUME IdsOK, CatalogOK, NEW hops, NEW log \in Seq(Events(Ids))
  PROVE  /\ Itinerary(log, hops) \in Seq(Range(Itinerary(log, hops)))
         /\ \A e \in Range(Itinerary(log, hops)) : FromRow(e)
         /\ {e.id : e \in Range(Itinerary(log, hops))} = Range(Served(log, hops))
         /\ Once(IdsOf(Itinerary(log, hops)))
<1>1. PICK served, order, t : served = Served(log, hops) /\ order = ExplicitOrder(log, hops) /\ t = Itinerary(log, hops)
  OBVIOUS
<1>2. DOMAIN catalog \subseteq Nat
  BY ONLY IdsOK DEF IdsOK, Ids
<1>3. served \in Seq(DOMAIN catalog) /\ Once(served)
  BY ONLY IdsOK, CatalogOK, log \in Seq(Events(Ids)), <1>1, ServedIs
<1>4. order \in Seq(Ids) /\ Once(order) /\ t = ProjectItinerary(served, order)
  BY ONLY IdsOK, log \in Seq(Events(Ids)), <1>1, OrderIs DEF Itinerary
<1>5. PICK rows \in Seq({Row(i) : i \in DOMAIN catalog}) : t = GroupIntoDays(rows)
  BY ONLY CatalogOK, <1>2, <1>3, <1>4, ProjectedRows
<1>6. PICK N : N = Len(rows)
  OBVIOUS
<1>7. N \in Nat /\ DOMAIN rows = 1..N /\ \A n \in 1..N : Days(rows)[n] \in Nat /\ \E i \in DOMAIN catalog : rows[n] = Row(i)
  BY ONLY rows \in Seq({Row(i) : i \in DOMAIN catalog}), <1>6, DaysAre
<1>8. t = [n \in 1..N |-> Over(rows[n], [day |-> Days(rows)[n]])]
  BY ONLY <1>5, <1>7 DEF GroupIntoDays
<1>9. DOMAIN t = 1..N /\ \A n \in 1..N : t[n] = Over(rows[n], [day |-> Days(rows)[n]])
  BY ONLY <1>8
<1>10. ASSUME NEW n \in 1..N PROVE FromRow(t[n])
  <2>1. PICK i \in DOMAIN catalog, d \in Nat : rows[n] = Row(i) /\ d = Days(rows)[n]
    BY ONLY <1>7, n \in 1..N
  <2>2. t[n] = Over(Row(i), [day |-> d])
    BY ONLY <1>9, <2>1, n \in 1..N
  <2>3. QED
    BY ONLY <2>2, DatedIs
<1>11. \A e \in Range(t) : FromRow(e)
  BY ONLY <1>9, <1>10 DEF Range
<1>12. t \in Seq(Range(t))
  <2>1. t \in [1..N -> Range(t)]
    <3>1. t = [n \in 1..N |-> t[n]]
      BY ONLY <1>8, <1>9
    <3>2. \A n \in 1..N : t[n] \in Range(t)
      BY ONLY <1>9 DEF Range
    <3>3. QED
      BY ONLY <3>1, <3>2
  <2>2. QED
    BY ONLY <1>7, <2>1
<1>13. Range(IdsOf(t)) = Range(served) /\ Once(IdsOf(t))
  BY ONLY CatalogOK, <1>2, <1>3, <1>4, ProjectedIs
<1>14. {e.id : e \in Range(t)} = Range(IdsOf(t))
  <2>1. DOMAIN IdsOf(t) = DOMAIN t /\ \A n \in DOMAIN t : IdsOf(t)[n] = t[n].id
    BY ONLY TRUE DEF IdsOf
  <2>2. QED
    BY ONLY <2>1 DEF Range
<1>15. QED
  BY ONLY <1>1, <1>11, <1>12, <1>13, <1>14

-----------------------------------------------------------------------------
(* The stored projection. *)

(* What the projection knows of a stop. *)
Known ==
  [day : Nat \cup {None}, tour : Tours \cup {None}, idx : Nat \cup {None}, name : DOMAIN At \cup {None}]

Drafts == UNION {[D -> Known] : D \in SUBSET Nat}

(* A stop that was shown has its name and its tour there. *)
Named(table, i) == i \in DOMAIN table /\ table[i].name \in DOMAIN At /\ table[i].tour \in Tours

(* What one append makes of it. *)
LEMMA ProjectionIs ==
  ASSUME IdsOK, CatalogOK, NEW hops, NEW log \in Seq(Events(Ids)),
         NEW previous \in Drafts
  PROVE  /\ Projection(log, hops, previous) \in Drafts
         /\ \A i \in Range(Served(log, hops)) : Named(Projection(log, hops, previous), i)
         /\ \A i \in Range(Present(log, hops)) : Named(previous, i) => Named(Projection(log, hops, previous), i)
<1>1. PICK t, P, served, new : /\ t = Itinerary(log, hops) /\ P = Range(Present(log, hops))
                               /\ served = Range(Served(log, hops)) /\ new = Projection(log, hops, previous)
  OBVIOUS
<1>2. /\ \A e \in Range(t) : FromRow(e)
      /\ {e.id : e \in Range(t)} = served
  BY ONLY IdsOK, CatalogOK, log \in Seq(Events(Ids)), <1>1, ItineraryIs
<1>3. served = P \cap ServedIds
  BY ONLY IdsOK, CatalogOK, log \in Seq(Events(Ids)), <1>1, ServedIs
<1> DEFINE of(i) == Snapshot(CHOOSE e \in Range(t) : e.id = i)
<1>4. new = [i \in P |-> IF IsServed(i) THEN of(i) ELSE IF i \in DOMAIN previous THEN previous[i] ELSE Blank]
  BY ONLY <1>1 DEF Projection
<1>5. ASSUME NEW i \in P, IsServed(i)
      PROVE  of(i) \in Known /\ of(i).name \in DOMAIN At /\ of(i).tour \in Tours
  <2>1. i \in served
    BY ONLY <1>3, <1>5 DEF ServedIds, IsServed
  <2>2. PICK e : e = CHOOSE x \in Range(t) : x.id = i
    OBVIOUS
  <2>3. e \in Range(t) /\ e.id = i
    BY ONLY <1>2, <2>1, <2>2
  <2>4. FromRow(e)
    BY ONLY <1>2, <2>3
  <2>5. of(i) = [day |-> e.day, tour |-> e.tour, idx |-> e.idx, name |-> e.name]
    BY ONLY <2>2 DEF Snapshot
  <2>6. catalog[i] \in [tour : Tours, idx : Nat \cup {None}, name : DOMAIN At]
    BY ONLY CatalogOK, <2>3, <2>4 DEF CatalogOK, FromRow
  <2>7. e.day \in Nat /\ e.tour \in Tours /\ e.idx \in Nat \cup {None} /\ e.name \in DOMAIN At
    BY ONLY <2>3, <2>4, <2>6 DEF FromRow
  <2>8. QED
    BY ONLY <2>5, <2>7 DEF Known
<1> HIDE DEF of
<1>6. Blank \in Known
  BY ONLY TRUE DEF Blank, Known
<1>7. new \in Drafts
  <2>1. \A i \in DOMAIN previous : previous[i] \in Known
    BY ONLY previous \in Drafts, Zenon DEF Drafts
  <2>2. \A i \in P : new[i] \in Known
    BY ONLY <1>4, <1>5, <1>6, <2>1
  <2>3. new \in [P -> Known]
    BY ONLY <1>4, <2>2
  <2>4. P \in SUBSET Nat
    <3>1. PICK s : s = Present(log, hops)
      OBVIOUS
    <3>2. s \in Seq(Ids)
      BY ONLY IdsOK, log \in Seq(Events(Ids)), <3>1, PresentHas
    <3>3. Range(s) \subseteq Ids
      BY ONLY <3>2 DEF Range
    <3>4. Ids \subseteq Nat
      BY ONLY IdsOK DEF IdsOK, Ids
    <3>5. QED
      BY ONLY <1>1, <3>1, <3>3, <3>4
  <2>5. QED
    BY ONLY <2>3, <2>4 DEF Drafts
<1>8. \A i \in P : IsServed(i) => Named(new, i)
  BY ONLY <1>4, <1>5 DEF Named
<1>9. \A i \in served : i \in P /\ IsServed(i)
  BY ONLY <1>3 DEF ServedIds
<1>10. \A i \in P : Named(previous, i) => Named(new, i)
  BY ONLY <1>4, <1>8 DEF Named
<1>11. QED
  BY ONLY <1>1, <1>7, <1>8, <1>9, <1>10

(* A request's appends store what a traveller was shown, whatever is not hidden *)
(* between two of them.                                                        *)
LEMMA WriteTells ==
  ASSUME IdsOK, CatalogOK, NEW hops, NEW log \in Seq(Events(Ids)), Len(events) \in Nat, Len(events) < Len(log),
         draft \in Drafts, \A i \in steady : Named(draft, i), Write(log, hops)
  PROVE  draft' \in Drafts /\ \A i \in steady' : Named(draft', i)
<1> DEFINE Upto(n) == SubSeq(log, 1, Len(events) + n)
           project(n, d) == Projection(Upto(n), hops, d)
           Def(f) == [n \in 0..(Len(log) - Len(events)) |-> IF n = 0 THEN draft ELSE project(n, f[n - 1])]
<1>1. PICK Step, K : Step = [n \in 1..K |-> [d \in Drafts |-> project(n, d)]] /\ K = Len(log) - Len(events)
  OBVIOUS
<1>2. K \in Nat /\ K # 0 /\ Len(log) = Len(events) + K /\ Len(log) \in Nat
  <2>1. Len(log) \in Nat
    BY ONLY log \in Seq(Events(Ids))
  <2>2. PICK a, b : a = Len(log) /\ b = Len(events)
    BY Zenon
  <2>3. a \in Nat /\ b \in Nat /\ b < a /\ K = a - b
    BY ONLY <1>1, <2>1, <2>2, Len(events) \in Nat, Len(events) < Len(log), Zenon
  <2>4. K \in Nat /\ K # 0 /\ a = b + K
    BY ONLY <2>3
  <2>5. QED
    BY ONLY <2>1, <2>2, <2>4, Zenon
<1>3. ASSUME NEW n \in 1..K PROVE Upto(n) \in Seq(Events(Ids))
  <2>1. PICK E, m : E = Events(Ids) /\ m = Len(events) + n
    OBVIOUS
  <2>2. m \in 1..Len(log)
    BY ONLY <1>2, <2>1, n \in 1..K, Len(events) \in Nat
  <2>3. SubSeq(log, 1, m) \in Seq(E)
    BY ONLY log \in Seq(Events(Ids)), <2>1, <2>2
  <2>4. QED
    BY ONLY <2>1, <2>3
<1>4. \A n \in 1..K, d \in Drafts : project(n, d) \in Drafts
  <2> HIDE DEF Upto
  <2>1. QED
    BY ONLY <1>3, IdsOK, CatalogOK, ProjectionIs
<1>5. PICK f \in [0..K -> Drafts] : f[0] = draft /\ \A n \in 1..K : f[n] = Step[n][f[n - 1]]
  <2> HIDE DEF project
  <2>1. Step \in [1..K -> [Drafts -> Drafts]]
    BY ONLY <1>1, <1>4
  <2>2. PICK f : Made(f, K, Drafts, draft, Step)
    BY ONLY <1>2, <2>1, draft \in Drafts, Iterates
  <2>3. QED
    BY ONLY <2>2 DEF Made
<1>6. \A n \in 1..K : f[n] = project(n, f[n - 1])
  <2>1. ASSUME NEW n \in 1..K PROVE f[n] = project(n, f[n - 1])
    <3>1. f[n - 1] \in Drafts
      BY ONLY <1>2, <1>5
    <3> HIDE DEF project
    <3>2. QED
      BY ONLY <1>1, <1>5, <3>1
  <2>2. QED
    BY ONLY <2>1
<1>7. f = Def(f)
  <2> HIDE DEF project
  <2>1. f = [n \in 0..K |-> f[n]] /\ \A n \in 0..K : n # 0 => n \in 1..K
    BY ONLY <1>2, <1>5
  <2>2. \A n \in 0..K : f[n] = IF n = 0 THEN draft ELSE project(n, f[n - 1])
    BY ONLY <1>5, <1>6, <2>1
  <2>3. QED
    BY ONLY <1>1, <2>1, <2>2
<1>8. PICK F : F = Def(F) /\ draft' = F[K]
  <2> DEFINE G == CHOOSE g : g = Def(g)
  <2>1. G = Def(G)
    <3> HIDE DEF Def
    <3>1. QED
      BY ONLY <1>7
  <2>2. draft' = G[Len(log) - Len(events)]
    BY ONLY Write(log, hops) DEF Write
  <2>3. QED
    BY ONLY <1>1, <2>1, <2>2
<1>9. F[0] = draft /\ \A n \in 1..K : F[n] = project(n, F[n - 1])
  <2> HIDE DEF project
  <2>1. 0 \in 0..K /\ \A n \in 1..K : n \in 0..K /\ n # 0
    BY ONLY <1>2
  <2>2. QED
    BY ONLY <1>1, <1>8, <2>1
<1>10. \A n \in 0..K : F[n] \in Drafts
  <2> HIDE DEF project
  <2>1. Closed(F, K, Drafts)
    BY ONLY <1>4, <1>9, draft \in Drafts DEF Closed
  <2>2. QED
    BY ONLY <1>2, <2>1, Iterated
<1>11. steady' = Range(Served(log, hops)) \cup {i \in steady : \A n \in 1..K : i \in Range(Present(Upto(n), hops))}
  BY ONLY Write(log, hops), <1>1 DEF Write
<1>12. Upto(K) = log
  <2>1. SubSeq(log, 1, Len(log)) = log
    BY ONLY log \in Seq(Events(Ids)), SubSeqFull
  <2>2. QED
    BY ONLY <1>2, <2>1
<1> HIDE DEF Upto
<1>13. ASSUME NEW i \in Range(Served(log, hops)) PROVE Named(draft', i)
  <2>1. K \in 1..K /\ K - 1 \in 0..K
    BY ONLY <1>2
  <2>2. F[K] = Projection(log, hops, F[K - 1]) /\ F[K - 1] \in Drafts
    BY ONLY <1>9, <1>10, <1>12, <2>1
  <2>3. QED
    BY ONLY <1>8, <2>2, IdsOK, CatalogOK, log \in Seq(Events(Ids)), i \in Range(Served(log, hops)), ProjectionIs
<1>14. ASSUME NEW i \in steady, \A n \in 1..K : i \in Range(Present(Upto(n), hops)) PROVE Named(draft', i)
  <2> DEFINE S == {n \in Nat : n <= K => Named(F[n], i)}
  <2>1. 0 \in S
    BY ONLY <1>9, i \in steady, \A j \in steady : Named(draft, j)
  <2>2. ASSUME NEW n \in Nat, n \in S PROVE n + 1 \in S
    <3>1. SUFFICES ASSUME n + 1 <= K PROVE Named(F[n + 1], i)
      OBVIOUS
    <3>2. n + 1 \in 1..K /\ n \in 0..K /\ n + 1 - 1 = n /\ Named(F[n], i)
      BY ONLY <1>2, <2>2, <3>1, n \in Nat
    <3>3. F[n + 1] = Projection(Upto(n + 1), hops, F[n]) /\ F[n] \in Drafts
      BY ONLY <1>9, <1>10, <3>2
    <3>4. Upto(n + 1) \in Seq(Events(Ids)) /\ i \in Range(Present(Upto(n + 1), hops))
      BY ONLY <1>3, <1>14, <3>2
    <3>5. QED
      BY ONLY <3>2, <3>3, <3>4, IdsOK, CatalogOK, ProjectionIs
  <2>3. K \in S
    <3> HIDE DEF S
    <3>1. QED
      BY ONLY <1>2, <2>1, <2>2, Induction
  <2>4. QED
    BY ONLY <1>2, <1>8, <2>3
<1>15. draft' \in Drafts
  <2>1. K \in 0..K
    BY ONLY <1>2
  <2>2. QED
    BY ONLY <1>8, <1>10, <2>1
<1>16. QED
  BY ONLY <1>11, <1>13, <1>14, <1>15

-----------------------------------------------------------------------------
(* The reasons. *)

(* What the stored projection and the tombstones say is well formed, and a stop  *)
(* that was shown and has not moved has its name there.                          *)
TaleOK ==
  /\ draft \in Drafts
  /\ \A i \in steady : Named(draft, i)
  /\ status \in [Tours -> Live \cup Fates]

(* The reasons, by the fate of the tour. *)
LEMMA Reasons ==
  ASSUME NEW t \in Tours, status[t] \in Live \cup Fates, NEW reads \in SUBSET Views
  PROVE  /\ StopReason(t, Views) = "stop_removed" <=> status[t] \in Live
         /\ StopReason(t, Views) = "retired" <=> status[t] = "retired"
         /\ (status[t] = "restored" => "v_tour" \in reads)
              => StopReason(t, reads) \in {"not_served", StopReason(t, Views)}
<1>1. PICK s : s = status[t]
  OBVIOUS
<1>2. t # None /\ \A x \in Fates : x # None
  BY ONLY t \in Tours, CatalogAssumption
<1>3. s \in {"live", "restored", "retired", "paused", "gone"} /\ "v_tour" \in Views /\ "v_tour_retired" \in Views
  BY ONLY <1>1, status[t] \in Live \cup Fates DEF Live, Fates, Views
<1>4. "restored" # None /\ "retired" # None /\ "paused" # None
  BY ONLY <1>2 DEF Fates
<1>5. Tombstone(t) = IF s \in {"live", "gone"} THEN None ELSE s
  BY ONLY <1>1 DEF Tombstone
<1>6. \A seen : StopReason(t, seen) =
        IF "v_tour" \in seen /\ s \in {"live", "restored"} THEN "stop_removed"
        ELSE IF "v_tour_retired" \in seen /\ Tombstone(t) # None
             THEN IF Tombstone(t) = "retired" THEN "retired" ELSE "paused"
        ELSE "not_served"
  BY ONLY <1>1, <1>2 DEF StopReason, Live
<1>7. CASE s = "live"
  BY ONLY <1>1, <1>3, <1>5, <1>6, <1>7 DEF Live
<1>8. CASE s = "restored"
  BY ONLY <1>1, <1>3, <1>4, <1>5, <1>6, <1>8 DEF Live
<1>9. CASE s = "retired"
  BY ONLY <1>1, <1>3, <1>4, <1>5, <1>6, <1>9 DEF Live
<1>10. CASE s = "paused"
  BY ONLY <1>1, <1>3, <1>4, <1>5, <1>6, <1>10 DEF Live
<1>11. CASE s = "gone"
  BY ONLY <1>1, <1>3, <1>5, <1>6, <1>11 DEF Live
<1>12. QED
  BY ONLY <1>3, <1>7, <1>8, <1>9, <1>10, <1>11

(* A stop listed apart has the fields it was stored with. *)
LEMMA ApartIs ==
  ASSUME NEW u \in Range(Apart), draft \in Drafts, Named(draft, u.id)
  PROVE  /\ u.tour \in Tours /\ u.name \in DOMAIN At
         /\ u.reason = StopReason(u.tour, Views)
<1>1. PICK gone, stop : /\ gone = Missing(events, Hops)
                        /\ stop = [n \in DOMAIN gone |-> IF gone[n] \in DOMAIN draft THEN draft[gone[n]] ELSE Blank]
  OBVIOUS
<1>2. Apart = [n \in DOMAIN gone |->
                 Over([id |-> gone[n], reason |-> StopReason(stop[n].tour, Views)], stop[n])]
  BY ONLY <1>1 DEF Apart, UnavailableStops
<1>3. PICK n \in DOMAIN gone : u = Over([id |-> gone[n], reason |-> StopReason(stop[n].tour, Views)], stop[n])
  BY ONLY <1>2, u \in Range(Apart) DEF Range
<1>4. PICK f, g : f = [id |-> gone[n], reason |-> StopReason(stop[n].tour, Views)] /\ g = stop[n]
  OBVIOUS
<1>5. DOMAIN f = {"id", "reason"} /\ f.id = gone[n] /\ f.reason = StopReason(g.tour, Views)
  BY ONLY <1>4
<1>6. /\ DOMAIN u = DOMAIN f \cup DOMAIN g
      /\ \A x \in DOMAIN f \cup DOMAIN g : u[x] = IF x \in DOMAIN f THEN f[x] ELSE g[x]
  BY ONLY <1>3, <1>4 DEF Over
<1>7. u.id = gone[n] /\ u.reason = f.reason
  BY ONLY <1>5, <1>6
<1>8. g = draft[gone[n]] /\ g.name \in DOMAIN At /\ g.tour \in Tours
  BY ONLY <1>1, <1>4, <1>7, Named(draft, u.id) DEF Named
<1>9. g \in Known
  BY ONLY <1>7, <1>8, draft \in Drafts, Named(draft, u.id) DEF Drafts, Named
<1>10. DOMAIN g = {"day", "tour", "idx", "name"}
  BY ONLY <1>9 DEF Known
<1>11. u.tour = g.tour /\ u.name = g.name
  BY ONLY <1>5, <1>6, <1>10
<1>12. QED
  BY ONLY <1>5, <1>7, <1>8, <1>11

Explained(u) ==
  /\ u.name # None
  /\ u.reason = "stop_removed" <=> status[u.tour] \in Live
  /\ u.reason = "retired" <=> status[u.tour] = "retired"
  /\ \A reads \in SUBSET Views :
       (status[u.tour] = "restored" => "v_tour" \in reads)
         => StopReason(u.tour, reads) \in {"not_served", u.reason}

LEMMA TaleIsEnough ==
  ASSUME TaleOK
  PROVE  GoneIsExplained
<1>1. ASSUME NEW u \in Range(Apart), u.id \in steady PROVE Explained(u)
  <2>1. draft \in Drafts /\ Named(draft, u.id) /\ status \in [Tours -> Live \cup Fates]
    BY ONLY TaleOK, <1>1 DEF TaleOK
  <2>2. u.tour \in Tours /\ u.name \in DOMAIN At /\ u.reason = StopReason(u.tour, Views)
    BY ONLY <2>1, u \in Range(Apart), ApartIs
  <2>3. u.name # None
    BY ONLY <2>2, CatalogAssumption
  <2>4. status[u.tour] \in Live \cup Fates
    BY ONLY <2>1, <2>2
  <2>5. PICK t, r : t = u.tour /\ r = u.reason
    OBVIOUS
  <2>6. ASSUME NEW reads \in SUBSET Views
        PROVE  /\ r = "stop_removed" <=> status[t] \in Live
               /\ r = "retired" <=> status[t] = "retired"
               /\ (status[t] = "restored" => "v_tour" \in reads) => StopReason(t, reads) \in {"not_served", r}
    <3>1. t \in Tours /\ status[t] \in Live \cup Fates /\ r = StopReason(t, Views)
      BY ONLY <2>2, <2>4, <2>5
    <3>2. QED
      BY ONLY <3>1, reads \in SUBSET Views, Reasons
  <2>7. {} \in SUBSET Views
    OBVIOUS
  <2>8. QED
    BY ONLY <2>3, <2>5, <2>6, <2>7 DEF Explained
<1>2. QED
  BY ONLY <1>1 DEF GoneIsExplained, Explained

-----------------------------------------------------------------------------
(* Every step keeps it. *)

LEMMA TaleAtFirst ==
  ASSUME Init
  PROVE  TaleOK
<1>1. draft = NoRows /\ steady = {} /\ status = FirstStatus
  BY ONLY Init DEF Init
<1>2. draft \in Drafts
  <2>1. draft \in [{} -> Known]
    BY ONLY <1>1 DEF NoRows
  <2>2. QED
    BY ONLY <2>1 DEF Drafts
<1>3. status \in [Tours -> Live \cup Fates]
  <2>1. status \in [Tours -> Live]
    BY ONLY <1>1, CatalogAssumption
  <2>2. QED
    BY ONLY <2>1
<1>4. QED
  BY ONLY <1>1, <1>2, <1>3 DEF TaleOK

(* A request: the log it makes is well formed, and longer. *)
LEMMA WriteKeepsTale ==
  ASSUME Inv, Inv', TaleOK, NEW log, NEW hops, Write(log, hops), Len(events) < Len(log)
  PROVE  TaleOK'
<1>1. events' = log /\ UNCHANGED cis
  BY ONLY Write(log, hops) DEF Write
<1>2. Ids' = Ids /\ status' = status
  BY ONLY <1>1 DEF cis, Ids
<1>3. log \in Seq(Events(Ids))
  BY ONLY Inv', <1>1, <1>2 DEF Inv, LogOK, Events
<1>4. Len(events) \in Nat
  <2>1. events \in Seq(Events(Ids))
    BY ONLY Inv DEF Inv, LogOK
  <2>2. QED
    BY ONLY <2>1
<1>5. IdsOK /\ CatalogOK /\ draft \in Drafts /\ \A i \in steady : Named(draft, i)
  BY ONLY Inv, TaleOK DEF Inv, TablesOK, TaleOK
<1>6. draft' \in Drafts /\ \A i \in steady' : Named(draft', i)
  BY ONLY <1>3, <1>4, <1>5, Len(events) < Len(log), Write(log, hops), WriteTells
<1>7. QED
  BY ONLY TaleOK, <1>2, <1>6 DEF TaleOK, Drafts, Known, Named

LEMMA AppendKeepsTale ==
  ASSUME Inv, Inv', TaleOK, NEW e, NEW hops, Write(Append(events, e), hops)
  PROVE  TaleOK'
<1>1. events \in Seq(Events(Ids))
  BY ONLY Inv DEF Inv, LogOK
<1>2. Len(events) < Len(Append(events, e))
  BY ONLY <1>1
<1>3. QED
  BY ONLY Inv, Inv', TaleOK, Write(Append(events, e), hops), <1>2, WriteKeepsTale

LEMMA RouteKeepsTale ==
  ASSUME Inv, Inv', TaleOK, NEW route \in Seq(Ids), ApplyRoute(route)
  PROVE  TaleOK'
<1>1. PICK hops, ids, new, order :
        /\ hops \in Hidden
        /\ new = Only(ids, Range(ids) \ Range(Served(events, hops)))
        /\ ids = Resolve(IdRows, redirect, hops, route)
        /\ Write(events \o [n \in DOMAIN new |-> [type |-> "add_component", id |-> new[n]]]
                        \o <<[type |-> "reorder", order |-> order]>>, hops)
  BY ONLY ApplyRoute(route) DEF ApplyRoute
<1>2. PICK adds, last, E : /\ adds = [n \in DOMAIN new |-> [type |-> "add_component", id |-> new[n]]]
                           /\ last = [type |-> "reorder", order |-> order]
                           /\ E = Events(Ids)
  OBVIOUS
<1>3. events \in Seq(E)
  BY ONLY Inv, <1>2 DEF Inv, LogOK
<1>4. \E N \in Nat : DOMAIN new = 1..N
  <2>1. IdsOK
    BY ONLY Inv DEF Inv
  <2>2. ids \in Seq(Ids)
    BY ONLY <1>1, <2>1, route \in Seq(Ids), ResolveIs
  <2>3. new \in Seq(Ids)
    BY ONLY <1>1, <2>2, OnlyKeeps
  <2>4. DOMAIN new = 1..Len(new) /\ Len(new) \in Nat
    BY ONLY <2>3
  <2>5. QED
    BY ONLY <2>4
<1>5. PICK X : adds \in Seq(X) /\ last \in X /\ E \subseteq X
  <2>1. PICK N \in Nat : DOMAIN new = 1..N
    BY ONLY <1>4, Zenon
  <2>2. PICK X : X = {adds[n] : n \in 1..N} \cup {last} \cup E
    OBVIOUS
  <2>3. adds \in [1..N -> X]
    BY ONLY <1>2, <2>1, <2>2
  <2>4. adds \in Seq(X)
    BY ONLY <2>3
  <2>5. QED
    BY ONLY <2>2, <2>4
<1>6. events \in Seq(X)
  BY ONLY <1>3, <1>5, SeqWidens
<1>7. Len(events) < Len(events \o adds \o <<last>>)
  BY ONLY <1>5, <1>6
<1>8. QED
  BY ONLY Inv, Inv', TaleOK, <1>1, <1>2, <1>7, WriteKeepsTale

(* The catalog's side. *)
LEMMA ChangeKeepsTale ==
  ASSUME TaleOK, Change, steady' \subseteq steady, status' \in [Tours -> Live \cup Fates]
  PROVE  TaleOK'
<1>1. draft' = draft
  BY ONLY Change DEF Change, saved
<1>2. QED
  BY ONLY TaleOK, <1>1, steady' \subseteq steady, status' \in [Tours -> Live \cup Fates]
     DEF TaleOK, Drafts, Known, Named

LEMMA GoesKeepsTale ==
  ASSUME TaleOK, NEW i, NEW to, Goes(i, to)
  PROVE  TaleOK'
<1>1. Change /\ steady' \subseteq steady /\ status' = status
  BY ONLY Goes(i, to) DEF Goes
<1>2. status' \in [Tours -> Live \cup Fates]
  BY ONLY TaleOK, <1>1 DEF TaleOK
<1>3. QED
  BY ONLY TaleOK, <1>1, <1>2, ChangeKeepsTale

LEMMA NextKeepsTale ==
  ASSUME Inv, Inv', TaleOK, [Next]_vars
  PROVE  TaleOK'
<1>1. status \in [Tours -> Live \cup Fates]
  BY ONLY TaleOK DEF TaleOK
<1>2. ASSUME NEW e, NEW hops, Write(Append(events, e), hops) PROVE TaleOK'
  BY ONLY Inv, Inv', TaleOK, <1>2, AppendKeepsTale
<1>3. ASSUME NEW i, AddComponent(i) PROVE TaleOK'
  BY ONLY <1>2, <1>3 DEF AddComponent
<1>4. ASSUME NEW i, RemoveComponent(i) PROVE TaleOK'
  BY ONLY <1>2, <1>4 DEF RemoveComponent
<1>5. ASSUME NEW i, AddDay(i) PROVE TaleOK'
  BY ONLY <1>2, <1>5 DEF AddDay
<1>6. ASSUME RemoveDay PROVE TaleOK'
  BY ONLY <1>2, <1>6 DEF RemoveDay
<1>7. ASSUME NEW order, Reorder(order) PROVE TaleOK'
  BY ONLY <1>2, <1>7 DEF Reorder
<1>8. ASSUME NEW t \in Tours, ApplyRoute(RouteOf(t)) PROVE TaleOK'
  <2>1. IdsOK /\ TablesOK
    BY ONLY Inv DEF Inv
  <2>2. RouteOf(t) \in Seq(Ids)
    BY ONLY <2>1, RouteIs
  <2>3. QED
    BY ONLY Inv, Inv', TaleOK, <1>8, <2>2, RouteKeepsTale
<1>9. ASSUME NEW i, Rebuild(i) PROVE TaleOK'
  BY ONLY TaleOK, <1>9, GoesKeepsTale DEF Rebuild
<1>10. ASSUME NEW i, NEW j, Merge(i, j) PROVE TaleOK'
  BY ONLY TaleOK, <1>10, GoesKeepsTale DEF Merge
<1>11. ASSUME NEW i, Drop(i) PROVE TaleOK'
  <2>1. Change /\ steady' = steady /\ status' = status
    BY ONLY <1>11 DEF Drop
  <2>2. QED
    BY ONLY TaleOK, <1>1, <2>1, ChangeKeepsTale
<1>12. ASSUME NEW t \in Tours, NEW s \in Fates, SetStatus(t, s) PROVE TaleOK'
  <2>1. Change /\ steady' = steady /\ status' = [status EXCEPT ![t] = s]
    BY ONLY <1>12 DEF SetStatus
  <2>2. status' \in [Tours -> Live \cup Fates]
    BY ONLY <1>1, <2>1, s \in Fates
  <2>3. QED
    BY ONLY TaleOK, <2>1, <2>2, ChangeKeepsTale
<1>13. ASSUME UNCHANGED vars PROVE TaleOK'
  <2>1. draft' = draft /\ steady' = steady /\ status' = status
    BY ONLY <1>13 DEF vars, saved, cis
  <2>2. QED
    BY ONLY TaleOK, <2>1 DEF TaleOK, Drafts, Known, Named
<1>14. QED
  BY ONLY [Next]_vars, <1>3, <1>4, <1>5, <1>6, <1>7, <1>8, <1>9, <1>10, <1>11, <1>12, <1>13 DEF Next

(* A stop listed apart is still named as long as its id stands, and the reason   *)
(* is the one its tour's fate gives, whatever views can be read                  *)
(* (events._carried, availability.stop_reason).                                  *)
THEOREM ReasonsStand == Spec => []GoneIsExplained
<1>1. Init => Inv /\ TaleOK
  BY InitKeeps, TaleAtFirst
<1>2. Inv /\ TaleOK /\ [Next]_vars => (Inv /\ TaleOK)'
  BY NextKeeps, NextKeepsTale
<1>3. Inv /\ TaleOK => GoneIsExplained
  BY TaleIsEnough
<1>4. QED
  BY <1>1, <1>2, <1>3, PTL DEF Spec

-----------------------------------------------------------------------------
(* Texts. *)

(* Texts of tour days, and an entry that may take one. *)
TextsOK(texts) == \A k \in DOMAIN texts : k = <<k[1], k[2]>> /\ k[2] \in Nat

EntryOK(e) == {"tour", "idx"} \subseteq DOMAIN e /\ e.idx \in Nat \cup {None}

(* A text an entry is moved to is one that is free and names its stop. *)
LEMMA RedirectIs ==
  ASSUME NEW e, EntryOK(e), NEW texts, TextsOK(texts), NEW gone
  PROVE  Redirect(e, texts, gone) # None => OwnKey(e) # None /\ Redirect(e, texts, gone) \in Free(e, texts, gone)
<1>1. PICK F : F = Free(e, texts, gone)
  OBVIOUS
<1>2. SUFFICES ASSUME OwnKey(e) # None, F # {} PROVE Redirect(e, texts, gone) \in F
  BY <1>1 DEF Redirect
<1>3. e.idx \in Nat
  BY ONLY EntryOK(e), <1>2 DEF OwnKey, EntryOK
<1>4. \A k \in F : k[2] \in Nat
  BY ONLY <1>1, TextsOK(texts) DEF TextsOK, Free
<1>5. \A k \in F : Off(k, e) \in Nat
  BY ONLY <1>3, <1>4 DEF Off
<1>6. PICK near \in F : \A o \in F : Off(near, e) <= Off(o, e)
  <2>1. PICK T : T = {Off(k, e) : k \in F}
    OBVIOUS
  <2>2. T \in SUBSET Nat /\ T # {}
    BY ONLY <1>2, <1>5, <2>1
  <2>3. PICK x \in T : \A y \in T : x <= y
    BY ONLY <2>2, LeastInNat
  <2>4. QED
    BY ONLY <2>1, <2>3
<1>7. PICK k \in F : Off(k, e) = Off(near, e) /\ \A o \in F : Off(o, e) = Off(near, e) => k[2] <= o[2]
  <2>1. PICK T : T = {o[2] : o \in {k \in F : Off(k, e) = Off(near, e)}}
    OBVIOUS
  <2>2. T \in SUBSET Nat /\ T # {}
    BY ONLY <1>4, <1>6, <2>1
  <2>3. PICK x \in T : \A y \in T : x <= y
    BY ONLY <2>2, LeastInNat
  <2>4. QED
    BY ONLY <2>1, <2>3
<1>8. \A o \in F : Off(k, e) < Off(o, e) \/ (Off(k, e) = Off(o, e) /\ k[2] <= o[2])
  <2>1. ASSUME NEW o \in F PROVE Off(k, e) < Off(o, e) \/ (Off(k, e) = Off(o, e) /\ k[2] <= o[2])
    <3>1. PICK a, b, c : a = Off(k, e) /\ b = Off(o, e) /\ c = Off(near, e)
      OBVIOUS
    <3>2. a \in Nat /\ b \in Nat /\ a = c /\ c <= b /\ (b = c => k[2] <= o[2])
      BY ONLY <1>5, <1>6, <1>7, <3>1
    <3>3. QED
      BY ONLY <3>1, <3>2
  <2>2. QED
    BY ONLY <2>1
<1>9. Redirect(e, texts, gone) =
        CHOOSE x \in F : \A o \in F : Off(x, e) < Off(o, e) \/ (Off(x, e) = Off(o, e) /\ x[2] <= o[2])
  BY ONLY <1>1, <1>2 DEF Redirect
<1>10. QED
  BY ONLY <1>8, <1>9

(* The first place there is. *)
LEMMA EarliestIs ==
  ASSUME NEW N \in Nat, NEW has \in SUBSET (1..N), has # {}
  PROVE  (CHOOSE n \in has : \A o \in has : n <= o) \in 1..N
<1>1. has \in SUBSET Nat
  OBVIOUS
<1>2. \E m \in has : \A o \in has : m <= o
  BY ONLY <1>1, has # {}, LeastInNat
<1>3. QED
  BY ONLY <1>2, has \in SUBSET (1..N)

(* The first key is the key of one of the entries. *)
LEMMA FirstKeyIs ==
  ASSUME NEW S, NEW entries \in Seq(S), NEW texts, NEW gone
  PROVE  /\ FirstKey(entries, LAMBDA e : Confirmed(e, texts)) # None =>
              \E e \in Range(entries) : FirstKey(entries, LAMBDA x : Confirmed(x, texts)) = Confirmed(e, texts)
         /\ FirstKey(entries, LAMBDA e : OwnText(e, texts)) # None =>
              \E e \in Range(entries) : FirstKey(entries, LAMBDA x : OwnText(x, texts)) = OwnText(e, texts)
         /\ FirstKey(entries, LAMBDA e : Redirect(e, texts, gone)) # None =>
              \E e \in Range(entries) : FirstKey(entries, LAMBDA x : Redirect(x, texts, gone)) = Redirect(e, texts, gone)
<1>1. PICK N : N \in Nat /\ DOMAIN entries = 1..N
  <2>1. Len(entries) \in Nat /\ DOMAIN entries = 1..Len(entries)
    BY ONLY entries \in Seq(S)
  <2>2. QED
    BY ONLY <2>1
<1>2. \A n \in 1..N : entries[n] \in Range(entries)
  BY ONLY <1>1 DEF Range
<1>3. ASSUME FirstKey(entries, LAMBDA e : Confirmed(e, texts)) # None
      PROVE  \E e \in Range(entries) : FirstKey(entries, LAMBDA x : Confirmed(x, texts)) = Confirmed(e, texts)
  <2>1. PICK has : has = {n \in 1..N : Confirmed(entries[n], texts) # None}
    OBVIOUS
  <2>2. PICK n : n = CHOOSE m \in has : \A o \in has : m <= o
    OBVIOUS
  <2>3. FirstKey(entries, LAMBDA e : Confirmed(e, texts)) = IF has = {} THEN None ELSE Confirmed(entries[n], texts)
    BY ONLY <1>1, <2>1, <2>2 DEF FirstKey
  <2>4. has # {} /\ has \in SUBSET (1..N)
    BY ONLY <1>3, <2>1, <2>3
  <2>5. n \in 1..N
    BY ONLY <1>1, <2>2, <2>4, EarliestIs
  <2>6. QED
    BY ONLY <1>2, <2>3, <2>4, <2>5
<1>4. ASSUME FirstKey(entries, LAMBDA e : OwnText(e, texts)) # None
      PROVE  \E e \in Range(entries) : FirstKey(entries, LAMBDA x : OwnText(x, texts)) = OwnText(e, texts)
  <2>1. PICK has : has = {n \in 1..N : OwnText(entries[n], texts) # None}
    OBVIOUS
  <2>2. PICK n : n = CHOOSE m \in has : \A o \in has : m <= o
    OBVIOUS
  <2>3. FirstKey(entries, LAMBDA e : OwnText(e, texts)) = IF has = {} THEN None ELSE OwnText(entries[n], texts)
    BY ONLY <1>1, <2>1, <2>2 DEF FirstKey
  <2>4. has # {} /\ has \in SUBSET (1..N)
    BY ONLY <1>4, <2>1, <2>3
  <2>5. n \in 1..N
    BY ONLY <1>1, <2>2, <2>4, EarliestIs
  <2>6. QED
    BY ONLY <1>2, <2>3, <2>4, <2>5
<1>5. ASSUME FirstKey(entries, LAMBDA e : Redirect(e, texts, gone)) # None
      PROVE  \E e \in Range(entries) : FirstKey(entries, LAMBDA x : Redirect(x, texts, gone)) = Redirect(e, texts, gone)
  <2>1. PICK has : has = {n \in 1..N : Redirect(entries[n], texts, gone) # None}
    OBVIOUS
  <2>2. PICK n : n = CHOOSE m \in has : \A o \in has : m <= o
    OBVIOUS
  <2>3. FirstKey(entries, LAMBDA e : Redirect(e, texts, gone)) = IF has = {} THEN None ELSE Redirect(entries[n], texts, gone)
    BY ONLY <1>1, <2>1, <2>2 DEF FirstKey
  <2>4. has # {} /\ has \in SUBSET (1..N)
    BY ONLY <1>5, <2>1, <2>3
  <2>5. n \in 1..N
    BY ONLY <1>1, <2>2, <2>4, EarliestIs
  <2>6. QED
    BY ONLY <1>2, <2>3, <2>4, <2>5
<1>6. QED
  BY ONLY <1>3, <1>4, <1>5

(* What a day of the itinerary has. *)
LEMMA OfDayIs ==
  ASSUME NEW S, NEW t \in Seq(S), NEW d
  PROVE  OfDay(t, d) \in Seq(S) /\ Range(OfDay(t, d)) \subseteq Range(t)
<1>1. PICK T : T = {e \in Range(t) : e.day = d}
  OBVIOUS
<1>2. OfDay(t, d) = Only(t, T)
  BY ONLY <1>1 DEF OfDay
<1>3. QED
  BY ONLY <1>1, <1>2, t \in Seq(S), OnlyKeeps

(* What a day is told: nothing, an own text, or a free one that is told of no  *)
(* day before.                                                                 *)
Fair(t, texts, keys, d) ==
  \/ keys[d] = None
  \/ keys[d] \in OwnKeys(OfDay(t, d))
  \/ /\ \E e \in Range(OfDay(t, d)) : keys[d] \in Free(e, texts, OwnKeys(t))
     /\ \A o \in 1..(d - 1) : keys[o] # keys[d]

(* The days told, and what is taken then. *)
Told(t, texts, K, d) ==
  {p \in [keys : Seq(K \cup {None}), taken : SUBSET K] :
     /\ Len(p.keys) = d
     /\ \A n \in 1..d : Fair(t, texts, p.keys, n) /\ (p.keys[n] = None \/ p.keys[n] \in p.taken)}

FirstSure(t, texts, d) == FirstKey(OfDay(t, d), LAMBDA e : Confirmed(e, texts))

FirstOwn(t, texts, d) == FirstKey(OfDay(t, d), LAMBDA e : OwnText(e, texts))

FirstMove(t, texts, d, gone) == FirstKey(OfDay(t, d), LAMBDA e : Redirect(e, texts, gone))

Sure(t, texts) == [d \in 1..LastDay(t) |-> FirstSure(t, texts, d)]

Chosen(t, texts, d, gone) ==
  IF FirstMove(t, texts, d, gone) # None THEN FirstMove(t, texts, d, gone) ELSE FirstOwn(t, texts, d)

(* A key of a day that is not moved is its own. *)
LEMMA OwnIs ==
  ASSUME NEW S, NEW t \in Seq(S), NEW texts, NEW d
  PROVE  /\ FirstSure(t, texts, d) \in OwnKeys(OfDay(t, d)) \cup {None}
         /\ FirstOwn(t, texts, d) \in OwnKeys(OfDay(t, d)) \cup {None}
         /\ OwnKeys(OfDay(t, d)) \subseteq OwnKeys(t)
<1>1. PICK day, P, Q : /\ day = OfDay(t, d)
                       /\ P = FirstKey(day, LAMBDA e : Confirmed(e, texts))
                       /\ Q = FirstKey(day, LAMBDA e : OwnText(e, texts))
  OBVIOUS
<1>2. day \in Seq(S) /\ Range(day) \subseteq Range(t)
  BY ONLY <1>1, t \in Seq(S), OfDayIs
<1>3. P # None => \E e \in Range(day) : P = Confirmed(e, texts)
  BY ONLY <1>1, <1>2, FirstKeyIs
<1>4. Q # None => \E e \in Range(day) : Q = OwnText(e, texts)
  BY ONLY <1>1, <1>2, FirstKeyIs
<1>5. \A e : Confirmed(e, texts) \in {OwnKey(e), None} /\ OwnText(e, texts) \in {OwnKey(e), None}
  BY ONLY TRUE DEF Confirmed, OwnText
<1>6. P \in OwnKeys(day) \cup {None} /\ Q \in OwnKeys(day) \cup {None}
  BY ONLY <1>3, <1>4, <1>5 DEF OwnKeys
<1>7. OwnKeys(day) \subseteq OwnKeys(t)
  BY ONLY <1>2 DEF OwnKeys
<1>8. QED
  BY ONLY <1>1, <1>6, <1>7 DEF FirstSure, FirstOwn

LEMMA ChosenIs ==
  ASSUME NEW S, NEW t \in Seq(S), \A e \in Range(t) : EntryOK(e),
         NEW texts, TextsOK(texts), NEW d, NEW gone
  PROVE  \/ Chosen(t, texts, d, gone) \in OwnKeys(OfDay(t, d)) \cup {None}
         \/ \E e \in Range(OfDay(t, d)) : Chosen(t, texts, d, gone) \in Free(e, texts, gone)
<1>1. PICK day, P : day = OfDay(t, d) /\ P = FirstKey(day, LAMBDA e : Redirect(e, texts, gone))
  OBVIOUS
<1>2. day \in Seq(S) /\ Range(day) \subseteq Range(t)
  BY ONLY <1>1, t \in Seq(S), OfDayIs
<1>3. P # None => \E e \in Range(day) : P = Redirect(e, texts, gone)
  BY ONLY <1>1, <1>2, FirstKeyIs
<1>4. P # None => \E e \in Range(day) : P \in Free(e, texts, gone)
  BY ONLY <1>2, <1>3, TextsOK(texts), \A e \in Range(t) : EntryOK(e), RedirectIs
<1>5. FirstOwn(t, texts, d) \in OwnKeys(OfDay(t, d)) \cup {None}
  BY ONLY t \in Seq(S), OwnIs
<1>6. FirstMove(t, texts, d, gone) = P
  BY ONLY <1>1 DEF FirstMove
<1>7. QED
  BY ONLY <1>1, <1>4, <1>5, <1>6 DEF Chosen

Tell(p, key) == [keys |-> Append(p.keys, key), taken |-> p.taken \cup ({key} \ {None})]

(* One more day is told. *)
LEMMA TellIs ==
  ASSUME NEW t, NEW texts, NEW K, NEW d \in Nat, NEW p \in Told(t, texts, K, d), NEW key \in K \cup {None},
         \/ key \in OwnKeys(OfDay(t, d + 1)) \cup {None}
         \/ \E e \in Range(OfDay(t, d + 1)) : key \in Free(e, texts, OwnKeys(t) \cup p.taken)
  PROVE  Tell(p, key) \in Told(t, texts, K, d + 1)
<1>1. PICK s, m, new, more, Y : /\ s = p.keys /\ m = p.taken /\ new = Append(s, key) /\ more = m \cup ({key} \ {None})
                                /\ Y = K \cup {None}
  OBVIOUS
<1>2. /\ s \in Seq(Y) /\ m \in SUBSET K /\ Len(s) = d
      /\ \A n \in 1..d : Fair(t, texts, s, n) /\ (s[n] = None \/ s[n] \in m)
  BY ONLY <1>1, p \in Told(t, texts, K, d) DEF Told
<1>3. /\ new \in Seq(Y) /\ Len(new) = d + 1 /\ new[d + 1] = key
      /\ \A n \in 1..d : new[n] = s[n]
  BY ONLY <1>1, <1>2, key \in K \cup {None}, d \in Nat
<1>4. ASSUME NEW n \in 1..d PROVE Fair(t, texts, new, n) /\ (new[n] = None \/ new[n] \in more)
  <2>1. \A o \in 1..(n - 1) : o \in 1..d
    BY ONLY n \in 1..d, d \in Nat
  <2>2. new[n] = s[n] /\ \A o \in 1..(n - 1) : new[o] = s[o]
    BY ONLY <1>3, <2>1, n \in 1..d
  <2>3. Fair(t, texts, s, n) /\ (s[n] = None \/ s[n] \in m)
    BY ONLY <1>2, n \in 1..d
  <2>4. QED
    BY ONLY <1>1, <2>2, <2>3 DEF Fair
<1>5. Fair(t, texts, new, d + 1) /\ (new[d + 1] = None \/ new[d + 1] \in more)
  <2>1. CASE key \in OwnKeys(OfDay(t, d + 1)) \cup {None}
    BY ONLY <1>1, <1>3, <2>1 DEF Fair
  <2>2. ASSUME NEW e \in Range(OfDay(t, d + 1)), key \in Free(e, texts, OwnKeys(t) \cup m)
        PROVE  Fair(t, texts, new, d + 1)
    <3>1. key \in Free(e, texts, OwnKeys(t)) /\ key \notin m
      BY ONLY <2>2 DEF Free
    <3>2. CASE key = None
      BY ONLY <1>3, <3>2 DEF Fair
    <3>3. CASE key # None
      <4>1. \A o \in 1..d : new[o] # key
        BY ONLY <1>2, <1>3, <3>1, <3>3
      <4>2. d + 1 - 1 = d
        BY ONLY d \in Nat
      <4>3. QED
        BY ONLY <1>3, <3>1, <4>1, <4>2, e \in Range(OfDay(t, d + 1)) DEF Fair
    <3>4. QED
      BY ONLY <3>2, <3>3
  <2>3. new[d + 1] = None \/ new[d + 1] \in more
    BY ONLY <1>1, <1>3
  <2>4. QED
    BY ONLY <1>1, <2>1, <2>2, <2>3, \/ key \in OwnKeys(OfDay(t, d + 1)) \cup {None}
                               \/ \E e \in Range(OfDay(t, d + 1)) : key \in Free(e, texts, OwnKeys(t) \cup p.taken)
<1>6. \A n \in 1..(d + 1) : n = d + 1 \/ n \in 1..d
  BY ONLY d \in Nat
<1>7. more \in SUBSET K
  BY ONLY <1>1, <1>2, key \in K \cup {None}
<1>8. Tell(p, key) = [keys |-> new, taken |-> more]
  BY ONLY <1>1 DEF Tell
<1>9. [keys |-> new, taken |-> more] \in Told(t, texts, K, d + 1)
  <2>1. PICK q : q = [keys |-> new, taken |-> more]
    OBVIOUS
  <2>2. q \in [keys : Seq(Y), taken : SUBSET K] /\ q.keys = new /\ q.taken = more
    BY ONLY <1>3, <1>7, <2>1
  <2>3. \A n \in 1..(d + 1) : Fair(t, texts, new, n) /\ (new[n] = None \/ new[n] \in more)
    BY ONLY <1>4, <1>5, <1>6
  <2>4. QED
    BY ONLY <1>1, <1>3, <2>1, <2>2, <2>3 DEF Told
<1>10. QED
  BY ONLY <1>8, <1>9

(* No day is told what another is, or has as its own. *)
LEMMA ResolvedIs ==
  ASSUME NEW S, NEW t \in Seq(S), \A e \in Range(t) : EntryOK(e), LastDay(t) \in Nat,
         NEW texts, TextsOK(texts)
  PROVE  /\ DOMAIN ResolveDays(t, texts) = 1..LastDay(t)
         /\ \A d \in 1..LastDay(t) : Fair(t, texts, ResolveDays(t, texts), d)
<1>1. PICK L, sure, K, own, a, A :
        /\ L = LastDay(t) /\ sure = Sure(t, texts) /\ own = OwnKeys(t) /\ K = DOMAIN texts \cup own
        /\ a = [keys |-> <<>>, taken |-> Range(sure) \ {None}]
        /\ A = [keys : Seq(K \cup {None}), taken : SUBSET K]
  OBVIOUS
<1> DEFINE key(d, p) == IF sure[d] # None THEN sure[d] ELSE Chosen(t, texts, d, own \cup p.taken)
           step(d, p) == Tell(p, key(d, p))
           Def(f) == [d \in 0..L |-> IF d = 0 THEN a ELSE step(d, f[d - 1])]
<1>2. \A d \in 1..L : sure[d] \in OwnKeys(OfDay(t, d)) \cup {None}
  <2>1. sure = [d \in 1..L |-> FirstSure(t, texts, d)]
    BY ONLY <1>1 DEF Sure
  <2>2. \A d : FirstSure(t, texts, d) \in OwnKeys(OfDay(t, d)) \cup {None}
    BY ONLY t \in Seq(S), OwnIs
  <2>3. QED
    BY ONLY <2>1, <2>2
<1>3. \A d : OwnKeys(OfDay(t, d)) \subseteq own
  BY ONLY <1>1, t \in Seq(S), OwnIs
<1>4. ASSUME NEW d, NEW gone
      PROVE  \/ Chosen(t, texts, d, gone) \in OwnKeys(OfDay(t, d)) \cup {None}
             \/ \E e \in Range(OfDay(t, d)) : Chosen(t, texts, d, gone) \in Free(e, texts, gone)
  BY ONLY t \in Seq(S), \A e \in Range(t) : EntryOK(e), TextsOK(texts), ChosenIs
<1>5. \A d \in 1..L : \A p :
        /\ key(d, p) \in K \cup {None}
        /\ \/ key(d, p) \in OwnKeys(OfDay(t, d)) \cup {None}
           \/ \E e \in Range(OfDay(t, d)) : key(d, p) \in Free(e, texts, own \cup p.taken)
  <2>1. ASSUME NEW d \in 1..L, NEW p
        PROVE  \/ key(d, p) \in OwnKeys(OfDay(t, d)) \cup {None}
               \/ \E e \in Range(OfDay(t, d)) : key(d, p) \in Free(e, texts, own \cup p.taken)
    BY ONLY <1>2, <1>4, d \in 1..L
  <2>2. \A e, gone : Free(e, texts, gone) \subseteq DOMAIN texts
    BY ONLY TRUE DEF Free
  <2> HIDE DEF key
  <2>3. QED
    BY ONLY <1>1, <1>3, <2>1, <2>2
<1>6. a \in A /\ a \in Told(t, texts, K, 0)
  <2>1. Range(sure) \ {None} \in SUBSET K
    <3>1. DOMAIN sure = 1..L
      BY ONLY <1>1 DEF Sure
    <3>2. \A d \in 1..L : sure[d] \in own \cup {None}
      BY ONLY <1>2, <1>3
    <3>3. QED
      BY ONLY <1>1, <3>1, <3>2 DEF Range
  <2>2. <<>> \in Seq(K \cup {None}) /\ Len(<<>>) = 0
    OBVIOUS
  <2>3. a \in A
    BY ONLY <1>1, <2>1, <2>2
  <2>4. a.keys = <<>>
    BY ONLY <1>1
  <2>5. QED
    BY ONLY <1>1, <2>2, <2>3, <2>4 DEF Told
<1>7. ASSUME NEW d \in 1..L, NEW p \in A PROVE step(d, p) \in A
  <2>1. PICK k : k = key(d, p)
    OBVIOUS
  <2>2. k \in K \cup {None}
    BY ONLY <1>5, <2>1, d \in 1..L
  <2>3. PICK Y, s, m : Y = K \cup {None} /\ s = p.keys /\ m = p.taken
    OBVIOUS
  <2>4. s \in Seq(Y) /\ m \in SUBSET K
    BY ONLY <1>1, <2>3, p \in A
  <2>5. Append(s, k) \in Seq(Y) /\ m \cup ({k} \ {None}) \in SUBSET K
    BY ONLY <2>2, <2>3, <2>4
  <2>6. step(d, p) = [keys |-> Append(s, k), taken |-> m \cup ({k} \ {None})]
    BY ONLY <2>1, <2>3 DEF Tell
  <2>7. PICK q : q = [keys |-> Append(s, k), taken |-> m \cup ({k} \ {None})]
    OBVIOUS
  <2>8. q \in A
    BY ONLY <1>1, <2>3, <2>5, <2>7
  <2>9. step(d, p) = q
    BY ONLY <2>6, <2>7
  <2> HIDE DEF step
  <2>10. QED
    BY ONLY <2>8, <2>9
<1> HIDE DEF key, step
<1>8. L \in Nat
  BY ONLY <1>1, LastDay(t) \in Nat
<1>9. PICK Step : Step = [n \in 1..L |-> [p \in A |-> step(n, p)]]
  OBVIOUS
<1>10. PICK f \in [0..L -> A] : f[0] = a /\ \A n \in 1..L : f[n] = Step[n][f[n - 1]]
  <2>1. Step \in [1..L -> [A -> A]]
    BY ONLY <1>7, <1>9
  <2>2. PICK f : Made(f, L, A, a, Step)
    BY ONLY <1>6, <1>8, <2>1, Iterates
  <2>3. QED
    BY ONLY <2>2 DEF Made
<1>11. \A n \in 1..L : f[n] = step(n, f[n - 1])
  <2>1. ASSUME NEW n \in 1..L PROVE f[n] = step(n, f[n - 1])
    <3>1. f[n - 1] \in A
      BY ONLY <1>8, <1>10
    <3>2. QED
      BY ONLY <1>9, <1>10, <3>1
  <2>2. QED
    BY ONLY <2>1
<1>12. f = Def(f)
  <2>1. f = [n \in 0..L |-> f[n]] /\ \A n \in 0..L : n # 0 => n \in 1..L
    BY ONLY <1>8, <1>10
  <2>2. \A n \in 0..L : f[n] = IF n = 0 THEN a ELSE step(n, f[n - 1])
    BY ONLY <1>10, <1>11, <2>1
  <2>3. QED
    BY ONLY <2>1, <2>2
<1>13. PICK F : F = Def(F) /\ ResolveDays(t, texts) = F[L].keys
  <2> DEFINE G == CHOOSE g : g = Def(g)
             Raw(g) == [d \in 0..L |->
                          IF d = 0 THEN [keys |-> <<>>, taken |-> Range(sure) \ {None}]
                          ELSE LET before == g[d - 1]
                                   k == IF sure[d] # None THEN sure[d]
                                        ELSE Chosen(t, texts, d, own \cup before.taken)
                               IN [keys |-> Append(before.keys, k), taken |-> before.taken \cup ({k} \ {None})]]
             H == CHOOSE g : g = Raw(g)
  <2>1. G = Def(G)
    <3> HIDE DEF Def
    <3>1. QED
      BY ONLY <1>12
  <2>2. \A g : Def(g) = Raw(g)
    BY ONLY <1>1 DEF step, key, Tell
  <2>3. ResolveDays(t, texts) = H[L].keys
    BY ONLY <1>1 DEF ResolveDays, Chosen, Sure, FirstSure, FirstMove, FirstOwn
  <2>4. G = H
    <3> HIDE DEF Def, Raw
    <3>1. QED
      BY ONLY <2>2
  <2>5. QED
    <3> HIDE DEF Def, Raw
    <3>1. QED
      BY ONLY <2>1, <2>3, <2>4
<1>14. F[0] = a /\ \A n \in 1..L : F[n] = step(n, F[n - 1])
  <2>1. 0 \in 0..L /\ \A n \in 1..L : n \in 0..L /\ n # 0
    BY ONLY <1>8
  <2>2. QED
    BY ONLY <1>13, <2>1
<1>15. F[L] \in Told(t, texts, K, L)
  <2> DEFINE Y == {n \in Nat : n <= L => F[n] \in Told(t, texts, K, n)}
  <2>1. 0 \in Y
    BY ONLY <1>6, <1>14
  <2>2. ASSUME NEW n \in Nat, n \in Y PROVE n + 1 \in Y
    <3>1. SUFFICES ASSUME n + 1 <= L PROVE F[n + 1] \in Told(t, texts, K, n + 1)
      OBVIOUS
    <3>2. n + 1 \in 1..L /\ n + 1 - 1 = n /\ F[n] \in Told(t, texts, K, n)
      BY ONLY <1>8, <2>2, <3>1, n \in Nat
    <3>3. PICK p, k : p = F[n] /\ k = key(n + 1, p)
      OBVIOUS
    <3>4. F[n + 1] = Tell(p, k)
      BY ONLY <1>14, <3>2, <3>3 DEF step
    <3>5. /\ k \in K \cup {None}
          /\ \/ k \in OwnKeys(OfDay(t, n + 1)) \cup {None}
             \/ \E e \in Range(OfDay(t, n + 1)) : k \in Free(e, texts, OwnKeys(t) \cup p.taken)
      BY ONLY <1>1, <1>5, <3>2, <3>3
    <3>6. Tell(p, k) \in Told(t, texts, K, n + 1)
      BY ONLY <3>2, <3>3, <3>5, n \in Nat, TellIs
    <3>7. QED
      BY ONLY <3>4, <3>6
  <2>3. L \in Y
    <3> HIDE DEF Y
    <3>1. QED
      BY ONLY <1>8, <2>1, <2>2, Induction
  <2>4. QED
    BY ONLY <1>8, <2>3
<1>16. PICK keys : keys = F[L].keys
  OBVIOUS
<1>17. keys \in Seq(K \cup {None}) /\ Len(keys) = L /\ \A n \in 1..L : Fair(t, texts, keys, n)
  BY ONLY <1>15, <1>16 DEF Told
<1>18. DOMAIN keys = 1..L
  BY ONLY <1>17
<1>19. QED
  BY ONLY <1>1, <1>13, <1>16, <1>17, <1>18

-----------------------------------------------------------------------------
(* The texts of the trip. *)

LEMMA TextsAre ==
  ASSUME NEW b \in Books
  PROVE  TextsOK(Texts(b))
<1>1. PICK S, read, texts : /\ S = {t \in Tours : status[t] \in Live}
                            /\ read = S \cap DOMAIN b
                            /\ texts = Texts(b)
  OBVIOUS
<1>2. texts = [k \in UNION {{t} \X DOMAIN ParseDays(b[t]) : t \in read} |-> ParseDays(b[k[1]])[k[2]]]
  BY ONLY <1>1 DEF Texts, LoadForTours
<1>3. DOMAIN texts = UNION {{t} \X DOMAIN ParseDays(b[t]) : t \in read}
  BY ONLY <1>2
<1>4. ASSUME NEW t \in read PROVE DOMAIN ParseDays(b[t]) \subseteq Nat
  <2>1. t \in DOMAIN b
    BY ONLY <1>1, t \in read
  <2>2. b[t] \in Seq([day : Nat, names : SUBSET DOMAIN At])
    BY ONLY <2>1, b \in Books, BooksAssumption
  <2>3. \A x \in Range(b[t]) : x.day \in Nat
    <3>1. PICK s, R : s = b[t] /\ R = [day : Nat, names : SUBSET DOMAIN At]
      OBVIOUS
    <3>2. s \in Seq(R)
      BY ONLY <2>2, <3>1
    <3>3. Range(s) \subseteq R
      BY ONLY <3>2 DEF Range
    <3>4. \A x \in R : x.day \in Nat
      BY ONLY <3>1
    <3>5. QED
      BY ONLY <3>1, <3>3, <3>4
  <2>4. DOMAIN ParseDays(b[t]) = {x.day : x \in Range(b[t])}
    BY ONLY TRUE DEF ParseDays
  <2>5. QED
    BY ONLY <2>3, <2>4
<1>5. ASSUME NEW k \in DOMAIN texts PROVE k = <<k[1], k[2]>> /\ k[2] \in Nat
  <2>1. PICK t \in read : k \in {t} \X DOMAIN ParseDays(b[t])
    BY ONLY <1>3
  <2>2. DOMAIN ParseDays(b[t]) \subseteq Nat
    BY ONLY <1>4
  <2>3. QED
    BY ONLY <2>1, <2>2
<1>6. QED
  BY ONLY <1>1, <1>5 DEF TextsOK

(* The last day of the trip is a number. *)
LEMMA TripIs ==
  ASSUME Inv
  PROVE  /\ Trip \in Seq(Range(Trip)) /\ \A e \in Range(Trip) : FromRow(e) /\ EntryOK(e)
         /\ LastDay(Trip) \in Nat
<1>1. PICK t : t = Trip
  OBVIOUS
<1>2. t \in Seq(Range(t)) /\ \A e \in Range(t) : FromRow(e)
  <2>1. IdsOK /\ CatalogOK /\ events \in Seq(Events(Ids))
    BY ONLY Inv DEF Inv, TablesOK, LogOK
  <2>2. QED
    BY ONLY <1>1, <2>1, ItineraryIs DEF Trip
<1>3. ASSUME NEW e \in Range(t) PROVE EntryOK(e) /\ e.day \in Nat
  <2>1. FromRow(e)
    BY ONLY <1>2
  <2>2. catalog[e.id] \in [tour : Tours, idx : Nat \cup {None}, name : DOMAIN At]
    BY ONLY Inv, <2>1 DEF Inv, TablesOK, CatalogOK, FromRow
  <2>3. QED
    BY ONLY <2>1, <2>2 DEF FromRow, EntryOK
<1>4. LastDay(t) \in Nat
  <2>1. CASE t = <<>>
    BY ONLY <2>1 DEF LastDay
  <2>2. CASE t # <<>>
    <3>1. t[Len(t)] \in Range(t)
      BY ONLY <1>2, <2>2
    <3>2. LastDay(t) = t[Len(t)].day
      BY ONLY <2>2 DEF LastDay, Last
    <3>3. QED
      BY ONLY <1>3, <3>1, <3>2
  <2>3. QED
    BY ONLY <2>1, <2>2
<1>5. QED
  BY ONLY <1>1, <1>2, <1>3, <1>4

MovesTo(t, texts, e, k) == k[1] = e.tour /\ e.name \in texts[k] /\ k \notin OwnKeys(t)

(* A text that is free is of the tour, names the stop and is no stop's own. *)
LEMMA FreeIs ==
  ASSUME NEW t, NEW texts, NEW e, NEW k \in Free(e, texts, OwnKeys(t))
  PROVE  k \in DOMAIN texts /\ MovesTo(t, texts, e, k)
BY ONLY k \in Free(e, texts, OwnKeys(t)) DEF Free, MovesTo

ToldOnce(t, texts, told, d) ==
  told[d] # None /\ told[d] \notin OwnKeys(OfDay(t, d)) =>
    /\ \E e \in Range(OfDay(t, d)) : MovesTo(t, texts, e, told[d])
    /\ \A o \in DOMAIN told \ {d} : told[o] # told[d]

LEMMA FairIsOnce ==
  ASSUME NEW S, NEW t \in Seq(S), NEW texts, NEW N \in Nat, NEW told, DOMAIN told = 1..N,
         \A d \in 1..N : Fair(t, texts, told, d)
  PROVE  \A d \in 1..N : ToldOnce(t, texts, told, d)
<1>1. ASSUME NEW d \in 1..N, told[d] # None, told[d] \notin OwnKeys(OfDay(t, d))
      PROVE  ToldOnce(t, texts, told, d)
  <2>1. /\ \E e \in Range(OfDay(t, d)) : told[d] \in Free(e, texts, OwnKeys(t))
        /\ \A o \in 1..(d - 1) : told[o] # told[d]
    BY ONLY <1>1, d \in 1..N, \A n \in 1..N : Fair(t, texts, told, n) DEF Fair
  <2>2. PICK e \in Range(OfDay(t, d)) : MovesTo(t, texts, e, told[d])
    BY ONLY <2>1, FreeIs
  <2>3. told[d] \notin OwnKeys(t)
    BY ONLY <2>2 DEF MovesTo
  <2>4. ASSUME NEW o \in 1..N, o # d, told[o] = told[d] PROVE FALSE
    <3>1. d < o
      BY ONLY <2>1, <2>4, d \in 1..N, o \in 1..N
    <3>2. OwnKeys(OfDay(t, o)) \subseteq OwnKeys(t)
      BY ONLY t \in Seq(S), OwnIs
    <3>3. \A m \in 1..(o - 1) : told[m] # told[o]
      BY ONLY <1>1, <2>3, <2>4, <3>2, o \in 1..N, \A n \in 1..N : Fair(t, texts, told, n) DEF Fair
    <3>4. d \in 1..(o - 1)
      BY ONLY <3>1, d \in 1..N, o \in 1..N
    <3>5. QED
      BY ONLY <2>4, <3>3, <3>4
  <2>5. QED
    BY ONLY <2>2, <2>4, DOMAIN told = 1..N DEF ToldOnce
<1>2. QED
  BY ONLY <1>1 DEF ToldOnce

(* The hand-off's list moves an entry to such a text only. *)
LEMMA GuardedIs ==
  ASSUME NEW t, NEW texts, TextsOK(texts), NEW e, EntryOK(e)
  PROVE  \/ Guarded(e, texts, OwnKeys(t)) = e
         \/ /\ OwnKey(Guarded(e, texts, OwnKeys(t))) # None
            /\ MovesTo(t, texts, e, OwnKey(Guarded(e, texts, OwnKeys(t))))
<1>1. PICK g, own, moved : /\ own = OwnKeys(t) /\ g = Guarded(e, texts, own)
                           /\ moved = IF OwnKey(e) \in DOMAIN texts /\ ~Confirms(e, texts[OwnKey(e)])
                                      THEN Redirect(e, texts, own) ELSE None
  OBVIOUS
<1>2. g = IF moved = None THEN e ELSE [e EXCEPT !.idx = moved[2]]
  BY ONLY <1>1 DEF Guarded
<1>3. CASE moved = None
  BY ONLY <1>1, <1>2, <1>3
<1>4. CASE moved # None
  <2>1. OwnKey(e) # None /\ moved \in Free(e, texts, own)
    BY ONLY <1>1, <1>4, EntryOK(e), TextsOK(texts), RedirectIs
  <2>2. moved \in DOMAIN texts /\ MovesTo(t, texts, e, moved)
    BY ONLY <1>1, <2>1, FreeIs
  <2>3. moved = <<moved[1], moved[2]>> /\ moved[2] \in Nat /\ moved[1] = e.tour
    BY ONLY <2>2, TextsOK(texts) DEF TextsOK, MovesTo
  <2>4. g.idx = moved[2] /\ g.tour = e.tour
    BY ONLY <1>2, <1>4, EntryOK(e) DEF EntryOK
  <2>5. e.tour # None
    BY ONLY <2>1 DEF OwnKey
  <2>6. OwnKey(g) = moved
    BY ONLY <2>3, <2>4, <2>5, NoneIsNoNumber DEF OwnKey
  <2>7. QED
    BY ONLY <1>1, <1>4, <2>2, <2>6
<1>5. QED
  BY ONLY <1>3, <1>4

LEMMA ToldIsEnough ==
  ASSUME Inv
  PROVE  NoTextToldTwice
<1>1. PICK trip : trip = Trip
  OBVIOUS
<1>2. /\ trip \in Seq(Range(trip)) /\ \A e \in Range(trip) : EntryOK(e)
      /\ LastDay(trip) \in Nat
  BY ONLY Inv, <1>1, TripIs
<1>3. ASSUME NEW b \in Books, NEW d \in DOMAIN ResolveDays(trip, Texts(b))
      PROVE  ToldOnce(trip, Texts(b), ResolveDays(trip, Texts(b)), d)
  <2>1. PICK texts, told : texts = Texts(b) /\ told = ResolveDays(trip, texts)
    OBVIOUS
  <2>2. TextsOK(texts)
    BY ONLY <2>1, TextsAre
  <2>3. DOMAIN told = 1..LastDay(trip) /\ \A n \in 1..LastDay(trip) : Fair(trip, texts, told, n)
    BY ONLY <1>2, <2>1, <2>2, ResolvedIs
  <2>4. \A n \in 1..LastDay(trip) : ToldOnce(trip, texts, told, n)
    BY ONLY <1>2, <2>3, FairIsOnce
  <2>5. QED
    BY ONLY <2>1, <2>3, <2>4, d \in DOMAIN ResolveDays(trip, Texts(b))
<1>4. ASSUME NEW b \in Books, NEW n \in DOMAIN trip
      PROVE  \/ OwnKey(GuardedDays(trip, Texts(b))[n]) = OwnKey(trip[n])
             \/ MovesTo(trip, Texts(b), trip[n], OwnKey(GuardedDays(trip, Texts(b))[n]))
  <2>1. PICK texts, e : texts = Texts(b) /\ e = trip[n]
    OBVIOUS
  <2>2. TextsOK(texts) /\ EntryOK(e)
    BY ONLY <1>2, <2>1, n \in DOMAIN trip, TextsAre DEF Range
  <2>3. GuardedDays(trip, texts)[n] = Guarded(e, texts, OwnKeys(trip))
    BY ONLY <2>1, n \in DOMAIN trip DEF GuardedDays
  <2>4. QED
    BY ONLY <2>1, <2>2, <2>3, GuardedIs
<1>5. QED
  BY ONLY <1>1, <1>3, <1>4 DEF NoTextToldTwice, ToldOnce, MovesTo

(* A day that tells another day's text tells one that names a stop of the day,   *)
(* is no stop's own and is told of no other day, however many days and tours     *)
(* compete for it (master_content.resolve_days, guarded_days).                   *)
THEOREM TextsAreToldOnce == Spec => []NoTextToldTwice
<1>1. Init => Inv
  BY InitKeeps
<1>2. Inv /\ [Next]_vars => Inv'
  BY NextKeeps
<1>3. Inv => NoTextToldTwice
  BY ToldIsEnough
<1>4. QED
  BY <1>1, <1>2, <1>3, PTL DEF Spec

-----------------------------------------------------------------------------
(* Legs. *)

(* Legs of the tours in X, and the tour days that one goes over. *)
Spans(X) == {l \in [tour : X, from : Nat, to : Nat] : l.from <= l.to}

Span(l) == [m \in 1..(l.to - l.from + 1) |-> <<l.tour, l.from + m - 1>>]

LEMMA SpanIs ==
  ASSUME NEW X, NEW l \in Spans(X)
  PROVE  /\ Span(l) \in Seq(X \X Nat) /\ Len(Span(l)) = l.to - l.from + 1 /\ Len(Span(l)) \in Nat \ {0}
         /\ Span(l)[Len(Span(l))] = <<l.tour, l.to>>
<1>1. PICK a, b, t, s, N : a = l.from /\ b = l.to /\ t = l.tour /\ s = Span(l) /\ N = b - a + 1
  OBVIOUS
<1>2. a \in Nat /\ b \in Nat /\ t \in X /\ a <= b
  BY ONLY <1>1, l \in Spans(X) DEF Spans
<1>3. N \in Nat \ {0} /\ s = [m \in 1..N |-> <<t, a + m - 1>>]
  BY ONLY <1>1, <1>2 DEF Span
<1>4. \A m \in 1..N : <<t, a + m - 1>> \in X \X Nat
  BY ONLY <1>2, <1>3
<1>5. s \in [1..N -> X \X Nat]
  BY ONLY <1>3, <1>4
<1>6. s \in Seq(X \X Nat) /\ Len(s) = N
  BY ONLY <1>3, <1>5
<1>7. s[N] = <<t, b>>
  <2>1. N \in 1..N /\ a + N - 1 = b
    BY ONLY <1>1, <1>2, <1>3
  <2>2. QED
    BY ONLY <1>3, <2>1
<1>8. QED
  BY ONLY <1>1, <1>3, <1>6, <1>7

WalksBy(f, X, legs) ==
  /\ f \in [0..Len(legs) -> Seq(X \X Nat)] /\ f[0] = <<>>
  /\ \A n \in 1..Len(legs) : f[n] = f[n - 1] \o Span(legs[n])

LEMMA WalksAre ==
  ASSUME NEW X, NEW legs \in Seq(Spans(X))
  PROVE  \E f : WalksBy(f, X, legs) /\ Walked(legs) = f[Len(legs)]
<1> DEFINE grow(n, s) == s \o Span(legs[n])
           Def(f) == [n \in 0..Len(legs) |->
                        IF n = 0 THEN <<>>
                        ELSE f[n - 1] \o [m \in 1..(legs[n].to - legs[n].from + 1) |-> <<legs[n].tour, legs[n].from + m - 1>>]]
<1>1. PICK Step, A, N, a : Step = [n \in 1..N |-> [s \in A |-> grow(n, s)]] /\ A = Seq(X \X Nat) /\ N = Len(legs) /\ a = <<>>
  OBVIOUS
<1>2. N \in Nat /\ a \in A
  BY ONLY <1>1, legs \in Seq(Spans(X))
<1>3. ASSUME NEW n \in 1..N, NEW s \in A PROVE grow(n, s) \in A
  <2>1. PICK l, D : l = legs[n] /\ D = X \X Nat
    OBVIOUS
  <2>2. l \in Spans(X)
    BY ONLY <1>1, <2>1, n \in 1..N, legs \in Seq(Spans(X))
  <2>3. Span(l) \in Seq(D)
    BY ONLY <2>1, <2>2, SpanIs
  <2>4. s \o Span(l) \in Seq(D)
    BY ONLY <1>1, <2>1, <2>3, s \in A, ConcatIs
  <2>5. QED
    BY ONLY <1>1, <2>1, <2>4
<1>4. PICK f \in [0..N -> A] : f[0] = a /\ \A n \in 1..N : f[n] = Step[n][f[n - 1]]
  <2> HIDE DEF grow
  <2>1. Step \in [1..N -> [A -> A]]
    BY ONLY <1>1, <1>3
  <2>2. PICK f : Made(f, N, A, a, Step)
    BY ONLY <1>2, <2>1, Iterates
  <2>3. QED
    BY ONLY <2>2 DEF Made
<1>5. \A n \in 1..N : f[n] = grow(n, f[n - 1])
  <2>1. ASSUME NEW n \in 1..N PROVE f[n] = grow(n, f[n - 1])
    <3>1. f[n - 1] \in A
      BY ONLY <1>2, <1>4
    <3> HIDE DEF grow
    <3>2. QED
      BY ONLY <1>1, <1>4, <3>1
  <2>2. QED
    BY ONLY <2>1
<1>6. f = Def(f)
  <2>1. f = [n \in 0..N |-> f[n]] /\ \A n \in 0..N : n # 0 => n \in 1..N
    BY ONLY <1>2, <1>4
  <2>2. \A n \in 0..N : f[n] = IF n = 0 THEN a ELSE grow(n, f[n - 1])
    <3> HIDE DEF grow
    <3>1. QED
      BY ONLY <1>4, <1>5, <2>1
  <2>3. f = [n \in 0..N |-> IF n = 0 THEN a ELSE grow(n, f[n - 1])]
    <3> HIDE DEF grow
    <3>1. QED
      BY ONLY <2>1, <2>2
  <2>4. QED
    BY ONLY <1>1, <2>3 DEF Span
<1>7. PICK F : F = Def(F) /\ Walked(legs) = F[N]
  <2> DEFINE G == CHOOSE g : g = Def(g)
  <2>1. G = Def(G)
    <3> HIDE DEF Def
    <3>1. QED
      BY ONLY <1>6
  <2>2. Walked(legs) = G[Len(legs)]
    BY ONLY TRUE DEF Walked
  <2>3. QED
    BY ONLY <1>1, <2>1, <2>2
<1>8. F = [n \in 0..N |-> IF n = 0 THEN a ELSE grow(n, F[n - 1])]
  BY ONLY <1>1, <1>7 DEF Span
<1>9. F[0] = a /\ \A n \in 1..N : F[n] = grow(n, F[n - 1])
  <2> HIDE DEF grow
  <2>1. 0 \in 0..N /\ \A n \in 1..N : n \in 0..N /\ n # 0
    BY ONLY <1>2
  <2>2. QED
    BY ONLY <1>8, <2>1
<1>10. \A n \in 0..N : F[n] \in A
  <2> HIDE DEF grow
  <2>1. Closed(F, N, A)
    BY ONLY <1>2, <1>3, <1>9 DEF Closed
  <2>2. QED
    BY ONLY <1>2, <2>1, Iterated
<1>11. F \in [0..N -> A]
  <2>1. F = [n \in 0..N |-> F[n]]
    <3> HIDE DEF grow
    <3>1. QED
      BY ONLY <1>8
  <2>2. QED
    BY ONLY <1>10, <2>1
<1>12. QED
  BY ONLY <1>1, <1>7, <1>9, <1>11 DEF WalksBy

(* Two walks go alike as far as their legs do. *)
LEMMA WalksAgree ==
  ASSUME NEW X, NEW f, NEW g, NEW a, NEW b, WalksBy(f, X, a), WalksBy(g, X, b),
         NEW k \in Nat, Len(a) \in Nat, Len(b) \in Nat, k <= Len(a), k <= Len(b), \A n \in 1..k : a[n] = b[n]
  PROVE  f[k] = g[k]
<1> DEFINE S == {n \in Nat : n <= k => f[n] = g[n]}
<1>1. 0 \in S
  BY ONLY WalksBy(f, X, a), WalksBy(g, X, b) DEF WalksBy
<1>2. ASSUME NEW n \in Nat, n \in S PROVE n + 1 \in S
  <2>1. SUFFICES ASSUME n + 1 <= k PROVE f[n + 1] = g[n + 1]
    OBVIOUS
  <2>2. PICK m : m = n + 1
    OBVIOUS
  <2>3. m \in 1..Len(a) /\ m \in 1..Len(b) /\ m - 1 = n /\ m \in 1..k /\ f[n] = g[n]
    BY ONLY <1>2, <2>1, <2>2, n \in Nat, k \in Nat, Len(a) \in Nat, Len(b) \in Nat, k <= Len(a), k <= Len(b)
  <2>4. f[m] = f[m - 1] \o Span(a[m]) /\ g[m] = g[m - 1] \o Span(b[m])
    BY ONLY <2>3, WalksBy(f, X, a), WalksBy(g, X, b) DEF WalksBy
  <2>5. a[m] = b[m]
    BY ONLY <2>3, \A o \in 1..k : a[o] = b[o]
  <2>6. f[m] = g[m]
    BY ONLY <2>3, <2>4, <2>5
  <2>7. QED
    BY ONLY <2>2, <2>6
<1>3. k \in S
  <2> HIDE DEF S
  <2>1. QED
    BY ONLY <1>1, <1>2, k \in Nat, Induction
<1>4. QED
  BY ONLY <1>3, k \in Nat

LEMMA WalkAppends ==
  ASSUME NEW X, NEW legs \in Seq(Spans(X)), NEW l \in Spans(X)
  PROVE  /\ Walked(legs) \in Seq(X \X Nat)
         /\ Walked(Append(legs, l)) = Walked(legs) \o Span(l)
<1>1. PICK N, more : N = Len(legs) /\ more = Append(legs, l)
  OBVIOUS
<1>2. /\ N \in Nat /\ more \in Seq(Spans(X)) /\ Len(more) = N + 1 /\ more[N + 1] = l
      /\ \A n \in 1..N : more[n] = legs[n]
  BY ONLY <1>1, legs \in Seq(Spans(X)), l \in Spans(X)
<1>3. PICK f : WalksBy(f, X, legs) /\ Walked(legs) = f[N]
  BY ONLY <1>1, legs \in Seq(Spans(X)), WalksAre
<1>4. PICK g : WalksBy(g, X, more) /\ Walked(more) = g[N + 1]
  BY ONLY <1>2, WalksAre
<1>5. f[N] = g[N]
  <2>1. Len(legs) \in Nat /\ Len(more) \in Nat /\ N <= Len(legs) /\ N <= Len(more) /\ \A n \in 1..N : legs[n] = more[n]
    BY ONLY <1>1, <1>2
  <2>2. QED
    BY ONLY <1>2, <1>3, <1>4, <2>1, WalksAgree
<1>6. g[N + 1] = g[N] \o Span(l)
  <2>1. PICK m : m = N + 1
    OBVIOUS
  <2>2. m \in 1..Len(more) /\ m - 1 = N /\ more[m] = l
    BY ONLY <1>2, <2>1
  <2>3. g[m] = g[m - 1] \o Span(more[m])
    BY ONLY <1>4, <2>2 DEF WalksBy
  <2>4. QED
    BY ONLY <2>1, <2>2, <2>3
<1>7. f[N] \in Seq(X \X Nat)
  <2>1. N \in 0..Len(legs)
    BY ONLY <1>1, <1>2
  <2>2. QED
    BY ONLY <1>3, <2>1 DEF WalksBy
<1>8. QED
  BY ONLY <1>1, <1>3, <1>4, <1>5, <1>6, <1>7

LEMMA WalkOfNone == Walked(<<>>) = <<>>
<1>1. <<>> \in Seq(Spans({})) /\ Len(<<>>) = 0
  OBVIOUS
<1>2. PICK f : WalksBy(f, {}, <<>>) /\ Walked(<<>>) = f[Len(<<>>)]
  BY ONLY <1>1, WalksAre
<1>3. QED
  BY ONLY <1>1, <1>2 DEF WalksBy

(* One walk after the other. *)
LEMMA WalkConcats ==
  ASSUME NEW X, NEW a \in Seq(Spans(X)), NEW b \in Seq(Spans(X))
  PROVE  Walked(a \o b) = Walked(a) \o Walked(b)
<1>1. PICK M, N, c, D : M = Len(a) /\ N = Len(b) /\ c = a \o b /\ D = X \X Nat
  OBVIOUS
<1>2. /\ M \in Nat /\ N \in Nat /\ c \in Seq(Spans(X)) /\ Len(c) = M + N
      /\ \A n \in 1..M : c[n] = a[n]
      /\ \A n \in 1..N : c[M + n] = b[n]
  BY ONLY <1>1, a \in Seq(Spans(X)), b \in Seq(Spans(X))
<1>3. PICK f : WalksBy(f, X, a) /\ Walked(a) = f[M]
  BY ONLY <1>1, a \in Seq(Spans(X)), WalksAre
<1>4. PICK g : WalksBy(g, X, b) /\ Walked(b) = g[N]
  BY ONLY <1>1, b \in Seq(Spans(X)), WalksAre
<1>5. PICK h : WalksBy(h, X, c) /\ Walked(c) = h[M + N]
  BY ONLY <1>2, WalksAre
<1>6. h[M] = f[M] /\ f[M] \in Seq(D)
  <2>1. Len(a) \in Nat /\ Len(c) \in Nat /\ M <= Len(a) /\ M <= Len(c) /\ \A n \in 1..M : a[n] = c[n]
    BY ONLY <1>1, <1>2
  <2>2. f[M] = h[M]
    BY ONLY <1>2, <1>3, <1>5, <2>1, WalksAgree
  <2>3. M \in 0..Len(a)
    BY ONLY <1>1, <1>2
  <2>4. QED
    BY ONLY <1>1, <1>3, <2>2, <2>3 DEF WalksBy
<1>7. /\ g[0] = <<>> /\ \A n \in 1..N : g[n] = g[n - 1] \o Span(b[n])
      /\ \A n \in 0..N : g[n] \in Seq(D)
  BY ONLY <1>1, <1>4 DEF WalksBy
<1> DEFINE Good(n) == h[M + n] = f[M] \o g[n]
           S == {n \in Nat : n <= N => Good(n)}
<1>8. Good(0)
  <2>1. f[M] \o <<>> = f[M]
    BY ONLY <1>6
  <2>2. M + 0 = M
    BY ONLY <1>2
  <2>3. QED
    BY ONLY <1>6, <1>7, <2>1, <2>2
<1>9. ASSUME NEW n \in Nat, n + 1 <= N, Good(n) PROVE Good(n + 1)
  <2>1. PICK m, i : m = n + 1 /\ i = M + m
    OBVIOUS
  <2>2. m \in 1..N /\ m - 1 = n /\ n \in 0..N /\ i \in 1..(M + N) /\ i - 1 = M + n
    BY ONLY <1>2, <1>9, <2>1, n \in Nat
  <2>3. h[M + n] = f[M] \o g[n]
    BY ONLY <1>9
  <2>4. PICK x, y, z : x = f[M] /\ y = g[n] /\ z = Span(b[m])
    OBVIOUS
  <2>5. h[i] = (x \o y) \o z
    <3>1. h[i] = h[i - 1] \o Span(c[i])
      BY ONLY <1>2, <1>5, <2>2 DEF WalksBy
    <3>2. c[i] = b[m]
      BY ONLY <1>2, <2>1, <2>2
    <3>3. QED
      BY ONLY <2>2, <2>3, <2>4, <3>1, <3>2
  <2>6. g[m] = y \o z
    <3>1. g[m] = g[m - 1] \o Span(b[m])
      BY ONLY <1>7, <2>2
    <3>2. QED
      BY ONLY <2>2, <2>4, <3>1
  <2>7. x \in Seq(D) /\ y \in Seq(D) /\ z \in Seq(D)
    <3>1. b[m] \in Spans(X)
      BY ONLY <1>1, <2>2, b \in Seq(Spans(X))
    <3>2. QED
      BY ONLY <1>1, <1>6, <1>7, <2>2, <2>4, <3>1, SpanIs
  <2>8. (x \o y) \o z = x \o (y \o z)
    BY ONLY <2>7, ConcatAssociative
  <2>9. QED
    BY ONLY <2>1, <2>4, <2>5, <2>6, <2>8
<1>10. Good(N)
  <2> HIDE DEF Good
  <2>1. 0 \in S /\ \A n \in Nat : n \in S => n + 1 \in S
    BY ONLY <1>2, <1>8, <1>9
  <2>2. N \in S
    <3> HIDE DEF S
    <3>1. QED
      BY ONLY <1>2, <2>1, Induction
  <2>3. QED
    BY ONLY <1>2, <2>2
<1>11. h[M + N] = f[M] \o g[N]
  BY ONLY <1>10
<1>12. QED
  BY ONLY <1>1, <1>3, <1>4, <1>5, <1>11

(* Whatever the last leg of some legs is changed to, their walk is w before it. *)
UpToLast(w, X, legs, N) ==
  \A l \in Spans(X), more \in Seq(Spans(X)) :
    Len(more) = N /\ more[N] = l /\ (\A n \in 1..(N - 1) : more[n] = legs[n]) => Walked(more) = w \o Span(l)

(* Where a walk ends. *)
LEMMA WalkEnds ==
  ASSUME NEW X, NEW legs \in Seq(Spans(X)), NEW N \in Nat, Len(legs) = N, N # 0
  PROVE  /\ Walked(legs) \in Seq(X \X Nat) /\ Walked(legs) # <<>>
         /\ Last(Walked(legs)) = <<legs[N].tour, legs[N].to>>
         /\ \E w \in Seq(X \X Nat) : UpToLast(w, X, legs, N)
<1>1. PICK K, D : K = N - 1 /\ D = X \X Nat
  OBVIOUS
<1>2. K \in Nat /\ N = K + 1
  BY ONLY <1>1, N \in Nat, N # 0
<1>3. PICK f : WalksBy(f, X, legs) /\ Walked(legs) = f[Len(legs)]
  BY ONLY legs \in Seq(Spans(X)), WalksAre
<1>4. f[K] \in Seq(D)
  <2>1. K \in 0..Len(legs)
    BY ONLY <1>2, Len(legs) = N
  <2>2. QED
    BY ONLY <1>1, <1>3, <2>1 DEF WalksBy
<1>5. ASSUME NEW l \in Spans(X), NEW more \in Seq(Spans(X)), Len(more) = N, more[N] = l,
             \A n \in 1..(N - 1) : more[n] = legs[n]
      PROVE  Walked(more) = f[K] \o Span(l)
  <2>1. PICK g : WalksBy(g, X, more) /\ Walked(more) = g[Len(more)]
    BY ONLY more \in Seq(Spans(X)), WalksAre
  <2>2. Len(legs) \in Nat /\ Len(more) \in Nat /\ K <= Len(legs) /\ K <= Len(more) /\ \A n \in 1..K : legs[n] = more[n]
    BY ONLY <1>1, <1>2, <1>5, Len(legs) = N
  <2>3. f[K] = g[K]
    BY ONLY <1>2, <1>3, <2>1, <2>2, WalksAgree
  <2>4. N \in 1..Len(more) /\ N - 1 = K
    BY ONLY <1>1, <1>2, <1>5, N \in Nat
  <2>5. g[N] = g[N - 1] \o Span(more[N])
    BY ONLY <2>1, <2>4 DEF WalksBy
  <2>6. QED
    BY ONLY <1>5, <2>1, <2>3, <2>4, <2>5
<1>6. UpToLast(f[K], X, legs, N)
  BY ONLY <1>5 DEF UpToLast
<1>7. PICK last : last = legs[N]
  OBVIOUS
<1>8. last \in Spans(X)
  BY ONLY <1>2, <1>7, legs \in Seq(Spans(X)), Len(legs) = N
<1>9. Walked(legs) = f[K] \o Span(last)
  BY ONLY <1>5, <1>7, <1>8, legs \in Seq(Spans(X)), Len(legs) = N
<1>10. PICK w, s : w = f[K] /\ s = Span(last)
  OBVIOUS
<1>11. /\ s \in Seq(D) /\ Len(s) \in Nat \ {0} /\ s[Len(s)] = <<last.tour, last.to>>
  BY ONLY <1>1, <1>8, <1>10, SpanIs
<1>12. /\ w \o s \in Seq(D) /\ Len(w \o s) = Len(w) + Len(s) /\ w \o s # <<>>
       /\ (w \o s)[Len(w \o s)] = s[Len(s)]
  BY ONLY <1>4, <1>10, <1>11
<1>13. Last(w \o s) = s[Len(s)]
  BY ONLY <1>12 DEF Last
<1>14. QED
  BY ONLY <1>1, <1>4, <1>6, <1>7, <1>9, <1>10, <1>11, <1>12, <1>13

(* What an entry makes of the legs, and of the tour days. *)
Joined(before, e) ==
  IF OwnKey(e) = None THEN before
  ELSE IF before # <<>> /\ Continues(Last(before), e)
  THEN [before EXCEPT ![Len(before)] = [@ EXCEPT !.to = e.idx]]
  ELSE Append(before, [tour |-> e.tour, from |-> e.idx, to |-> e.idx])

SaidAfter(before, e) ==
  IF OwnKey(e) = None \/ (before # <<>> /\ Last(before) = OwnKey(e)) THEN before ELSE Append(before, OwnKey(e))

(* A leg that goes on goes over one day more, or none. *)
LEMMA SpanLonger ==
  ASSUME NEW X, NEW l \in Spans(X), NEW d \in {l.to, l.to + 1}, NEW new, new = [l EXCEPT !.to = d]
  PROVE  /\ new \in Spans(X) /\ new.tour = l.tour /\ new.to = d
         /\ d = l.to => new = l
         /\ d # l.to => Span(new) = Append(Span(l), <<l.tour, d>>)
<1>1. PICK t, a, b : t = l.tour /\ a = l.from /\ b = l.to
  OBVIOUS
<1>2. t \in X /\ a \in Nat /\ b \in Nat /\ a <= b /\ l = [tour |-> t, from |-> a, to |-> b]
  BY ONLY <1>1, l \in Spans(X) DEF Spans
<1>3. d \in Nat /\ a <= d
  BY ONLY <1>1, <1>2, d \in {l.to, l.to + 1}
<1>4. new = [tour |-> t, from |-> a, to |-> d]
  BY ONLY <1>2, new = [l EXCEPT !.to = d]
<1>5. new.tour = t /\ new.from = a /\ new.to = d
  BY ONLY <1>4
<1>6. new \in Spans(X)
  BY ONLY <1>2, <1>3, <1>4 DEF Spans
<1>7. d = b => new = l
  BY ONLY <1>2, <1>4
<1>8. ASSUME d # b PROVE Span(new) = Append(Span(l), <<t, d>>)
  <2>1. PICK N, D : N = b - a + 1 /\ D = X \X Nat
    OBVIOUS
  <2>2. N \in Nat /\ d = b + 1 /\ d - a + 1 = N + 1 /\ a + (N + 1) - 1 = d
    BY ONLY <1>1, <1>2, <1>8, <2>1, d \in {l.to, l.to + 1}
  <2>3. PICK s, r : s = Span(l) /\ r = Span(new)
    OBVIOUS
  <2>4. s = [m \in 1..N |-> <<t, a + m - 1>>] /\ r = [m \in 1..(N + 1) |-> <<t, a + m - 1>>]
    BY ONLY <1>1, <1>5, <2>1, <2>2, <2>3 DEF Span
  <2>5. s \in Seq(D) /\ Len(s) = N
    BY ONLY <1>1, <2>1, <2>3, l \in Spans(X), SpanIs
  <2>6. r \in Seq(D) /\ Len(r) = N + 1
    BY ONLY <1>5, <1>6, <2>1, <2>2, <2>3, SpanIs
  <2>7. <<t, d>> \in D
    BY ONLY <1>2, <1>3, <2>1
  <2>8. PICK q : q = Append(s, <<t, d>>)
    OBVIOUS
  <2>9. q \in Seq(D) /\ Len(q) = N + 1 /\ q[N + 1] = <<t, d>> /\ \A m \in 1..N : q[m] = s[m]
    BY ONLY <2>2, <2>5, <2>7, <2>8
  <2>10. \A m \in 1..(N + 1) : r[m] = q[m]
    <3>1. ASSUME NEW m \in 1..(N + 1) PROVE r[m] = q[m]
      <4>1. CASE m = N + 1
        BY ONLY <2>2, <2>4, <2>9, <4>1
      <4>2. CASE m # N + 1
        <5>1. m \in 1..N
          BY ONLY <2>2, <4>2, m \in 1..(N + 1)
        <5>2. QED
          BY ONLY <2>4, <2>9, <5>1, m \in 1..(N + 1)
      <4>3. QED
        BY ONLY <4>1, <4>2
    <3>2. QED
      BY ONLY <3>1
  <2>11. r = q
    BY ONLY <2>6, <2>9, <2>10, SeqEqual
  <2>12. QED
    BY ONLY <2>3, <2>8, <2>11
<1>9. QED
  BY ONLY <1>1, <1>5, <1>6, <1>7, <1>8

LEMMA AppendDistributes ==
  ASSUME NEW S, NEW u \in Seq(S), NEW s \in Seq(S), NEW x \in S
  PROVE  u \o Append(s, x) = Append(u \o s, x)
<1>1. PICK o : o = <<x>>
  OBVIOUS
<1>2. o \in Seq(S) /\ Append(s, x) = s \o o
  BY ONLY <1>1, s \in Seq(S), x \in S
<1>3. u \o s \in Seq(S)
  BY ONLY u \in Seq(S), s \in Seq(S)
<1>4. Append(u \o s, x) = (u \o s) \o o
  <2>1. PICK r : r = u \o s
    OBVIOUS
  <2>2. r \in Seq(S)
    BY ONLY <1>3, <2>1
  <2>3. Append(r, x) = r \o o
    BY ONLY <1>1, <2>2, x \in S
  <2>4. QED
    BY ONLY <2>1, <2>3
<1>5. (u \o s) \o o = u \o (s \o o)
  BY ONLY <1>2, u \in Seq(S), s \in Seq(S), ConcatAssociative
<1>6. QED
  BY ONLY <1>2, <1>4, <1>5

(* The legs walk the tour days, entry by entry. *)
LEMMA JoinedIs ==
  ASSUME NEW X, NEW before \in Seq(Spans(X)), NEW e, e.tour \in X, e.idx \in Nat \cup {None}
  PROVE  /\ Joined(before, e) \in Seq(Spans(X))
         /\ Walked(Joined(before, e)) = SaidAfter(Walked(before), e)
<1>1. PICK N, w, k, t, d, D : /\ N = Len(before) /\ w = Walked(before) /\ k = OwnKey(e) /\ t = e.tour /\ d = e.idx
                              /\ D = X \X Nat
  OBVIOUS
<1>2. N \in Nat /\ w \in Seq(D) /\ (before = <<>> <=> N = 0)
  <2>1. N \in Nat /\ (before = <<>> <=> N = 0)
    BY ONLY <1>1, before \in Seq(Spans(X))
  <2>2. w \in Seq(D)
    <3>1. PICK f : WalksBy(f, X, before) /\ Walked(before) = f[Len(before)]
      BY ONLY before \in Seq(Spans(X)), WalksAre
    <3>2. Len(before) \in 0..Len(before)
      BY ONLY <1>1, <2>1
    <3>3. QED
      BY ONLY <1>1, <3>1, <3>2 DEF WalksBy
  <2>3. QED
    BY ONLY <2>1, <2>2
<1>3. CASE k = None
  BY ONLY <1>1, <1>3, before \in Seq(Spans(X)) DEF Joined, SaidAfter
<1>4. CASE k # None
  <2>1. k = <<t, d>> /\ t \in X /\ d \in Nat
    BY ONLY <1>1, <1>4, e.tour \in X, e.idx \in Nat \cup {None} DEF OwnKey
  <2>2. PICK one : one = [tour |-> t, from |-> d, to |-> d]
    OBVIOUS
  <2>3. one \in Spans(X) /\ Span(one) = <<k>>
    <3>1. one \in Spans(X)
      BY ONLY <2>1, <2>2 DEF Spans
    <3>2. Span(one) = [m \in 1..(d - d + 1) |-> <<t, d + m - 1>>]
      BY ONLY <2>2 DEF Span
    <3>3. d - d + 1 = 1 /\ \A m \in 1..1 : d + m - 1 = d
      BY ONLY <2>1
    <3>4. Span(one) = [m \in 1..1 |-> k]
      BY ONLY <2>1, <3>2, <3>3
    <3>5. QED
      BY ONLY <3>1, <3>4
  <2>4. Append(before, one) \in Seq(Spans(X)) /\ Walked(Append(before, one)) = Append(w, k)
    <3>1. Append(before, one) \in Seq(Spans(X)) /\ Walked(Append(before, one)) = w \o Span(one)
      <4>1. Walked(Append(before, one)) = Walked(before) \o Span(one)
        BY ONLY <2>3, before \in Seq(Spans(X)), WalkAppends
      <4>2. Append(before, one) \in Seq(Spans(X))
        BY ONLY <2>3, before \in Seq(Spans(X))
      <4>3. QED
        BY ONLY <1>1, <4>1, <4>2
    <3>2. k \in D
      BY ONLY <1>1, <2>1
    <3>3. w \o <<k>> = Append(w, k)
      BY ONLY <1>2, <3>2
    <3>4. QED
      BY ONLY <2>3, <3>1, <3>3
  <2>5. CASE before = <<>>
    <3>1. w = <<>>
      BY ONLY <1>1, <2>5, WalkOfNone
    <3>2. Joined(before, e) = Append(before, one)
      BY ONLY <1>1, <1>4, <2>2, <2>5 DEF Joined
    <3>3. SaidAfter(w, e) = Append(w, k)
      BY ONLY <1>1, <1>4, <3>1 DEF SaidAfter
    <3>4. QED
      BY ONLY <1>1, <2>4, <3>2, <3>3
  <2>6. CASE before # <<>>
    <3>1. PICK l : l = before[N]
      OBVIOUS
    <3>2. l \in Spans(X) /\ Last(before) = l /\ N # 0
      <4>1. N # 0 /\ N \in 1..Len(before)
        BY ONLY <1>1, <1>2, <2>6
      <4>2. before[N] \in Spans(X)
        BY ONLY <4>1, before \in Seq(Spans(X))
      <4>3. QED
        BY ONLY <1>1, <3>1, <4>1, <4>2 DEF Last
    <3>3. w # <<>> /\ Last(w) = <<l.tour, l.to>> /\ \E v \in Seq(D) : UpToLast(v, X, before, N)
      <4>1. Len(before) = N /\ N # 0
        BY ONLY <1>1, <3>2
      <4>2. /\ Walked(before) # <<>> /\ Last(Walked(before)) = <<before[N].tour, before[N].to>>
            /\ \E v \in Seq(X \X Nat) : UpToLast(v, X, before, N)
        BY ONLY <1>2, <4>1, before \in Seq(Spans(X)), WalkEnds
      <4>3. QED
        BY ONLY <1>1, <3>1, <4>2
    <3>4. PICK v \in Seq(D) : UpToLast(v, X, before, N)
      BY ONLY <3>3
    <3>5. SaidAfter(w, e) = IF <<l.tour, l.to>> = k THEN w ELSE Append(w, k)
      BY ONLY <1>1, <1>4, <3>3 DEF SaidAfter
    <3>6. CASE Continues(l, e)
      <4>1. l.tour = t /\ d \in {l.to, l.to + 1}
        BY ONLY <1>1, <3>6 DEF Continues
      <4>2. PICK new, more : new = [l EXCEPT !.to = d] /\ more = [before EXCEPT ![N] = new]
        OBVIOUS
      <4>3. Joined(before, e) = more
        BY ONLY <1>1, <1>4, <2>6, <3>1, <3>2, <3>6, <4>2 DEF Joined
      <4>4. /\ new \in Spans(X) /\ (d = l.to => new = l)
            /\ d # l.to => Span(new) = Append(Span(l), <<l.tour, d>>)
        BY ONLY <3>2, <4>1, <4>2, SpanLonger
      <4>5. more \in Seq(Spans(X)) /\ Len(more) = N /\ more[N] = new /\ \A n \in 1..(N - 1) : more[n] = before[n]
        BY ONLY <1>1, <1>2, <3>2, <4>2, <4>4, before \in Seq(Spans(X))
      <4>6. w = v \o Span(l) /\ Walked(more) = v \o Span(new)
        <5>1. w = v \o Span(l)
          BY ONLY <1>1, <3>1, <3>2, <3>4, before \in Seq(Spans(X)) DEF UpToLast
        <5>2. QED
          BY ONLY <3>4, <4>4, <4>5, <5>1 DEF UpToLast
      <4>7. CASE d = l.to
        BY ONLY <1>1, <2>1, <3>5, <4>1, <4>3, <4>4, <4>5, <4>6, <4>7
      <4>8. CASE d # l.to
        <5>1. k = <<l.tour, d>> /\ <<l.tour, l.to>> # k
          BY ONLY <2>1, <4>1, <4>8
        <5>2. PICK s : s = Span(l)
          OBVIOUS
        <5>3. s \in Seq(D) /\ k \in D
          <6>1. Span(l) \in Seq(X \X Nat)
            BY ONLY <3>2, SpanIs
          <6>2. QED
            BY ONLY <1>1, <2>1, <5>2, <6>1
        <5>4. v \o Append(s, k) = Append(v \o s, k)
          BY ONLY <5>3, v \in Seq(D), AppendDistributes
        <5>5. QED
          BY ONLY <1>1, <3>5, <4>3, <4>4, <4>5, <4>6, <4>8, <5>1, <5>2, <5>4
      <4>9. QED
        BY ONLY <4>7, <4>8
    <3>7. CASE ~Continues(l, e)
      <4>1. <<l.tour, l.to>> # k
        BY ONLY <1>1, <2>1, <3>7 DEF Continues
      <4>2. Joined(before, e) = Append(before, one)
        BY ONLY <1>1, <1>4, <2>2, <3>2, <3>7 DEF Joined
      <4>3. QED
        BY ONLY <1>1, <2>4, <3>5, <4>1, <4>2
    <3>8. QED
      BY ONLY <3>6, <3>7
  <2>7. QED
    BY ONLY <2>5, <2>6
<1>5. QED
  BY ONLY <1>3, <1>4

ChainedBy(f, X, s) ==
  /\ f[0] = <<>> /\ \A n \in 1..Len(s) : f[n] = Joined(f[n - 1], s[n])
  /\ \A n \in 0..Len(s) : f[n] \in Seq(Spans(X))

SaidBy(f, X, s) ==
  /\ f[0] = <<>> /\ \A n \in 1..Len(s) : f[n] = SaidAfter(f[n - 1], s[n])
  /\ \A n \in 0..Len(s) : f[n] \in Seq(X \X Nat)

LEMMA ChainsAre ==
  ASSUME NEW X, NEW S, NEW s \in Seq(S), \A e \in S : e.tour \in X /\ e.idx \in Nat \cup {None}
  PROVE  \E f : ChainedBy(f, X, s) /\ LegChain(s) = f[Len(s)]
<1> DEFINE grow(n, d) == Joined(d, s[n])
           Def(f) == [n \in 0..Len(s) |->
                        IF n = 0 THEN <<>>
                        ELSE LET before == f[n - 1]
                                 e == s[n]
                             IN IF OwnKey(e) = None THEN before
                                ELSE IF before # <<>> /\ Continues(Last(before), e)
                                THEN [before EXCEPT ![Len(before)] = [@ EXCEPT !.to = e.idx]]
                                ELSE Append(before, [tour |-> e.tour, from |-> e.idx, to |-> e.idx])]
<1>1. PICK Step, A, N, a : Step = [n \in 1..N |-> [d \in A |-> grow(n, d)]] /\ A = Seq(Spans(X)) /\ N = Len(s) /\ a = <<>>
  OBVIOUS
<1>2. N \in Nat /\ a \in A /\ \A n \in 1..N : s[n] \in S
  BY ONLY <1>1, s \in Seq(S)
<1>3. ASSUME NEW n \in 1..N, NEW d \in A PROVE grow(n, d) \in A
  <2>1. PICK Y, e : Y = Spans(X) /\ e = s[n]
    OBVIOUS
  <2>2. e.tour \in X /\ e.idx \in Nat \cup {None}
    BY ONLY <1>2, <2>1, n \in 1..N, \A x \in S : x.tour \in X /\ x.idx \in Nat \cup {None}
  <2>3. d \in Seq(Spans(X))
    BY ONLY <1>1, d \in A
  <2>4. Joined(d, e) \in Seq(Spans(X))
    BY ONLY <2>2, <2>3, JoinedIs
  <2>5. QED
    BY ONLY <1>1, <2>1, <2>4
<1>4. PICK f \in [0..N -> A] : f[0] = a /\ \A n \in 1..N : f[n] = Step[n][f[n - 1]]
  <2> HIDE DEF grow
  <2>1. Step \in [1..N -> [A -> A]]
    BY ONLY <1>1, <1>3
  <2>2. PICK f : Made(f, N, A, a, Step)
    BY ONLY <1>2, <2>1, Iterates
  <2>3. QED
    BY ONLY <2>2 DEF Made
<1>5. \A n \in 1..N : f[n] = grow(n, f[n - 1])
  <2>1. ASSUME NEW n \in 1..N PROVE f[n] = grow(n, f[n - 1])
    <3>1. f[n - 1] \in A
      BY ONLY <1>2, <1>4
    <3> HIDE DEF grow
    <3>2. QED
      BY ONLY <1>1, <1>4, <3>1
  <2>2. QED
    BY ONLY <2>1
<1>6. f = Def(f)
  <2>1. f = [n \in 0..N |-> f[n]] /\ \A n \in 0..N : n # 0 => n \in 1..N
    BY ONLY <1>2, <1>4
  <2>2. \A n \in 0..N : f[n] = IF n = 0 THEN a ELSE grow(n, f[n - 1])
    <3> HIDE DEF grow
    <3>1. QED
      BY ONLY <1>4, <1>5, <2>1
  <2>3. f = [n \in 0..N |-> IF n = 0 THEN a ELSE grow(n, f[n - 1])]
    <3> HIDE DEF grow
    <3>1. QED
      BY ONLY <2>1, <2>2
  <2>4. QED
    BY ONLY <1>1, <2>3 DEF Joined
<1>7. PICK F : F = Def(F) /\ LegChain(s) = F[N]
  <2> DEFINE G == CHOOSE g : g = Def(g)
  <2>1. G = Def(G)
    <3> HIDE DEF Def
    <3>1. QED
      BY ONLY <1>6
  <2>2. LegChain(s) = G[Len(s)]
    BY ONLY TRUE DEF LegChain
  <2>3. QED
    BY ONLY <1>1, <2>1, <2>2
<1>8. F = [n \in 0..N |-> IF n = 0 THEN a ELSE grow(n, F[n - 1])]
  BY ONLY <1>1, <1>7 DEF Joined
<1>9. F[0] = a /\ \A n \in 1..N : F[n] = grow(n, F[n - 1])
  <2> HIDE DEF grow
  <2>1. 0 \in 0..N /\ \A n \in 1..N : n \in 0..N /\ n # 0
    BY ONLY <1>2
  <2>2. QED
    BY ONLY <1>8, <2>1
<1>10. \A n \in 0..N : F[n] \in A
  <2> HIDE DEF grow
  <2>1. Closed(F, N, A)
    BY ONLY <1>2, <1>3, <1>9 DEF Closed
  <2>2. QED
    BY ONLY <1>2, <2>1, Iterated
<1>11. QED
  BY ONLY <1>1, <1>7, <1>9, <1>10 DEF ChainedBy

LEMMA TourDaysAre ==
  ASSUME NEW X, NEW S, NEW s \in Seq(S), \A e \in S : e.tour \in X /\ e.idx \in Nat \cup {None}
  PROVE  \E f : SaidBy(f, X, s) /\ TourDays(s) = f[Len(s)]
<1> DEFINE grow(n, d) == SaidAfter(d, s[n])
           Def(f) == [n \in 0..Len(s) |->
                        IF n = 0 THEN <<>>
                        ELSE LET before == f[n - 1]
                                 k == OwnKey(s[n])
                             IN IF k = None \/ (before # <<>> /\ Last(before) = k) THEN before ELSE Append(before, k)]
<1>1. PICK Step, A, N, a : Step = [n \in 1..N |-> [d \in A |-> grow(n, d)]] /\ A = Seq(X \X Nat) /\ N = Len(s) /\ a = <<>>
  OBVIOUS
<1>2. N \in Nat /\ a \in A /\ \A n \in 1..N : s[n] \in S
  BY ONLY <1>1, s \in Seq(S)
<1>3. ASSUME NEW n \in 1..N, NEW d \in A PROVE grow(n, d) \in A
  <2>1. PICK e, k, D : e = s[n] /\ k = OwnKey(e) /\ D = X \X Nat
    OBVIOUS
  <2>2. e.tour \in X /\ e.idx \in Nat \cup {None}
    BY ONLY <1>2, <2>1, n \in 1..N, \A x \in S : x.tour \in X /\ x.idx \in Nat \cup {None}
  <2>3. k # None => k \in D
    BY ONLY <2>1, <2>2 DEF OwnKey
  <2>4. d \in Seq(D) /\ (k # None => Append(d, k) \in Seq(D))
    BY ONLY <1>1, <2>1, <2>3, d \in A
  <2>5. SaidAfter(d, e) \in Seq(D)
    BY ONLY <2>1, <2>4 DEF SaidAfter
  <2>6. QED
    BY ONLY <1>1, <2>1, <2>5
<1>4. PICK f \in [0..N -> A] : f[0] = a /\ \A n \in 1..N : f[n] = Step[n][f[n - 1]]
  <2> HIDE DEF grow
  <2>1. Step \in [1..N -> [A -> A]]
    BY ONLY <1>1, <1>3
  <2>2. PICK f : Made(f, N, A, a, Step)
    BY ONLY <1>2, <2>1, Iterates
  <2>3. QED
    BY ONLY <2>2 DEF Made
<1>5. \A n \in 1..N : f[n] = grow(n, f[n - 1])
  <2>1. ASSUME NEW n \in 1..N PROVE f[n] = grow(n, f[n - 1])
    <3>1. f[n - 1] \in A
      BY ONLY <1>2, <1>4
    <3> HIDE DEF grow
    <3>2. QED
      BY ONLY <1>1, <1>4, <3>1
  <2>2. QED
    BY ONLY <2>1
<1>6. f = Def(f)
  <2>1. f = [n \in 0..N |-> f[n]] /\ \A n \in 0..N : n # 0 => n \in 1..N
    BY ONLY <1>2, <1>4
  <2>2. \A n \in 0..N : f[n] = IF n = 0 THEN a ELSE grow(n, f[n - 1])
    <3> HIDE DEF grow
    <3>1. QED
      BY ONLY <1>4, <1>5, <2>1
  <2>3. f = [n \in 0..N |-> IF n = 0 THEN a ELSE grow(n, f[n - 1])]
    <3> HIDE DEF grow
    <3>1. QED
      BY ONLY <2>1, <2>2
  <2>4. QED
    BY ONLY <1>1, <2>3 DEF SaidAfter
<1>7. PICK F : F = Def(F) /\ TourDays(s) = F[N]
  <2> DEFINE G == CHOOSE g : g = Def(g)
  <2>1. G = Def(G)
    <3> HIDE DEF Def
    <3>1. QED
      BY ONLY <1>6
  <2>2. TourDays(s) = G[Len(s)]
    BY ONLY TRUE DEF TourDays
  <2>3. QED
    BY ONLY <1>1, <2>1, <2>2
<1>8. F = [n \in 0..N |-> IF n = 0 THEN a ELSE grow(n, F[n - 1])]
  BY ONLY <1>1, <1>7 DEF SaidAfter
<1>9. F[0] = a /\ \A n \in 1..N : F[n] = grow(n, F[n - 1])
  <2> HIDE DEF grow
  <2>1. 0 \in 0..N /\ \A n \in 1..N : n \in 0..N /\ n # 0
    BY ONLY <1>2
  <2>2. QED
    BY ONLY <1>8, <2>1
<1>10. \A n \in 0..N : F[n] \in A
  <2> HIDE DEF grow
  <2>1. Closed(F, N, A)
    BY ONLY <1>2, <1>3, <1>9 DEF Closed
  <2>2. QED
    BY ONLY <1>2, <2>1, Iterated
<1>11. QED
  BY ONLY <1>1, <1>7, <1>9, <1>10 DEF SaidBy

(* The legs of some entries walk their tour days. *)
LEMMA ChainWalks ==
  ASSUME NEW X, NEW S, NEW s \in Seq(S), \A e \in S : e.tour \in X /\ e.idx \in Nat \cup {None}
  PROVE  LegChain(s) \in Seq(Spans(X)) /\ Walked(LegChain(s)) = TourDays(s)
<1>1. PICK N : N = Len(s)
  OBVIOUS
<1>2. N \in Nat /\ \A n \in 1..N : s[n] \in S
  BY ONLY <1>1, s \in Seq(S)
<1>3. PICK f : ChainedBy(f, X, s) /\ LegChain(s) = f[Len(s)]
  BY ONLY s \in Seq(S), \A e \in S : e.tour \in X /\ e.idx \in Nat \cup {None}, ChainsAre
<1>4. PICK g : SaidBy(g, X, s) /\ TourDays(s) = g[Len(s)]
  BY ONLY s \in Seq(S), \A e \in S : e.tour \in X /\ e.idx \in Nat \cup {None}, TourDaysAre
<1> DEFINE Good(n) == Walked(f[n]) = g[n]
           G == {n \in Nat : n <= N => Good(n)}
<1>5. Good(0)
  BY ONLY <1>3, <1>4, WalkOfNone DEF ChainedBy, SaidBy
<1>6. ASSUME NEW n \in Nat, n + 1 <= N, Good(n) PROVE Good(n + 1)
  <2>1. PICK m, e : m = n + 1 /\ e = s[m]
    OBVIOUS
  <2>2. m \in 1..N /\ m - 1 = n /\ n \in 0..N
    BY ONLY <1>2, <1>6, <2>1, n \in Nat
  <2>3. e.tour \in X /\ e.idx \in Nat \cup {None}
    BY ONLY <1>2, <2>1, <2>2, \A x \in S : x.tour \in X /\ x.idx \in Nat \cup {None}
  <2>4. f[m] = Joined(f[n], e) /\ f[n] \in Seq(Spans(X)) /\ g[m] = SaidAfter(g[n], e)
    <3>1. f[m] = Joined(f[m - 1], s[m]) /\ f[n] \in Seq(Spans(X)) /\ g[m] = SaidAfter(g[m - 1], s[m])
      BY ONLY <1>1, <1>3, <1>4, <2>2 DEF ChainedBy, SaidBy
    <3>2. QED
      BY ONLY <2>1, <2>2, <3>1
  <2>5. PICK before : before = f[n]
    OBVIOUS
  <2>6. Walked(Joined(before, e)) = SaidAfter(Walked(before), e)
    BY ONLY <2>3, <2>4, <2>5, JoinedIs
  <2>7. QED
    BY ONLY <1>6, <2>1, <2>4, <2>5, <2>6
<1>7. Good(N)
  <2> HIDE DEF Good
  <2>1. 0 \in G /\ \A n \in Nat : n \in G => n + 1 \in G
    BY ONLY <1>2, <1>5, <1>6
  <2>2. N \in G
    <3> HIDE DEF G
    <3>1. QED
      BY ONLY <1>2, <2>1, Induction
  <2>3. QED
    BY ONLY <1>2, <2>2
<1>8. f[N] \in Seq(Spans(X))
  <2>1. N \in 0..Len(s)
    BY ONLY <1>1, <1>2
  <2>2. QED
    BY ONLY <1>3, <2>1 DEF ChainedBy
<1>9. QED
  BY ONLY <1>1, <1>3, <1>4, <1>7, <1>8

-----------------------------------------------------------------------------
(* The inquiry. *)

(* A stop listed apart has its fields. *)
GoneOK(e) ==
  {"id", "tour", "idx", "day"} \subseteq DOMAIN e /\ e.day \in Nat \cup {None} /\ e.idx \in Nat \cup {None}

(* A stop that is no longer served, on its last day or after the trip. *)
DayAfter(e, last) == [e EXCEPT !.day = IF @ = None THEN last + 1 ELSE @]

LEMMA DayAfterIs ==
  ASSUME NEW e, GoneOK(e), NEW last \in Nat
  PROVE  /\ DayAfter(e, last).day \in Nat /\ DayAfter(e, last).id = e.id
         /\ DayAfter(e, last).tour = e.tour /\ DayAfter(e, last).idx = e.idx
<1>1. PICK d, f : d = (IF e.day = None THEN last + 1 ELSE e.day) /\ f = DayAfter(e, last)
  OBVIOUS
<1>2. f = [e EXCEPT !.day = d]
  BY ONLY <1>1 DEF DayAfter
<1>3. d \in Nat
  BY ONLY <1>1, GoneOK(e), last \in Nat DEF GoneOK
<1>4. f.day = d /\ f.id = e.id /\ f.tour = e.tour /\ f.idx = e.idx
  BY ONLY <1>2, GoneOK(e) DEF GoneOK
<1>5. QED
  BY ONLY <1>1, <1>3, <1>4

(* They are listed by these days, each once. *)
PlacedBy(order, N, u, last) ==
  /\ order \in [1..N -> 1..N] /\ Range(order) = 1..N
  /\ Placed(u, last) = [n \in 1..N |-> DayAfter(u[order[n]], last)]

LEMMA PlacedIs ==
  ASSUME NEW N \in Nat, NEW u, DOMAIN u = 1..N, NEW last \in Nat,
         \A n \in 1..N : GoneOK(u[n])
  PROVE  \E order : PlacedBy(order, N, u, last)
<1>1. PICK at, T : T = 1..N /\ at = [n \in T |-> DayAfter(u[n], last)]
  OBVIOUS
<1> DEFINE upto(m, n) == at[m].day < at[n].day \/ (at[m].day = at[n].day /\ m <= n)
<1>2. \A n \in T : at[n].day \in Nat /\ n \in Nat
  <2>1. ASSUME NEW n \in T PROVE at[n].day \in Nat
    <3>1. PICK e : e = u[n]
      OBVIOUS
    <3>2. GoneOK(e)
      BY ONLY <1>1, <3>1, n \in T, \A m \in 1..N : GoneOK(u[m])
    <3>3. DayAfter(e, last).day \in Nat
      BY ONLY <3>2, last \in Nat, DayAfterIs
    <3>4. QED
      BY ONLY <1>1, <3>1, <3>3, n \in T
  <2>2. QED
    BY ONLY <1>1, <2>1, N \in Nat
<1>3. PICK R : R = {p \in T \X T : upto(p[1], p[2])}
  OBVIOUS
<1>4. \A a, b \in T : <<a, b>> \in R <=> upto(a, b)
  BY ONLY <1>3
<1>5. Orders(R, T)
  <2>1. \A a, b \in T : upto(a, b) \/ upto(b, a)
    BY ONLY <1>2
  <2>2. \A a, b, c \in T : upto(a, b) /\ upto(b, c) => upto(a, c)
    BY ONLY <1>2
  <2>3. \A a, b \in T : upto(a, b) /\ upto(b, a) => a = b
    BY ONLY <1>2
  <2> HIDE DEF upto
  <2>4. QED
    BY ONLY <1>4, <2>1, <2>2, <2>3 DEF Orders, Preorders
<1>6. ASSUME NEW x \in T PROVE Place(R, T, x) = Cardinality({y \in T : upto(y, x)})
  <2> HIDE DEF upto
  <2>1. Down(R, T, x) = {y \in T : upto(y, x)}
    BY ONLY <1>4, x \in T DEF Down
  <2>2. QED
    BY ONLY <2>1 DEF Place
<1> DEFINE pick(n) == CHOOSE x \in T : Cardinality({y \in T : upto(y, x)}) = n
<1>7. PICK order : order = [n \in 1..Cardinality(T) |-> pick(n)]
  OBVIOUS
<1>8. Placed(u, last) = [n \in DOMAIN order |-> at[order[n]]]
  <2> DEFINE Lay(a) ==
               LET list == Listing(DOMAIN a, LAMBDA m, n : a[m].day < a[n].day \/ (a[m].day = a[n].day /\ m <= n))
               IN [n \in DOMAIN list |-> a[list[n]]]
             raw == [n \in DOMAIN u |-> [u[n] EXCEPT !.day = IF @ = None THEN last + 1 ELSE @]]
  <2>1. Placed(u, last) = Lay(raw)
    BY ONLY TRUE DEF Placed
  <2>2. raw = at
    BY ONLY <1>1, DOMAIN u = 1..N DEF DayAfter
  <2>3. Placed(u, last) = Lay(at)
    <3> HIDE DEF Lay, raw
    <3>1. QED
      BY ONLY <2>1, <2>2
  <2>4. DOMAIN at = T
    BY ONLY <1>1
  <2>5. QED
    BY ONLY <1>7, <2>3, <2>4 DEF Listing
<1>9. IsFiniteSet(T) /\ Cardinality(T) = N
  BY ONLY <1>1, N \in Nat, IntervalIs
<1>10. ASSUME NEW n \in 1..Cardinality(T) PROVE order[n] \in T /\ Place(R, T, order[n]) = n
  <2> HIDE DEF upto
  <2>1. PICK x \in T : Place(R, T, x) = n
    BY ONLY <1>5, <1>9, n \in 1..Cardinality(T), Ranked
  <2>2. order[n] = CHOOSE z \in T : Cardinality({y \in T : upto(y, z)}) = n
    BY ONLY <1>7, n \in 1..Cardinality(T)
  <2>3. \E z \in T : Cardinality({y \in T : upto(y, z)}) = n
    BY ONLY <1>6, <2>1
  <2>4. order[n] \in T /\ Cardinality({y \in T : upto(y, order[n])}) = n
    BY ONLY <2>2, <2>3
  <2>5. QED
    BY ONLY <1>6, <2>4
<1> HIDE DEF pick
<1>11. order \in Seq(T) /\ Range(order) = T
  <2>1. order = [n \in 1..Cardinality(T) |-> order[n]]
    BY ONLY <1>7
  <2>2. QED
    BY ONLY <1>5, <1>9, <1>10, <2>1, ListedIs
<1>12. DOMAIN order = 1..N
  BY ONLY <1>7, <1>9
<1>13. order \in [1..N -> 1..N]
  BY ONLY <1>1, <1>11, <1>12
<1>14. [n \in DOMAIN order |-> at[order[n]]] = [n \in 1..N |-> DayAfter(u[order[n]], last)]
  <2>1. \A n \in 1..N : at[order[n]] = DayAfter(u[order[n]], last)
    BY ONLY <1>1, <1>13
  <2>2. QED
    BY ONLY <1>12, <2>1
<1>15. QED
  BY ONLY <1>1, <1>8, <1>11, <1>13, <1>14 DEF PlacedBy

LEMMA GoneIs ==
  ASSUME Inv, TaleOK
  PROVE  \E N \in Nat : DOMAIN Apart = 1..N /\ \A n \in 1..N : GoneOK(Apart[n])
<1>1. PICK gone, stop, apart : /\ gone = Missing(events, Hops)
                               /\ stop = [n \in DOMAIN gone |-> IF gone[n] \in DOMAIN draft THEN draft[gone[n]] ELSE Blank]
                               /\ apart = Apart
  OBVIOUS
<1>2. apart = [n \in DOMAIN gone |->
                 Over([id |-> gone[n], reason |-> StopReason(stop[n].tour, Views)], stop[n])]
  BY ONLY <1>1 DEF Apart, UnavailableStops
<1>3. PICK N \in Nat : DOMAIN gone = 1..N
  <2>1. gone \in Seq(Ids)
    <3>1. IdsOK /\ CatalogOK /\ events \in Seq(Events(Ids))
      BY ONLY Inv DEF Inv, TablesOK, LogOK
    <3>2. QED
      BY ONLY <1>1, <3>1, ServedIs
  <2>2. Len(gone) \in Nat /\ DOMAIN gone = 1..Len(gone)
    BY ONLY <2>1
  <2>3. QED
    BY ONLY <2>2
<1>4. ASSUME NEW n \in 1..N PROVE GoneOK(apart[n])
  <2>1. PICK f, g, e : f = [id |-> gone[n], reason |-> StopReason(stop[n].tour, Views)] /\ g = stop[n] /\ e = apart[n]
    OBVIOUS
  <2>2. e = Over(f, g)
    BY ONLY <1>2, <1>3, <2>1, n \in 1..N
  <2>3. g \in Known
    <3>1. Blank \in Known
      BY ONLY TRUE DEF Blank, Known
    <3>2. \A i \in DOMAIN draft : draft[i] \in Known
      BY ONLY TaleOK DEF TaleOK, Drafts
    <3>3. QED
      BY ONLY <1>1, <1>3, <2>1, <3>1, <3>2, n \in 1..N
  <2>4. DOMAIN g = {"day", "tour", "idx", "name"} /\ g.day \in Nat \cup {None} /\ g.idx \in Nat \cup {None}
    BY ONLY <2>3 DEF Known
  <2>5. DOMAIN f = {"id", "reason"}
    BY ONLY <2>1
  <2>6. /\ DOMAIN e = DOMAIN f \cup DOMAIN g
        /\ \A x \in DOMAIN f \cup DOMAIN g : e[x] = IF x \in DOMAIN f THEN f[x] ELSE g[x]
    BY ONLY <2>2 DEF Over
  <2>7. {"id", "tour", "idx", "day"} \subseteq DOMAIN e /\ e.day = g.day /\ e.idx = g.idx
    BY ONLY <2>4, <2>5, <2>6
  <2>8. QED
    BY ONLY <2>1, <2>4, <2>7 DEF GoneOK
<1>5. QED
  BY ONLY <1>1, <1>2, <1>3, <1>4

(* The days that the inquiry puts them on. *)
LEMMA PlacedHas ==
  ASSUME Inv, TaleOK
  PROVE  /\ Placed(Apart, LastDay(Trip)) \in Seq(Range(Placed(Apart, LastDay(Trip))))
         /\ \A e \in Range(Placed(Apart, LastDay(Trip))) : e.idx \in Nat \cup {None}
         /\ Len(Placed(Apart, LastDay(Trip))) = Len(IdsOf(Apart))
         /\ {e.id : e \in Range(Placed(Apart, LastDay(Trip)))} = Range(IdsOf(Apart))
<1>1. PICK u, last, p : u = Apart /\ last = LastDay(Trip) /\ p = Placed(u, last)
  OBVIOUS
<1>2. PICK N \in Nat : DOMAIN u = 1..N /\ \A n \in 1..N : GoneOK(u[n])
  BY ONLY Inv, TaleOK, <1>1, GoneIs
<1>3. last \in Nat
  BY ONLY Inv, <1>1, TripIs
<1>5. PICK order \in [1..N -> 1..N] : Range(order) = 1..N /\ p = [n \in 1..N |-> DayAfter(u[order[n]], last)]
  <2>1. PICK order : PlacedBy(order, N, u, last)
    BY ONLY <1>2, <1>3, PlacedIs
  <2>2. QED
    BY ONLY <1>1, <2>1 DEF PlacedBy
<1>6. ASSUME NEW n \in 1..N PROVE p[n].id = u[order[n]].id /\ p[n].idx \in Nat \cup {None}
  <2>1. PICK e : e = u[order[n]]
    OBVIOUS
  <2>2. GoneOK(e) /\ p[n] = DayAfter(e, last)
    BY ONLY <1>2, <1>5, <2>1, n \in 1..N
  <2>3. DayAfter(e, last).id = e.id /\ DayAfter(e, last).idx = e.idx
    BY ONLY <1>3, <2>2, DayAfterIs
  <2>4. QED
    BY ONLY <2>1, <2>2, <2>3 DEF GoneOK
<1>7. DOMAIN p = 1..N /\ p = [n \in 1..N |-> p[n]]
  BY ONLY <1>5
<1>8. p \in Seq(Range(p)) /\ Len(p) = N
  <2>1. \A n \in 1..N : p[n] \in Range(p)
    BY ONLY <1>7 DEF Range
  <2>2. QED
    BY ONLY <1>2, <1>7, <2>1
<1>9. \A e \in Range(p) : e.idx \in Nat \cup {None}
  BY ONLY <1>6, <1>7 DEF Range
<1>10. PICK s : s = IdsOf(u)
  OBVIOUS
<1>11. s = [n \in 1..N |-> u[n].id]
  BY ONLY <1>2, <1>10 DEF IdsOf
<1>12. Len(s) = N
  BY ONLY <1>2, <1>11
<1>13. {e.id : e \in Range(p)} = Range(s)
  <2>1. Range(s) = {u[n].id : n \in 1..N}
    BY ONLY <1>11 DEF Range
  <2>2. {e.id : e \in Range(p)} = {p[n].id : n \in 1..N}
    BY ONLY <1>7 DEF Range
  <2>3. \A m \in 1..N : \E n \in 1..N : order[n] = m
    BY ONLY <1>5 DEF Range
  <2>4. \A n \in 1..N : order[n] \in 1..N
    BY ONLY <1>5
  <2>5. ASSUME NEW m \in 1..N PROVE \E n \in 1..N : p[n].id = u[m].id
    <3>1. PICK n \in 1..N : order[n] = m
      BY ONLY <2>3, m \in 1..N
    <3>2. p[n].id = u[order[n]].id
      BY ONLY <1>6, n \in 1..N
    <3>3. QED
      BY ONLY <3>1, <3>2
  <2>6. ASSUME NEW n \in 1..N PROVE \E m \in 1..N : p[n].id = u[m].id
    BY ONLY <1>6, <2>4, n \in 1..N
  <2>7. PICK A, B : A = {p[n].id : n \in 1..N} /\ B = {u[n].id : n \in 1..N}
    OBVIOUS
  <2>8. \A i : i \in A <=> i \in B
    <3>1. ASSUME NEW i \in A PROVE i \in B
      <4>1. PICK n \in 1..N : i = p[n].id
        BY ONLY <2>7, i \in A
      <4>2. PICK m \in 1..N : p[n].id = u[m].id
        BY ONLY <2>6, n \in 1..N
      <4>3. QED
        BY ONLY <2>7, <4>1, <4>2
    <3>2. ASSUME NEW i \in B PROVE i \in A
      <4>1. PICK m \in 1..N : i = u[m].id
        BY ONLY <2>7, i \in B
      <4>2. PICK n \in 1..N : p[n].id = u[m].id
        BY ONLY <2>5, m \in 1..N
      <4>3. QED
        BY ONLY <2>7, <4>1, <4>2
    <3>3. QED
      BY ONLY <3>1, <3>2
  <2>9. QED
    BY ONLY <2>1, <2>2, <2>7, <2>8
<1>14. QED
  BY ONLY <1>1, <1>8, <1>9, <1>10, <1>12, <1>13

(* The hand-off's list has the trip's tours, on days that have numbers. *)
LEMMA GuardedDaysAre ==
  ASSUME Inv, NEW b \in Books
  PROVE  /\ GuardedDays(Trip, Texts(b)) \in Seq(Range(GuardedDays(Trip, Texts(b))))
         /\ \A e \in Range(GuardedDays(Trip, Texts(b))) : e.idx \in Nat \cup {None}
<1>1. PICK t, texts, g, own : t = Trip /\ texts = Texts(b) /\ g = GuardedDays(t, texts) /\ own = OwnKeys(t)
  OBVIOUS
<1>2. t \in Seq(Range(t)) /\ (\A e \in Range(t) : EntryOK(e)) /\ TextsOK(texts)
  BY ONLY Inv, b \in Books, <1>1, TripIs, TextsAre
<1>3. PICK N \in Nat : DOMAIN t = 1..N
  <2>1. Len(t) \in Nat /\ DOMAIN t = 1..Len(t)
    BY ONLY <1>2
  <2>2. QED
    BY ONLY <2>1
<1>4. g = [n \in 1..N |-> Guarded(t[n], texts, own)]
  BY ONLY <1>1, <1>3 DEF GuardedDays
<1>5. ASSUME NEW e \in Range(t) PROVE Guarded(e, texts, own).idx \in Nat \cup {None}
  <2>1. EntryOK(e)
    BY ONLY <1>2, e \in Range(t)
  <2>2. PICK moved : moved = IF OwnKey(e) \in DOMAIN texts /\ ~Confirms(e, texts[OwnKey(e)])
                             THEN Redirect(e, texts, own) ELSE None
    OBVIOUS
  <2>3. Guarded(e, texts, own) = IF moved = None THEN e ELSE [e EXCEPT !.idx = moved[2]]
    BY ONLY <2>2 DEF Guarded
  <2>4. moved = None \/ moved \in DOMAIN texts
    <3>1. Redirect(e, texts, own) # None => Redirect(e, texts, own) \in Free(e, texts, own)
      BY ONLY <1>2, <2>1, RedirectIs
    <3>2. QED
      BY ONLY <2>2, <3>1 DEF Free
  <2>5. moved = None \/ moved[2] \in Nat
    BY ONLY <1>2, <2>4 DEF TextsOK
  <2>6. QED
    BY ONLY <2>1, <2>3, <2>5 DEF EntryOK
<1>6. DOMAIN g = 1..N /\ \A n \in 1..N : g[n] = Guarded(t[n], texts, own) /\ t[n] \in Range(t)
  BY ONLY <1>3, <1>4 DEF Range
<1>7. \A e \in Range(g) : e.idx \in Nat \cup {None}
  BY ONLY <1>5, <1>6 DEF Range
<1>8. g \in Seq(Range(g))
  <2>1. g = [n \in 1..N |-> g[n]] /\ \A n \in 1..N : g[n] \in Range(g)
    BY ONLY <1>4, <1>6 DEF Range
  <2>2. QED
    BY ONLY <1>3, <2>1
<1>9. QED
  BY ONLY <1>1, <1>7, <1>8

(* The legs, walked, are the tour days. *)
LEMMA LegsWalk ==
  ASSUME Inv, TaleOK, NEW b \in Books
  PROVE  Walked(Legs(Trip, Apart, Texts(b)))
           = TourDays(GuardedDays(Trip, Texts(b))) \o TourDays(Placed(Apart, LastDay(Trip)))
<1>1. PICK g, p : g = GuardedDays(Trip, Texts(b)) /\ p = Placed(Apart, LastDay(Trip))
  OBVIOUS
<1>2. g \in Seq(Range(g)) /\ \A e \in Range(g) : e.idx \in Nat \cup {None}
  BY ONLY Inv, b \in Books, <1>1, GuardedDaysAre
<1>3. p \in Seq(Range(p)) /\ \A e \in Range(p) : e.idx \in Nat \cup {None}
  BY ONLY Inv, TaleOK, <1>1, PlacedHas
<1>4. PICK X : X = {e.tour : e \in Range(g) \cup Range(p)}
  OBVIOUS
<1>5. \A e \in Range(g) : e.tour \in X /\ e.idx \in Nat \cup {None}
  BY ONLY <1>2, <1>4
<1>6. \A e \in Range(p) : e.tour \in X /\ e.idx \in Nat \cup {None}
  BY ONLY <1>3, <1>4
<1>7. LegChain(g) \in Seq(Spans(X)) /\ Walked(LegChain(g)) = TourDays(g)
  BY ONLY <1>2, <1>5, ChainWalks
<1>8. LegChain(p) \in Seq(Spans(X)) /\ Walked(LegChain(p)) = TourDays(p)
  BY ONLY <1>3, <1>6, ChainWalks
<1>9. Walked(LegChain(g) \o LegChain(p)) = Walked(LegChain(g)) \o Walked(LegChain(p))
  BY ONLY <1>7, <1>8, WalkConcats
<1>10. Legs(Trip, Apart, Texts(b)) = LegChain(g) \o LegChain(p)
  BY ONLY <1>1 DEF Legs
<1>11. QED
  BY ONLY <1>1, <1>7, <1>8, <1>9, <1>10

(* The inquiry's days have every stop, once. *)
LEMMA InquiryHas ==
  ASSUME Inv, TaleOK
  PROVE  /\ Len(InquiryDays(Trip, Apart)) = Len(Present(events, Hops))
         /\ {e.id : e \in Range(InquiryDays(Trip, Apart))} = Range(Present(events, Hops))
<1>1. PICK t, p, P, ti, ai : /\ t = Trip /\ p = Placed(Apart, LastDay(Trip)) /\ P = Present(events, Hops)
                             /\ ti = IdsOf(t) /\ ai = IdsOf(Apart)
  OBVIOUS
<1>2. ti \o ai \in Seq(Ids) /\ Once(ti \o ai) /\ Range(ti \o ai) = Range(P)
  BY ONLY Inv, <1>1, ShownIs
<1>3. P \in Seq(Ids) /\ Once(P)
  BY ONLY Inv, <1>1, PresentIsWanted
<1>4. Len(ti \o ai) = Len(P)
  <2>1. Cardinality(Range(ti \o ai)) = Len(ti \o ai)
    BY ONLY <1>2, Counted
  <2>2. Cardinality(Range(P)) = Len(P)
    BY ONLY <1>3, Counted
  <2>3. QED
    BY ONLY <1>2, <2>1, <2>2
<1>5. t \in Seq(Range(t))
  BY ONLY Inv, <1>1, TripIs
<1>6. p \in Seq(Range(p)) /\ Len(p) = Len(ai) /\ {e.id : e \in Range(p)} = Range(ai)
  BY ONLY Inv, TaleOK, <1>1, PlacedHas
<1>7. Len(ti) = Len(t) /\ Range(ti) = {e.id : e \in Range(t)} /\ ti \in Seq(Range(ti))
  <2>1. PICK N : N \in Nat /\ N = Len(t) /\ DOMAIN t = 1..N
    BY ONLY <1>5
  <2>2. ti = [n \in 1..N |-> t[n].id]
    BY ONLY <1>1, <2>1 DEF IdsOf
  <2>3. DOMAIN ti = 1..N /\ \A n \in 1..N : ti[n] = t[n].id
    BY ONLY <2>2
  <2>4. Range(ti) = {e.id : e \in Range(t)}
    BY ONLY <2>1, <2>3 DEF Range
  <2>5. \A n \in 1..N : ti[n] \in Range(ti)
    BY ONLY <2>3 DEF Range
  <2>6. ti \in Seq(Range(ti)) /\ Len(ti) = N
    BY ONLY <2>1, <2>2, <2>3, <2>5
  <2>7. QED
    BY ONLY <2>1, <2>4, <2>6
<1>8. PICK Y, Z : Y = Range(t) \cup Range(p) /\ Z = Range(ti) \cup Range(ai)
  OBVIOUS
<1>9. t \in Seq(Y) /\ p \in Seq(Y)
  BY ONLY <1>5, <1>6, <1>8, SeqWidens
<1>10. Range(t \o p) = Range(t) \cup Range(p) /\ Len(t \o p) = Len(t) + Len(p)
  BY ONLY <1>9, ConcatIs
<1>11. ai \in Seq(Range(ai))
  <2>1. PICK N \in Nat : DOMAIN Apart = 1..N
    BY ONLY Inv, TaleOK, GoneIs
  <2>2. ai = [n \in 1..N |-> Apart[n].id]
    BY ONLY <1>1, <2>1 DEF IdsOf
  <2>3. DOMAIN ai = 1..N /\ ai = [n \in 1..N |-> ai[n]]
    BY ONLY <2>2
  <2>4. \A n \in 1..N : ai[n] \in Range(ai)
    BY ONLY <2>3 DEF Range
  <2>5. QED
    BY ONLY <2>1, <2>3, <2>4
<1>12. ti \in Seq(Z) /\ ai \in Seq(Z)
  BY ONLY <1>7, <1>8, <1>11, SeqWidens
<1>13. Range(ti \o ai) = Range(ti) \cup Range(ai) /\ Len(ti \o ai) = Len(ti) + Len(ai)
  BY ONLY <1>12, ConcatIs
<1>14. Len(t \o p) = Len(P)
  BY ONLY <1>4, <1>6, <1>7, <1>10, <1>13
<1>15. {e.id : e \in Range(t \o p)} = Range(P)
  BY ONLY <1>2, <1>6, <1>7, <1>10, <1>13
<1>16. InquiryDays(Trip, Apart) = t \o p
  BY ONLY <1>1 DEF InquiryDays
<1>17. QED
  BY ONLY <1>1, <1>14, <1>15, <1>16

-----------------------------------------------------------------------------
(* Tours that stay together. *)

(* The stops of a tour come together, in its day order, those without a day last. *)
Together(s) ==
  \A m, n \in DOMAIN s : m < n /\ s[m].tour = s[n].tour =>
    /\ s[n].idx = None \/ (s[m].idx # None /\ s[m].idx <= s[n].idx)
    /\ \A o \in m..n : s[o].tour = s[m].tour

(* The block of one tour. *)
OneTour(b) == InOrder(b) /\ \A m, n \in DOMAIN b : b[m].tour = b[n].tour

(* Two lists have no tour in common. *)
Strangers(a, b) == \A m \in DOMAIN a, n \in DOMAIN b : a[m].tour # b[n].tour

LEMMA BlocksAreTours ==
  ASSUME NEW S, StopsOK(S), \A s \in S : s.tour # None
  PROVE  /\ \A b \in Blocks(S) : OneTour(b)
         /\ \A b, c \in Blocks(S) : b # c => Strangers(b, c)
<1> DEFINE Of(t) == {s \in S : s.tour = t}
<1>1. ASSUME NEW b \in Blocks(S)
      PROVE  \E t : b = Listing(Of(t), TourOrder)
  BY ONLY b \in Blocks(S), \A s \in S : s.tour # None DEF Blocks
<1>2. ASSUME NEW t PROVE OneTour(Listing(Of(t), TourOrder)) /\ Range(Listing(Of(t), TourOrder)) = Of(t)
  <2>1. PICK T : T = Of(t)
    OBVIOUS
  <2>2. T \in SUBSET S /\ \A a \in T : a.tour = t
    BY ONLY <2>1
  <2>3. /\ IsFiniteSet(T)
        /\ \A a \in T : a.id \in Nat /\ a.idx \in Nat \cup {None}
        /\ \A a, b \in T : a.id = b.id => a = b
    BY ONLY <2>2, StopsOK(S), FS_Subset DEF StopsOK
  <2>4. PICK l : l = Listing(T, TourOrder)
    OBVIOUS
  <2>5. Range(l) = T /\ InOrder(l)
    BY ONLY <2>3, <2>4, TourListIs
  <2>6. \A m \in DOMAIN l : l[m].tour = t
    BY ONLY <2>2, <2>5 DEF Range
  <2>7. OneTour(l)
    BY ONLY <2>5, <2>6 DEF OneTour
  <2>8. QED
    BY ONLY <2>1, <2>4, <2>5, <2>7
<1>3. \A t : \A s \in Of(t) : s.tour = t
  OBVIOUS
<1>4. ASSUME NEW b \in Blocks(S), NEW c \in Blocks(S), b # c PROVE Strangers(b, c)
  <2> HIDE DEF Of
  <2>1. PICK t, u : b = Listing(Of(t), TourOrder) /\ c = Listing(Of(u), TourOrder)
    BY ONLY <1>1
  <2>2. t # u
    BY ONLY <1>4, <2>1
  <2>3. Range(b) = Of(t) /\ Range(c) = Of(u)
    BY ONLY <1>2, <2>1
  <2>4. (\A m \in DOMAIN b : b[m].tour = t) /\ \A n \in DOMAIN c : c[n].tour = u
    BY ONLY <1>3, <2>3 DEF Range
  <2>5. QED
    BY ONLY <2>2, <2>4 DEF Strangers
<1>5. \A b \in Blocks(S) : OneTour(b)
  <2> HIDE DEF Of
  <2>1. QED
    BY ONLY <1>1, <1>2
<1>6. QED
  BY ONLY <1>4, <1>5

(* A tour that none before is of goes on at the end. *)
LEMMA TogetherGrows ==
  ASSUME NEW S, \A s \in S : s.idx \in Nat \cup {None}, NEW d \in Seq(S), NEW b \in Seq(S),
         Together(d), OneTour(b), Strangers(d, b)
  PROVE  Together(d \o b)
<1>1. PICK r, M, N : r = d \o b /\ M = Len(d) /\ N = Len(b)
  OBVIOUS
<1>2. /\ M \in Nat /\ N \in Nat /\ DOMAIN d = 1..M /\ DOMAIN b = 1..N
      /\ DOMAIN r = 1..(M + N)
      /\ \A n \in 1..(M + N) : r[n] = IF n <= M THEN d[n] ELSE b[n - M]
  BY ONLY <1>1, d \in Seq(S), b \in Seq(S)
<1>3. ASSUME NEW m \in DOMAIN r, NEW n \in DOMAIN r, m < n, r[m].tour = r[n].tour
      PROVE  /\ r[n].idx = None \/ (r[m].idx # None /\ r[m].idx <= r[n].idx)
             /\ \A o \in m..n : r[o].tour = r[m].tour
  <2>1. m \in Nat /\ n \in Nat
    BY ONLY <1>2, m \in DOMAIN r, n \in DOMAIN r
  <2>2. CASE n <= M
    <3>1. m \in DOMAIN d /\ n \in DOMAIN d /\ r[m] = d[m] /\ r[n] = d[n]
      BY ONLY <1>2, <1>3, <2>1, <2>2, m \in DOMAIN r, n \in DOMAIN r
    <3>2. \A o \in m..n : r[o] = d[o]
      BY ONLY <1>2, <2>1, <2>2, m \in DOMAIN r, n \in DOMAIN r
    <3>3. QED
      BY ONLY <1>3, <3>1, <3>2, Together(d) DEF Together
  <2>3. CASE m <= M /\ M < n
    <3>1. m \in DOMAIN d /\ n - M \in DOMAIN b /\ r[m] = d[m] /\ r[n] = b[n - M]
      BY ONLY <1>2, <2>1, <2>3, m \in DOMAIN r, n \in DOMAIN r
    <3>2. QED
      BY ONLY <1>3, <3>1, Strangers(d, b) DEF Strangers
  <2>4. CASE M < m
    <3>1. PICK i, j : i = m - M /\ j = n - M
      OBVIOUS
    <3>2. i \in DOMAIN b /\ j \in DOMAIN b /\ i < j /\ r[m] = b[i] /\ r[n] = b[j]
      BY ONLY <1>2, <1>3, <2>1, <2>4, <3>1, m \in DOMAIN r, n \in DOMAIN r
    <3>3. TourOrder(b[i], b[j])
      BY ONLY <3>2, OneTour(b) DEF OneTour, InOrder
    <3>4. b[i].idx \in Nat \cup {None} /\ b[j].idx \in Nat \cup {None}
      BY ONLY <3>2, b \in Seq(S), \A s \in S : s.idx \in Nat \cup {None}
    <3>5. b[j].idx = None \/ (b[i].idx # None /\ b[i].idx <= b[j].idx)
      <4>1. PICK x, y : x = b[i].idx /\ y = b[j].idx
        OBVIOUS
      <4>2. IF (x = None) # (y = None) THEN y = None ELSE x = y \/ x < y
        BY ONLY <3>3, <4>1 DEF TourOrder
      <4>3. x \in Nat \cup {None} /\ y \in Nat \cup {None}
        BY ONLY <3>4, <4>1
      <4>4. y = None \/ (x # None /\ x <= y)
        BY ONLY <4>2, <4>3
      <4>5. QED
        BY ONLY <4>1, <4>4
    <3>6. ASSUME NEW o \in m..n PROVE r[o].tour = r[m].tour
      <4>1. o - M \in DOMAIN b /\ r[o] = b[o - M]
        BY ONLY <1>2, <2>1, <2>4, m \in DOMAIN r, n \in DOMAIN r, o \in m..n
      <4>2. QED
        BY ONLY <3>2, <4>1, OneTour(b) DEF OneTour
    <3>7. QED
      BY ONLY <3>2, <3>5, <3>6
  <2>5. QED
    BY ONLY <1>2, <2>1, <2>2, <2>3, <2>4
<1>4. QED
  BY ONLY <1>1, <1>3 DEF Together

(* So it is at each step of the sequence. *)
LEMMA SequenceGroups ==
  ASSUME NEW S, StopsOK(S), \A s \in S : s.tour # None
  PROVE  Together(Sequence(S))
<1>1. PICK B, N : B = Blocks(S) /\ N = Cardinality(B)
  OBVIOUS
<1>2. Parts(B, S) /\ N \in Nat
  BY ONLY StopsOK(S), <1>1, BlocksArePartition, FS_CardinalityType DEF Parts
<1>3. (\A b \in B : OneTour(b)) /\ \A b, c \in B : b # c => Strangers(b, c)
  BY ONLY StopsOK(S), \A s \in S : s.tour # None, <1>1, BlocksAreTours
<1>4. PICK f : Chain(f, B) /\ Sequence(S) = f[N].done
  BY ONLY StopsOK(S), <1>1, SequenceIs
<1>5. f[0] = [done |-> <<>>, left |-> B] /\ \A n \in 1..N : f[n] = Extended(f[n - 1])
  BY ONLY <1>1, <1>4 DEF Chain
<1> DEFINE Good(n) == /\ f[n] \in Walks(S, B) /\ Cardinality(f[n].left) = N - n /\ Together(f[n].done)
                      /\ \A b \in f[n].left : Strangers(f[n].done, b)
           G == {n \in Nat : n <= N => Good(n)}
<1>6. Good(0)
  <2>1. f[0].done = <<>> /\ f[0].left = B /\ f[0] \in Walks(S, B)
    BY ONLY <1>5 DEF Walks
  <2>2. Together(<<>>) /\ \A b : Strangers(<<>>, b)
    BY ONLY TRUE DEF Together, Strangers
  <2>3. QED
    BY ONLY <1>1, <1>2, <2>1, <2>2
<1>7. ASSUME NEW n \in Nat, n + 1 <= N, Good(n) PROVE Good(n + 1)
  <2>1. n + 1 \in 1..N /\ n + 1 - 1 = n /\ N - n # 0 /\ N - n - 1 = N - (n + 1)
    BY ONLY <1>2, <1>7, n \in Nat
  <2>2. PICK s, t : s = f[n] /\ t = f[n + 1]
    OBVIOUS
  <2>3. /\ s \in Walks(S, B) /\ Cardinality(s.left) = N - n /\ Together(s.done)
        /\ \A b \in s.left : Strangers(s.done, b)
    BY ONLY <1>7, <2>2
  <2>4. s.left # {}
    <3>1. Cardinality({}) = 0
      BY FS_EmptySet
    <3>2. QED
      BY ONLY <2>1, <2>3, <3>1
  <2>5. t = Extended(s)
    BY ONLY <1>5, <2>1, <2>2
  <2>6. PICK b \in s.left : t.done = s.done \o b /\ t.left = s.left \ {b}
    <3>1. \E b \in s.left : Extended(s).done = s.done \o b /\ Extended(s).left = s.left \ {b}
      BY ONLY StopsOK(S), <1>2, <2>3, <2>4, ExtendedIs
    <3>2. QED
      BY ONLY <2>5, <3>1
  <2>7. t \in Walks(S, B) /\ Cardinality(t.left) = N - (n + 1)
    <3>1. t \in Walks(S, B) /\ Cardinality(t.left) = Cardinality(s.left) - 1
      BY ONLY StopsOK(S), <1>2, <2>3, <2>4, <2>5, ExtendedIs
    <3>2. QED
      BY ONLY <2>1, <2>3, <3>1
  <2>8. PICK d : d = s.done
    OBVIOUS
  <2>9. d \in Seq(S) /\ s.left \subseteq B /\ b \in Seq(S)
    <3>1. d \in Seq(S) /\ s.left \subseteq B
      BY ONLY <2>3, <2>8 DEF Walks
    <3>2. QED
      BY ONLY <1>2, <2>6, <3>1 DEF Parts
  <2>10. OneTour(b) /\ Strangers(d, b)
    BY ONLY <1>3, <2>3, <2>6, <2>8, <2>9
  <2>11. Together(d \o b)
    <3>1. \A x \in S : x.idx \in Nat \cup {None}
      BY ONLY StopsOK(S) DEF StopsOK
    <3>2. QED
      BY ONLY <2>3, <2>8, <2>9, <2>10, <3>1, TogetherGrows
  <2>12. ASSUME NEW c \in t.left PROVE Strangers(d \o b, c)
    <3>1. c \in s.left /\ c # b
      BY ONLY <2>6, c \in t.left
    <3>2. Strangers(d, c) /\ Strangers(b, c)
      BY ONLY <1>3, <2>3, <2>6, <2>8, <2>9, <3>1
    <3>3. Range(d \o b) = Range(d) \cup Range(b)
      BY ONLY <2>9, ConcatIs
    <3>4. \A x \in Range(d) \cup Range(b) : \A k \in DOMAIN c : x.tour # c[k].tour
      BY ONLY <3>2 DEF Strangers, Range
    <3>5. QED
      BY ONLY <3>3, <3>4, Zenon DEF Strangers, Range
  <2>13. QED
    BY ONLY <2>2, <2>6, <2>7, <2>8, <2>11, <2>12
<1>8. Good(N)
  <2> HIDE DEF Good
  <2>1. 0 \in G /\ \A n \in Nat : n \in G => n + 1 \in G
    BY ONLY <1>2, <1>6, <1>7
  <2>2. N \in G
    <3> HIDE DEF G
    <3>1. QED
      BY ONLY <1>2, <2>1, Induction
  <2>3. QED
    BY ONLY <1>2, <2>2
<1>9. QED
  BY ONLY <1>4, <1>8

(* Without an order of the traveller's, the trip is such a list. *)
LEMMA TripGroups ==
  ASSUME Inv, ExplicitOrder(events, Hops) = <<>>
  PROVE  Together(Trip)
<1>1. PICK served, order, t : served = Served(events, Hops) /\ order = ExplicitOrder(events, Hops) /\ t = Trip
  OBVIOUS
<1>2. IdsOK /\ CatalogOK /\ events \in Seq(Events(Ids)) /\ DOMAIN catalog \subseteq Nat
  <2>1. IdsOK /\ CatalogOK /\ events \in Seq(Events(Ids))
    BY ONLY Inv DEF Inv, TablesOK, LogOK
  <2>2. DOMAIN catalog \subseteq Nat
    BY ONLY <2>1 DEF IdsOK, Ids
  <2>3. QED
    BY ONLY <2>1, <2>2
<1>3. served \in Seq(DOMAIN catalog) /\ Once(served)
  BY ONLY <1>1, <1>2, ServedIs
<1>4. order \in Seq(Ids) /\ Once(order) /\ t = ProjectItinerary(served, order)
  BY ONLY <1>1, <1>2, OrderIs DEF Trip, Itinerary
<1>5. PICK S : S = {Row(i) : i \in Range(served)}
  OBVIOUS
<1>6. PICK rows \in Seq({Row(i) : i \in DOMAIN catalog}) :
        t = GroupIntoDays(rows) /\ (order = <<>> => rows = Sequence(S) /\ StopsOK(S))
  BY ONLY <1>2, <1>3, <1>4, <1>5, ProjectedRows
<1>7. rows = Sequence(S) /\ StopsOK(S)
  BY ONLY <1>1, <1>6, ExplicitOrder(events, Hops) = <<>>
<1>8. \A s \in S : s.tour # None
  <2>1. \A i \in Range(served) : i \in DOMAIN catalog
    BY ONLY <1>3 DEF Range
  <2>2. \A i \in DOMAIN catalog : catalog[i].tour \in Tours
    BY ONLY <1>2 DEF CatalogOK
  <2>3. \A i : Row(i).tour = catalog[i].tour
    BY ONLY TRUE DEF Row
  <2>4. QED
    BY ONLY <1>5, <2>1, <2>2, <2>3, CatalogAssumption
<1>9. Together(rows)
  BY ONLY <1>7, <1>8, SequenceGroups
<1>10. ASSUME NEW n \in DOMAIN rows PROVE t[n].tour = rows[n].tour /\ t[n].idx = rows[n].idx
  <2>1. PICK i \in DOMAIN catalog : rows[n] = Row(i)
    BY ONLY rows \in Seq({Row(j) : j \in DOMAIN catalog}), n \in DOMAIN rows
  <2>2. Days(rows)[n] \in Nat
    BY ONLY rows \in Seq({Row(j) : j \in DOMAIN catalog}), n \in DOMAIN rows, DaysAre
  <2>3. PICK d : d \in Nat /\ d = Days(rows)[n]
    BY ONLY <2>2
  <2>4. t[n] = Over(Row(i), [day |-> d])
    BY ONLY <1>6, <2>1, <2>3, n \in DOMAIN rows DEF GroupIntoDays
  <2>5. FromRow(t[n]) /\ t[n].id = i
    BY ONLY <2>3, <2>4, DatedIs
  <2>6. t[n].tour = catalog[i].tour /\ t[n].idx = catalog[i].idx
    BY ONLY <2>5 DEF FromRow
  <2>7. Row(i).tour = catalog[i].tour /\ Row(i).idx = catalog[i].idx
    BY ONLY TRUE DEF Row
  <2>8. QED
    BY ONLY <2>1, <2>6, <2>7
<1>11. DOMAIN t = DOMAIN rows
  BY ONLY <1>6 DEF GroupIntoDays
<1>12. PICK N : N \in Nat /\ DOMAIN rows = 1..N
  <2>1. Len(rows) \in Nat /\ DOMAIN rows = 1..Len(rows)
    BY ONLY rows \in Seq({Row(j) : j \in DOMAIN catalog})
  <2>2. QED
    BY ONLY <2>1
<1>13. \A m, n \in 1..N : \A o \in m..n : o \in 1..N
  BY ONLY <1>12
<1>14. Together(t)
  BY ONLY <1>9, <1>10, <1>11, <1>12, <1>13 DEF Together
<1>15. QED
  BY ONLY <1>1, <1>14

LEMMA LegsAreEnough ==
  ASSUME Inv, TaleOK
  PROVE  LegsCoverTheTrip
<1>1. \A b \in Books :
        Walked(Legs(Trip, Apart, Texts(b)))
          = TourDays(GuardedDays(Trip, Texts(b))) \o TourDays(Placed(Apart, LastDay(Trip)))
  BY ONLY Inv, TaleOK, LegsWalk
<1>2. /\ Len(InquiryDays(Trip, Apart)) = Len(Present(events, Hops))
      /\ {e.id : e \in Range(InquiryDays(Trip, Apart))} = Range(Present(events, Hops))
  BY ONLY Inv, TaleOK, InquiryHas
<1>3. ExplicitOrder(events, Hops) = <<>> => Together(Trip)
  BY ONLY Inv, TripGroups
<1>4. QED
  BY ONLY <1>1, <1>2, <1>3 DEF LegsCoverTheTrip, Together

(* The legs of an inquiry walk exactly the tour days of the trip in its order,   *)
(* its days have every stop once, and without an order of the traveller's the    *)
(* stops of a tour stay together in its day order (handoff.leg_chain,            *)
(* build_payload, sequencing.sequence).                                          *)
THEOREM LegsAreTheTrip == Spec => []LegsCoverTheTrip
<1>1. Init => Inv /\ TaleOK
  BY InitKeeps, TaleAtFirst
<1>2. Inv /\ TaleOK /\ [Next]_vars => (Inv /\ TaleOK)'
  BY NextKeeps, NextKeepsTale
<1>3. Inv /\ TaleOK => LegsCoverTheTrip
  BY LegsAreEnough
<1>4. QED
  BY <1>1, <1>2, <1>3, PTL DEF Spec
=============================================================================
