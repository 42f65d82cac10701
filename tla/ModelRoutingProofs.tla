-------------------------- MODULE ModelRoutingProofs --------------------------
(***************************************************************************)
(* ModelRouting, proved for any models, lists, forms, catalogs, operations *)
(* and fetches.                                                            *)
(***************************************************************************)
EXTENDS ModelRouting, SequenceTheorems, WellFoundedInduction, TLAPS

-----------------------------------------------------------------------------
(* Induction over numbers and sequences, for sets in place of predicates *)

\* A non-empty set of numbers has a least one.
LEMMA Smallest ==
    ASSUME NEW S \in SUBSET Nat, S # {}
    PROVE  \E m \in S : \A n \in S : m <= n
<1>1. IsWellFoundedOn(OpToRel(<, Nat), Nat)
  BY NatLessThanWellFounded
<1>2. \A m, n \in Nat : n < m => <<n, m>> \in OpToRel(<, Nat)
  BY DEF OpToRel
<1>3. PICK R : IsWellFoundedOn(R, Nat) /\ \A m, n \in Nat : n < m => <<n, m>> \in R
  BY <1>1, <1>2, Zenon
<1>4. PICK m \in S : \A n \in S : ~(<<n, m>> \in R)
  BY <1>3, WFMin
<1>5. \A n \in S : m \in Nat /\ n \in Nat /\ ~(n < m)
  BY <1>3, <1>4
<1> QED BY <1>5

LEMMA EveryNumber ==
    ASSUME NEW S \in SUBSET Nat, 0 \in S, \A n \in S : n + 1 \in S
    PROVE  S = Nat
<1> DEFINE Out == Nat \ S
<1>1. CASE Out # {}
  <2>1. Out \in SUBSET Nat
    OBVIOUS
  <2> HIDE DEF Out
  <2>2. PICK m \in Out : \A n \in Out : m <= n
    BY <1>1, <2>1, Smallest
  <2> USE DEF Out
  <2>3. m \in Nat /\ m # 0 /\ m - 1 \in Nat /\ ~(m <= m - 1) /\ (m - 1) + 1 = m
    BY <2>2
  <2>4. m - 1 \in S
    BY <2>2, <2>3
  <2> QED BY <2>2, <2>3, <2>4
<1>2. CASE Out = {}
  BY <1>2
<1> QED BY <1>1, <1>2

\* What is appended to.
LEMMA Appended ==
    ASSUME NEW T, NEW seq \in Seq(T), NEW x
    PROVE  /\ Len(Append(seq, x)) = Len(seq) + 1 /\ Append(seq, x)[Len(seq) + 1] = x
           /\ \A i \in 1 .. Len(seq) : Append(seq, x)[i] = seq[i]
           /\ DOMAIN seq = 1 .. Len(seq) /\ Len(seq) \in Nat
           /\ DOMAIN Append(seq, x) = 1 .. Len(seq) + 1
           /\ x \in T => Append(seq, x) \in Seq(T)
           /\ Append(seq, x) # <<>>
OBVIOUS

LEMMA EverySequence ==
    ASSUME NEW T, NEW S \in SUBSET Seq(T), <<>> \in S,
           \A seq \in S, x \in T : Append(seq, x) \in S
    PROVE  S = Seq(T)
<1> DEFINE Numbers == {n \in Nat : \A seq \in Seq(T) : Len(seq) = n => seq \in S}
<1>1. 0 \in Numbers
  BY EmptySeq
<1>2. ASSUME NEW n \in Numbers
      PROVE  n + 1 \in Numbers
  <2>1. ASSUME NEW seq \in Seq(T), Len(seq) = n + 1
        PROVE  seq \in S
    <3> DEFINE front == [i \in 1 .. n |-> seq[i]]
    <3>1. n \in Nat /\ n + 1 \in 1 .. Len(seq) /\ seq[n + 1] \in T
      BY <2>1
    <3>2. front \in Seq(T) /\ Len(front) = n
      BY <2>1, <3>1
    <3>3. front \in S
      BY <3>1, <3>2
    <3>4. seq = Append(front, seq[n + 1])
      BY <2>1, <3>1, <3>2
    <3> HIDE DEF front
    <3> QED BY <3>1, <3>3, <3>4
  <2> QED BY <2>1
<1>3. Numbers = Nat
  <2>1. Numbers \in SUBSET Nat
    OBVIOUS
  <2> HIDE DEF Numbers
  <2> QED BY <1>1, <1>2, <2>1, EveryNumber
<1>4. \A seq \in Seq(T) : Len(seq) \in Numbers
  BY <1>3
<1> QED BY <1>4

-----------------------------------------------------------------------------
(* Kept *)

KeptNext(f, seq, set, n) ==
    IF n = 0 THEN <<>>
    ELSE IF seq[n] \in set THEN Append(f[n - 1], seq[n])
    ELSE f[n - 1]

\* The recursion of Kept is sound.
LEMMA KeptUnfolds ==
    ASSUME NEW seq, NEW set, Len(seq) \in Nat
    PROVE  \E f : /\ f = [n \in 0 .. Len(seq) |-> KeptNext(f, seq, set, n)]
                  /\ Kept(seq, set) = f[Len(seq)]
<1> DEFINE Defined(m) == \E f : f = [n \in 0 .. m |-> KeptNext(f, seq, set, n)]
           All == {m \in Nat : Defined(m)}
<1>1. 0 \in All
  <2>1. [n \in 0 .. 0 |-> <<>>]
           = [n \in 0 .. 0 |-> KeptNext([k \in 0 .. 0 |-> <<>>], seq, set, n)]
    BY DEF KeptNext
  <2> QED BY <2>1
<1>2. ASSUME NEW m \in All
      PROVE  m + 1 \in All
  <2>1. PICK f : f = [n \in 0 .. m |-> KeptNext(f, seq, set, n)]
    OBVIOUS
  <2> DEFINE g == [n \in 0 .. m + 1 |-> IF n = m + 1 THEN KeptNext(f, seq, set, n) ELSE f[n]]
  <2>2. ASSUME NEW n \in 0 .. m + 1
        PROVE  g[n] = KeptNext(g, seq, set, n)
    <3>1. CASE n = 0
      <4>1. g[n] = f[0] /\ f[0] = KeptNext(f, seq, set, 0)
        BY <2>1, <3>1
      <4> QED BY <3>1, <4>1 DEF KeptNext
    <3>2. CASE n # 0
      <4>1. n - 1 \in 0 .. m /\ n - 1 # m + 1 /\ n - 1 \in 0 .. m + 1
        BY <3>2
      <4>2. g[n - 1] = f[n - 1]
        BY <4>1
      <4>3. KeptNext(g, seq, set, n) = KeptNext(f, seq, set, n)
        BY <3>2, <4>2 DEF KeptNext
      <4>4. CASE n = m + 1
        BY <4>3, <4>4
      <4>5. CASE n # m + 1
        <5>1. n \in 0 .. m
          BY <4>5
        <5> QED BY <2>1, <4>3, <4>5, <5>1
      <4> QED BY <4>4, <4>5
    <3> QED BY <3>1, <3>2
  <2>3. g = [n \in 0 .. m + 1 |-> KeptNext(g, seq, set, n)]
    <3>1. DOMAIN g = 0 .. m + 1 /\ g = [n \in DOMAIN g |-> g[n]]
      OBVIOUS
    <3> HIDE DEF g
    <3> QED BY <3>1, <2>2
  <2>4. Defined(m + 1)
    <3> HIDE DEF g
    <3> QED BY <2>3
  <2> QED BY <2>4
<1>3. All = Nat
  <2>1. All \in SUBSET Nat
    OBVIOUS
  <2> HIDE DEF All
  <2> QED BY <1>1, <1>2, <2>1, EveryNumber
<1>4. Defined(Len(seq))
  BY <1>3
<1> DEFINE kept == CHOOSE f : f = [n \in 0 .. Len(seq) |-> KeptNext(f, seq, set, n)]
<1>5. kept = [n \in 0 .. Len(seq) |-> KeptNext(kept, seq, set, n)]
  BY <1>4
<1>6. Kept(seq, set) = kept[Len(seq)]
  BY DEF Kept, KeptNext
<1> HIDE DEF kept
<1> QED BY <1>5, <1>6

\* Its base case and its step.
LEMMA KeptEmpty == \A set : Kept(<<>>, set) = <<>>
<1> SUFFICES ASSUME NEW set PROVE Kept(<<>>, set) = <<>>
  OBVIOUS
<1>1. Len(<<>>) = 0
  OBVIOUS
<1>2. PICK f : /\ f = [n \in 0 .. Len(<<>>) |-> KeptNext(f, <<>>, set, n)]
               /\ Kept(<<>>, set) = f[Len(<<>>)]
  BY <1>1, KeptUnfolds
<1> QED BY <1>1, <1>2 DEF KeptNext

LEMMA KeptAppend ==
    ASSUME NEW T, NEW seq \in Seq(T), NEW x, NEW set
    PROVE  Kept(Append(seq, x), set)
              = IF x \in set THEN Append(Kept(seq, set), x) ELSE Kept(seq, set)
<1> DEFINE longer == Append(seq, x)
           N == Len(seq)
<1>1. N \in Nat /\ Len(longer) = N + 1 /\ longer[N + 1] = x
      /\ \A i \in 1 .. N : longer[i] = seq[i]
  BY Appended
<1> HIDE DEF longer, N
<1>2. PICK f : f = [n \in 0 .. N |-> KeptNext(f, seq, set, n)] /\ Kept(seq, set) = f[N]
  BY <1>1, KeptUnfolds DEF N
<1>3. PICK g : /\ g = [n \in 0 .. N + 1 |-> KeptNext(g, longer, set, n)]
               /\ Kept(longer, set) = g[N + 1]
  <2>1. Len(longer) \in Nat
    BY <1>1
  <2>2. PICK g : /\ g = [n \in 0 .. Len(longer) |-> KeptNext(g, longer, set, n)]
                 /\ Kept(longer, set) = g[Len(longer)]
    BY <2>1, KeptUnfolds
  <2> QED BY <1>1, <2>2
<1> DEFINE Same == {n \in Nat : n <= N => g[n] = f[n]}
<1>4. 0 \in Same
  BY <1>1, <1>2, <1>3 DEF KeptNext
<1>5. ASSUME NEW n \in Same
      PROVE  n + 1 \in Same
  <2>1. ASSUME n + 1 <= N
        PROVE  g[n + 1] = f[n + 1]
    <3>1. n \in Nat /\ n + 1 \in 0 .. N /\ n + 1 \in 0 .. N + 1 /\ n + 1 \in 1 .. N
          /\ n + 1 # 0 /\ (n + 1) - 1 = n /\ g[n] = f[n] /\ longer[n + 1] = seq[n + 1]
      BY <1>1, <2>1
    <3>2. f[n + 1] = KeptNext(f, seq, set, n + 1) /\ g[n + 1] = KeptNext(g, longer, set, n + 1)
      BY <1>2, <1>3, <3>1
    <3> QED BY <3>1, <3>2 DEF KeptNext
  <2> QED BY <2>1
<1>6. Same = Nat
  <2>1. Same \in SUBSET Nat
    OBVIOUS
  <2> HIDE DEF Same
  <2> QED BY <1>4, <1>5, <2>1, EveryNumber
<1>7. g[N] = f[N]
  BY <1>1, <1>6
<1>8. g[N + 1] = KeptNext(g, longer, set, N + 1)
  <2>1. N + 1 \in 0 .. N + 1
    BY <1>1
  <2> QED BY <1>3, <2>1
<1>9. N + 1 # 0 /\ (N + 1) - 1 = N
  BY <1>1
<1> QED BY <1>1, <1>2, <1>3, <1>7, <1>8, <1>9 DEF KeptNext, longer

\* Elements of a sequence.
LEMMA AppendRange ==
    ASSUME NEW T, NEW seq \in Seq(T), NEW x
    PROVE  /\ Range(Append(seq, x)) = Range(seq) \cup {x}
           /\ x \in T => Append(seq, x) \in Seq(T)
<1> DEFINE longer == Append(seq, x)
           N == Len(seq)
<1>1. /\ N \in Nat /\ DOMAIN longer = 1 .. N + 1 /\ DOMAIN seq = 1 .. N
      /\ longer[N + 1] = x /\ \A i \in 1 .. N : longer[i] = seq[i]
      /\ x \in T => longer \in Seq(T)
  BY Appended
<1> HIDE DEF longer, N
<1>2. 1 .. N + 1 = (1 .. N) \cup {N + 1}
  BY <1>1
<1>3. Range(longer) = Range(seq) \cup {x}
  BY <1>1, <1>2 DEF Range
<1> QED BY <1>1, <1>3 DEF longer

LEMMA InjectiveAppend ==
    ASSUME NEW T, NEW seq \in Seq(T), NEW x
    PROVE  /\ IsInjective(Append(seq, x)) => IsInjective(seq) /\ x \notin Range(seq)
           /\ IsInjective(seq) /\ x \notin Range(seq) => IsInjective(Append(seq, x))
<1> DEFINE longer == Append(seq, x)
           N == Len(seq)
<1>1. /\ N \in Nat /\ DOMAIN longer = 1 .. N + 1 /\ DOMAIN seq = 1 .. N
      /\ longer[N + 1] = x /\ \A i \in 1 .. N : longer[i] = seq[i]
  BY Appended
<1> HIDE DEF longer, N
<1>2. 1 .. N + 1 = (1 .. N) \cup {N + 1} /\ N + 1 \notin 1 .. N
  BY <1>1
<1>3. ASSUME IsInjective(longer)
      PROVE  IsInjective(seq) /\ x \notin Range(seq)
  BY <1>1, <1>2, <1>3 DEF Range, IsInjective
<1>4. ASSUME IsInjective(seq), x \notin Range(seq)
      PROVE  IsInjective(longer)
  BY <1>1, <1>2, <1>4 DEF Range, IsInjective
<1> QED BY <1>3, <1>4 DEF longer

LEMMA NothingInRange ==
    ASSUME NEW T, NEW seq \in Seq(T), Range(seq) = {}
    PROVE  seq = <<>>
<1>1. Len(seq) \in Nat /\ DOMAIN seq = 1 .. Len(seq)
  OBVIOUS
<1>2. ~(1 \in 1 .. Len(seq))
  BY <1>1 DEF Range
<1> QED BY <1>1, <1>2, EmptySeq

\* It keeps the elements that are in set, and a list's elements stay different.
LEMMA KeptElements ==
    ASSUME NEW T, NEW set
    PROVE  \A seq \in Seq(T) :
              /\ Kept(seq, set) \in Seq(T)
              /\ Range(Kept(seq, set)) = Range(seq) \cap set
              /\ IsInjective(seq) => IsInjective(Kept(seq, set))
<1> DEFINE Good(seq) == /\ Kept(seq, set) \in Seq(T)
                        /\ Range(Kept(seq, set)) = Range(seq) \cap set
                        /\ IsInjective(seq) => IsInjective(Kept(seq, set))
           S == {seq \in Seq(T) : Good(seq)}
<1>1. <<>> \in S
  <2>1. Range(<<>>) = {} /\ IsInjective(<<>>) /\ <<>> \in Seq(T)
    BY DEF Range, IsInjective
  <2> QED BY <2>1, KeptEmpty
<1>2. ASSUME NEW seq \in S, NEW x \in T
      PROVE  Append(seq, x) \in S
  <2>1. /\ seq \in Seq(T) /\ Append(seq, x) \in Seq(T)
        /\ Range(Append(seq, x)) = Range(seq) \cup {x}
        /\ IsInjective(Append(seq, x)) => IsInjective(seq) /\ x \notin Range(seq)
    BY AppendRange, InjectiveAppend
  <2>2. Good(seq) /\ seq \in Seq(T)
    OBVIOUS
  <2>3. CASE x \in set
    <3>1. Kept(Append(seq, x), set) = Append(Kept(seq, set), x)
      BY <2>2, <2>3, KeptAppend
    <3>2. /\ Append(Kept(seq, set), x) \in Seq(T)
          /\ Range(Append(Kept(seq, set), x)) = Range(Kept(seq, set)) \cup {x}
          /\ IsInjective(Kept(seq, set)) /\ x \notin Range(Kept(seq, set))
                => IsInjective(Append(Kept(seq, set), x))
      <4>1. Kept(seq, set) \in Seq(T)
        BY <2>2
      <4> QED BY <4>1, AppendRange, InjectiveAppend
    <3>3. Good(Append(seq, x))
      BY <2>1, <2>2, <2>3, <3>1, <3>2
    <3> QED BY <2>1, <3>3
  <2>4. CASE x \notin set
    <3>1. Kept(Append(seq, x), set) = Kept(seq, set)
      BY <2>2, <2>4, KeptAppend
    <3>2. Good(Append(seq, x))
      BY <2>1, <2>2, <2>4, <3>1
    <3> QED BY <2>1, <3>2
  <2> QED BY <2>3, <2>4
<1>3. S = Seq(T)
  <2>1. S \in SUBSET Seq(T)
    OBVIOUS
  <2> HIDE DEF S
  <2> QED BY <1>1, <1>2, <2>1, EverySequence
<1> QED BY <1>3

\* Filtering twice.
LEMMA KeptTwice ==
    ASSUME NEW T, NEW set, NEW other
    PROVE  \A seq \in Seq(T) : Kept(Kept(seq, set), other) = Kept(seq, set \cap other)
<1> DEFINE S == {seq \in Seq(T) : Kept(Kept(seq, set), other) = Kept(seq, set \cap other)}
<1>1. <<>> \in S
  BY KeptEmpty
<1>2. ASSUME NEW seq \in S, NEW x \in T
      PROVE  Append(seq, x) \in S
  <2>1. Append(seq, x) \in Seq(T) /\ Kept(seq, set) \in Seq(T) /\ seq \in Seq(T)
    BY KeptElements
  <2>2. Kept(Kept(seq, set), other) = Kept(seq, set \cap other)
    OBVIOUS
  <2>3. Kept(Append(Kept(seq, set), x), other)
           = IF x \in other THEN Append(Kept(seq, set \cap other), x)
             ELSE Kept(seq, set \cap other)
    <3>1. \A some \in Seq(T) :
             Kept(Append(some, x), other)
                = IF x \in other THEN Append(Kept(some, other), x) ELSE Kept(some, other)
      BY KeptAppend
    <3> QED BY <2>1, <2>2, <3>1, Zenon
  <2>4. \A some : Kept(Append(seq, x), some)
                     = IF x \in some THEN Append(Kept(seq, some), x) ELSE Kept(seq, some)
    BY <2>1, KeptAppend
  <2>5. CASE x \in set
    <3>1. Kept(Append(seq, x), set) = Append(Kept(seq, set), x)
      BY <2>4, <2>5
    <3>2. x \in set \cap other <=> x \in other
      BY <2>5
    <3>3. Kept(Append(seq, x), set \cap other)
             = IF x \in set \cap other THEN Append(Kept(seq, set \cap other), x)
               ELSE Kept(seq, set \cap other)
      BY <2>4
    <3> QED BY <2>1, <2>3, <3>1, <3>2, <3>3
  <2>6. CASE x \notin set
    <3>1. Kept(Append(seq, x), set) = Kept(seq, set)
      BY <2>4, <2>6
    <3>2. Kept(Append(seq, x), set \cap other) = Kept(seq, set \cap other)
      BY <2>4, <2>6
    <3> QED BY <2>1, <2>2, <3>1, <3>2
  <2> QED BY <2>5, <2>6
<1>3. S = Seq(T)
  <2>1. S \in SUBSET Seq(T)
    OBVIOUS
  <2> HIDE DEF S
  <2> QED BY <1>1, <1>2, <2>1, EverySequence
<1> QED BY <1>3

\* A list without its first element is the list filtered of it.
LEMMA KeptTail ==
    ASSUME NEW T, NEW set
    PROVE  \A seq \in Seq(T) :
              IsInjective(seq) /\ Kept(seq, set) # <<>> =>
                  Kept(seq, set \ {Head(Kept(seq, set))}) = Tail(Kept(seq, set))
<1> DEFINE Good(seq) == IsInjective(seq) /\ Kept(seq, set) # <<>> =>
                            Kept(seq, set \ {Head(Kept(seq, set))}) = Tail(Kept(seq, set))
           S == {seq \in Seq(T) : Good(seq)}
<1>1. <<>> \in S
  BY KeptEmpty
<1>2. ASSUME NEW seq \in S, NEW x \in T
      PROVE  Append(seq, x) \in S
  <2>1. /\ Append(seq, x) \in Seq(T) /\ seq \in Seq(T)
        /\ IsInjective(Append(seq, x)) => IsInjective(seq) /\ x \notin Range(seq)
    BY AppendRange, InjectiveAppend
  <2>2. SUFFICES ASSUME IsInjective(Append(seq, x)), Kept(Append(seq, x), set) # <<>>
                 PROVE  Kept(Append(seq, x), set \ {Head(Kept(Append(seq, x), set))})
                           = Tail(Kept(Append(seq, x), set))
    BY <2>1
  <2>3. Good(seq) /\ IsInjective(seq) /\ x \notin Range(seq)
    BY <2>1, <2>2
  <2> DEFINE kept == Kept(seq, set)
  <2>4. kept \in Seq(T) /\ Range(kept) = Range(seq) \cap set
    BY <2>1, KeptElements
  <2>5. \A some : Kept(Append(seq, x), some)
                     = IF x \in some THEN Append(Kept(seq, some), x) ELSE Kept(seq, some)
    BY <2>1, KeptAppend
  <2>6. CASE kept = <<>>
    <3>1. x \in set /\ Kept(Append(seq, x), set) = <<x>>
      <4>1. CASE x \in set
        <5>1. Kept(Append(seq, x), set) = Append(<<>>, x)
          BY <2>5, <2>6, <4>1
        <5>2. Append(<<>>, x) = <<x>>
          OBVIOUS
        <5> QED BY <4>1, <5>1, <5>2
      <4>2. CASE x \notin set
        <5>1. Kept(Append(seq, x), set) = <<>>
          BY <2>5, <2>6, <4>2
        <5> QED BY <2>2, <5>1
      <4> QED BY <4>1, <4>2
    <3>2. Head(<<x>>) = x /\ Tail(<<x>>) = <<>>
      OBVIOUS
    <3>3. Kept(Append(seq, x), set \ {x}) = Kept(seq, set \ {x})
      BY <2>5
    <3>4. Kept(seq, set \ {x}) = <<>>
      <4>1. Range(Kept(seq, set \ {x})) = Range(seq) \cap (set \ {x})
            /\ Kept(seq, set \ {x}) \in Seq(T)
        BY <2>1, KeptElements
      <4>2. Range(<<>>) = {}
        BY DEF Range
      <4>3. Range(Kept(seq, set \ {x})) = {}
        BY <2>4, <2>6, <4>1, <4>2
      <4> QED BY <4>1, <4>3, NothingInRange
    <3> QED BY <3>1, <3>2, <3>3, <3>4
  <2>7. CASE kept # <<>>
    <3> DEFINE h == Head(kept)
    <3>1. Kept(seq, set \ {h}) = Tail(kept)
      BY <2>3, <2>7
    <3>2. h \in Range(seq) /\ h # x
      <4>1. h \in Range(kept)
        BY <2>4, <2>7 DEF Range
      <4> QED BY <2>3, <2>4, <4>1
    <3>3. CASE x \in set
      <4>1. Kept(Append(seq, x), set) = Append(kept, x)
        BY <2>5, <3>3
      <4>2. Head(Append(kept, x)) = h /\ Tail(Append(kept, x)) = Append(Tail(kept), x)
        BY <2>4, <2>7
      <4>3. Kept(Append(seq, x), set \ {h}) = Append(Kept(seq, set \ {h}), x)
        BY <2>5, <3>2, <3>3
      <4> QED BY <3>1, <4>1, <4>2, <4>3
    <3>4. CASE x \notin set
      <4>1. Kept(Append(seq, x), set) = kept
        BY <2>5, <3>4
      <4>2. Kept(Append(seq, x), set \ {h}) = Kept(seq, set \ {h})
        BY <2>5, <3>4
      <4> QED BY <3>1, <4>1, <4>2
    <3> QED BY <3>3, <3>4
  <2> QED BY <2>6, <2>7
<1>3. S = Seq(T)
  <2>1. S \in SUBSET Seq(T)
    OBVIOUS
  <2> HIDE DEF S
  <2> QED BY <1>1, <1>2, <2>1, EverySequence
<1> QED BY <1>3

-----------------------------------------------------------------------------
(* Types *)

ModelSpecs == [name : Names \cup {None}, upstream : {"zen", "codex"}]

\* What has been decided may be put in force.
NextValid ==
    /\ \A o \in Operations : work[o].pc \in {"rebuild", "store"} => Valid(work[o].next)
    /\ \A f \in Fetchers : fetch[f].pc = "apply" => Valid(fetch[f].next)

TypeInv == RoutingTypeOK /\ NextValid

LEMMA ListsAreSequences ==
    /\ \A models \in Lists : models \in Seq(Names) /\ IsInjective(models)
    /\ <<>> \in Lists /\ \A models \in Lists : \A set : Kept(models, set) \in Lists
<1>1. \A models \in Lists : models \in Seq(Names) /\ IsInjective(models)
  BY DEF Lists
<1>2. <<>> \in Lists
  BY DEF Lists, IsInjective
<1>3. ASSUME NEW models \in Lists, NEW set
      PROVE  Kept(models, set) \in Lists
  BY <1>1, KeptElements DEF Lists
<1> QED BY <1>1, <1>2, <1>3

LEMMA ConfigTypes ==
    /\ Nothing \in Configs
    /\ \A cfg \in Configs : /\ cfg.models \in Lists /\ cfg.models \in Seq(Names)
                            /\ cfg.routing \in Names \cup {None} /\ cfg.url \in Urls
                            /\ cfg.unlisted \in BOOLEAN /\ cfg.only \in BOOLEAN
                            /\ Listed(cfg) \subseteq Names /\ DefaultModel(cfg) \in Names \cup {None}
                            /\ \A models \in Lists : [cfg EXCEPT !.models = models] \in Configs
    /\ main \in Configs => \A form \in Forms : Submitted(form) \in Configs
<1>1. ASSUME NEW cfg \in Configs
      PROVE  /\ cfg.models \in Lists /\ cfg.models \in Seq(Names)
             /\ cfg.routing \in Names \cup {None} /\ cfg.url \in Urls
             /\ cfg.unlisted \in BOOLEAN /\ cfg.only \in BOOLEAN
             /\ Listed(cfg) \subseteq Names /\ DefaultModel(cfg) \in Names \cup {None}
             /\ \A models \in Lists : [cfg EXCEPT !.models = models] \in Configs
  <2>1. cfg.models \in Lists /\ cfg.models \in Seq(Names)
    BY ListsAreSequences DEF Configs
  <2>2. Listed(cfg) \subseteq Names
    BY <2>1 DEF Listed, Range
  <2>3. DefaultModel(cfg) \in Names \cup {None}
    BY <2>1 DEF DefaultModel
  <2>4. \A models \in Lists : [cfg EXCEPT !.models = models] \in Configs
    BY DEF Configs
  <2> QED BY <2>1, <2>2, <2>3, <2>4 DEF Configs
<1>2. Nothing \in Configs
  BY ListsAreSequences, UrlsAssumption DEF Nothing, FromForm, Configs
<1>3. ASSUME main \in Configs, NEW form \in Forms
      PROVE  Submitted(form) \in Configs
  <2>1. /\ form.models \in Lists /\ form.routing \in Names \cup {None}
        /\ form.unlisted \in BOOLEAN /\ form.url \in Urls
    BY FormsAssumption
  <2>2. FromForm(form) \in Configs
    BY <2>1 DEF FromForm, Configs
  <2>3. main.models \in Lists
    BY <1>1, <1>3
  <2> QED BY <1>1, <2>1, <2>2, <2>3 DEF Submitted
<1> QED BY <1>1, <1>2, <1>3

LEMMA SpecTypes ==
    /\ \A name \in Names : Spec(name) \in ModelSpecs /\ Spec(name).name = name
                           /\ Spec(name).upstream = Home[name]
    /\ \A names \in Seq(Names) : /\ Specs(names) \in Seq(ModelSpecs) /\ Len(Specs(names)) = Len(names)
                                 /\ \A i \in 1 .. Len(names) : Specs(names)[i] = Spec(names[i])
<1>1. \A name \in Names : Spec(name) \in ModelSpecs /\ Spec(name).name = name
                          /\ Spec(name).upstream = Home[name]
  BY HomeAssumption DEF Spec, ModelSpecs
<1>2. ASSUME NEW names \in Seq(Names)
      PROVE  /\ Specs(names) \in Seq(ModelSpecs) /\ Len(Specs(names)) = Len(names)
             /\ \A i \in 1 .. Len(names) : Specs(names)[i] = Spec(names[i])
  BY <1>1 DEF Specs
<1> QED BY <1>1, <1>2

\* The models of the cached catalog.
Found == IF catalog.of = None THEN <<>> ELSE Free[catalog.of]

LEMMA DiscoveredTypes ==
    ASSUME catalog \in [url : Urls, of : Urls \cup {None}], NEW list
    PROVE  /\ Found \in Lists
           /\ Kept(Found, Names \ NamesOf(list)) \in Lists
           /\ Discovered(list) \in Seq(ModelSpecs)
           /\ Len(Discovered(list)) = Len(Kept(Found, Names \ NamesOf(list)))
           /\ \A i \in 1 .. Len(Discovered(list)) :
                 Discovered(list)[i] = [name |-> Kept(Found, Names \ NamesOf(list))[i],
                                        upstream |-> "zen"]
<1>1. Found \in Lists
  BY UrlsAssumption, ListsAreSequences DEF Found
<1> DEFINE new == Kept(Found, Names \ NamesOf(list))
<1>2. new \in Lists /\ new \in Seq(Names)
  BY <1>1, ListsAreSequences
<1>3. Discovered(list) = [i \in DOMAIN new |-> [name |-> new[i], upstream |-> "zen"]]
  BY DEF Discovered, Found
<1> HIDE DEF new
<1>4. /\ Discovered(list) \in Seq(ModelSpecs) /\ Len(Discovered(list)) = Len(new)
      /\ \A i \in 1 .. Len(Discovered(list)) :
            Discovered(list)[i] = [name |-> new[i], upstream |-> "zen"]
  <2> DEFINE n == Len(new)
             Item(i) == [name |-> new[i], upstream |-> "zen"]
             items == [i \in 1 .. n |-> Item(i)]
  <2>1. n \in Nat /\ DOMAIN new = 1 .. n /\ \A i \in 1 .. n : new[i] \in Names
    BY <1>2
  <2>2. Discovered(list) = items
    BY <1>3, <2>1
  <2>3. \A i \in 1 .. n : Item(i) \in ModelSpecs
    BY <2>1 DEF ModelSpecs
  <2> HIDE DEF Item, n
  <2>4. items \in Seq(ModelSpecs) /\ Len(items) = n /\ \A i \in 1 .. n : items[i] = Item(i)
    BY <2>1, <2>3
  <2> HIDE DEF items
  <2> QED BY <2>2, <2>4 DEF Item, n
<1> QED BY <1>1, <1>2, <1>4 DEF new

LEMMA PreferenceListType ==
    ASSUME RoutingTypeOK, NEW primary \in ModelSpecs
    PROVE  PreferenceList(primary) \in Seq(ModelSpecs)
<1> DEFINE names == Kept(handler.models, Usable)
           others == Kept(names, Names \ {primary.name})
           list == IF Spec(Head(names)) = primary THEN Specs(names) ELSE <<primary>> \o Specs(others)
<1>1. names \in Seq(Names) /\ others \in Seq(Names)
  BY ListsAreSequences, ConfigTypes DEF RoutingTypeOK
<1>2. <<primary>> \in Seq(ModelSpecs) /\ Specs(names) \in Seq(ModelSpecs)
      /\ Specs(others) \in Seq(ModelSpecs)
  BY <1>1, SpecTypes
<1>3. list \in Seq(ModelSpecs)
  BY <1>2
<1>4. Discovered(list) \in Seq(ModelSpecs)
  BY DiscoveredTypes DEF RoutingTypeOK
<1>5. PreferenceList(primary) = IF names = <<>> THEN <<primary>>
                                ELSE IF handler.only THEN list ELSE list \o Discovered(list)
  BY DEF PreferenceList
<1> HIDE DEF list, names
<1> QED BY <1>2, <1>3, <1>4, <1>5

-----------------------------------------------------------------------------
(* The type invariant *)

\* How the record types read.
LEMMA RequestTypes ==
    ASSUME request \in Requests
    PROVE  /\ request.ask \in Names \cup {None} /\ request.resolved \in Names \cup {None}
           /\ request.upstream \in {"zen", "codex"} /\ request.inForce \subseteq Configs
           /\ request.list \in Seq(ModelSpecs)
BY DEF Requests, ModelSpecs

LEMMA RequestChanges ==
    ASSUME request \in Requests
    PROVE  /\ \A pc \in {"ready", "resolve", "compare", "kind", "route", "allow", "listed",
                         "upstream", "build"}, name \in Names \cup {None} :
                 Requested(pc, name) => request' \in Requests
           /\ \A answer \in {"none", "not ready", "refused", "list"}, list \in Seq(ModelSpecs) :
                 Answers(answer, list) => request' \in Requests
           /\ \A ask \in Names \cup {None}, inForce \in SUBSET Configs :
                 [request EXCEPT !.pc = "ready", !.ask = ask, !.inForce = inForce] \in Requests
           /\ \A inForce \in SUBSET Configs : [request EXCEPT !.inForce = inForce] \in Requests
           /\ \A upstream \in {"zen", "codex"} :
                 [request EXCEPT !.pc = "build", !.upstream = upstream] \in Requests
<1> DEFINE Some == SUBSET Configs
           Specifications == Seq(ModelSpecs)
           Someone == Names \cup {None}
<1>1. Requests = [ pc : {"idle", "ready", "resolve", "compare", "kind", "route", "allow", "listed",
                         "upstream", "build", "done"},
                   ask : Someone, resolved : Someone, upstream : {"zen", "codex"},
                   answer : {"none", "not ready", "refused", "list"},
                   list : Specifications, inForce : Some ]
  BY DEF Requests, ModelSpecs
<1>2. None \in Someone
  OBVIOUS
<1> HIDE DEF Some, Specifications, Someone
<1>3. \A pc \in {"ready", "resolve", "compare", "kind", "route", "allow", "listed", "upstream",
                 "build"}, name \in Someone :
          [request EXCEPT !.pc = pc, !.resolved = name] \in Requests
  BY <1>1
<1>4. \A answer \in {"none", "not ready", "refused", "list"}, list \in Specifications :
          [request EXCEPT !.pc = "done", !.answer = answer, !.list = list, !.resolved = None,
                          !.upstream = "zen"] \in Requests
  BY <1>1, <1>2
<1>5. \A ask \in Someone, inForce \in Some :
          [request EXCEPT !.pc = "ready", !.ask = ask, !.inForce = inForce] \in Requests
  BY <1>1
<1>6. \A inForce \in Some : [request EXCEPT !.inForce = inForce] \in Requests
  BY <1>1
<1>7. \A upstream \in {"zen", "codex"} :
          [request EXCEPT !.pc = "build", !.upstream = upstream] \in Requests
  BY <1>1
<1>8. \A pc \in {"ready", "resolve", "compare", "kind", "route", "allow", "listed", "upstream",
                  "build"}, name \in Someone : Requested(pc, name) => request' \in Requests
  <2> SUFFICES ASSUME NEW pc \in {"ready", "resolve", "compare", "kind", "route", "allow",
                                  "listed", "upstream", "build"},
                      NEW name \in Someone, Requested(pc, name)
               PROVE  request' \in Requests
    OBVIOUS
  <2>1. request' = [request EXCEPT !.pc = pc, !.resolved = name]
    BY DEF Requested
  <2> QED BY <1>3, <2>1
<1>9. \A answer \in {"none", "not ready", "refused", "list"}, list \in Specifications :
          Answers(answer, list) => request' \in Requests
  <2> SUFFICES ASSUME NEW answer \in {"none", "not ready", "refused", "list"},
                      NEW list \in Specifications, Answers(answer, list)
               PROVE  request' \in Requests
    OBVIOUS
  <2>1. request' = [request EXCEPT !.pc = "done", !.answer = answer, !.list = list,
                                   !.resolved = None, !.upstream = "zen"]
    BY DEF Answers
  <2> QED BY <1>4, <2>1
<1> QED BY <1>5, <1>6, <1>7, <1>8, <1>9 DEF Some, Specifications, Someone

LEMMA TypeInitially == RoutingInit => TypeInv
<1> SUFFICES ASSUME RoutingInit PROVE TypeInv
  OBVIOUS
<1>1. PICK first \in FirstStarts :
          file = first.file /\ overrides = first.overrides /\ codex = first.codex
  BY DEF RoutingInit
<1>2. file \in Configs /\ overrides \in Lists /\ codex \in BOOLEAN
  BY <1>1, FirstAssumption
<1>3. Loaded \in Configs
  BY <1>2, ConfigTypes DEF Loaded
<1>4. Valid(handler) /\ Valid(main) /\ {handler, main, file} \subseteq Configs
  BY <1>2, <1>3 DEF RoutingInit
<1>5. catalog \in [url : Urls, of : Urls \cup {None}]
  BY <1>2, ConfigTypes DEF RoutingInit
<1>6. work \in [Operations ->
                  [pc : {"idle", "rebuild", "store", "take", "persist", "over"}, next : Configs]]
      /\ \A o \in Operations : work[o].pc = "idle"
  BY ConfigTypes DEF RoutingInit
<1>7. fetch \in [Fetchers -> [pc : {"idle", "asked", "discover", "apply", "over"},
                              url : Urls, next : Configs]]
      /\ \A f \in Fetchers : fetch[f].pc = "idle"
  BY ConfigTypes, UrlsAssumption DEF RoutingInit, Unfetched
<1>8. request \in Requests
  <2>1. <<>> \in Seq([name : Names \cup {None}, upstream : {"zen", "codex"}])
    OBVIOUS
  <2> QED BY <2>1 DEF RoutingInit, Requests
<1>9. NextValid
  BY <1>6, <1>7 DEF NextValid
<1> QED BY <1>2, <1>4, <1>5, <1>6, <1>7, <1>8, <1>9 DEF TypeInv, RoutingTypeOK, RoutingInit

\* A step of the request changes nothing else, and keeps its type.
LEMMA RequestStepTypes ==
    ASSUME RoutingTypeOK, RequestStep
    PROVE  request' \in Requests /\ UNCHANGED unrouted
<1>1. request \in Requests /\ handler \in Configs
  BY DEF RoutingTypeOK
<1>2. /\ \A pc \in {"ready", "resolve", "compare", "kind", "route", "allow", "listed", "upstream",
                    "build"}, name \in Names \cup {None} :
            Requested(pc, name) => request' \in Requests
      /\ \A answer \in {"none", "not ready", "refused", "list"}, list \in Seq(ModelSpecs) :
            Answers(answer, list) => request' \in Requests
  BY <1>1, RequestChanges
<1>3. request.resolved \in Names \cup {None} /\ request.upstream \in {"zen", "codex"}
      /\ request.ask \in Names \cup {None}
  BY <1>1, RequestTypes
<1>4. handler.routing \in Names \cup {None} /\ DefaultModel(handler) \in Names \cup {None}
      /\ None \in Names \cup {None} /\ Listed(handler) \subseteq Names
  BY <1>1, ConfigTypes
<1>5. <<>> \in Seq(ModelSpecs)
  OBVIOUS
<1>6. CASE Arrives
  <2>1. PICK ask \in Names \cup {None} :
           request' = [request EXCEPT !.pc = "ready", !.ask = ask, !.inForce = {handler}]
    BY <1>6 DEF Arrives
  <2>2. {handler} \in SUBSET Configs
    BY <1>1
  <2> QED BY <1>1, <1>6, <2>1, <2>2, RequestChanges DEF Arrives
<1>7. CASE ChecksReady
  BY <1>2, <1>4, <1>5, <1>7 DEF ChecksReady
<1>8. CASE Resolves
  BY <1>2, <1>3, <1>4, <1>8 DEF Resolves
<1>9. CASE ComparesDefault
  BY <1>2, <1>3, <1>9 DEF ComparesDefault
<1>10. CASE ChecksRouting
  BY <1>2, <1>3, <1>10 DEF ChecksRouting
<1>11. CASE Routes
  BY <1>2, <1>4, <1>11 DEF Routes
<1>12. CASE ChecksUnlisted
  BY <1>2, <1>3, <1>12 DEF ChecksUnlisted
<1>13. CASE ChecksAllowed
  BY <1>2, <1>3, <1>5, <1>13 DEF ChecksAllowed
<1>14. CASE FindsUpstream
  <2>1. UpstreamForModel(handler, request.resolved) \in {"zen", "codex"}
    BY <1>4, HomeAssumption DEF UpstreamForModel
  <2>2. request' = [request EXCEPT !.pc = "build",
                                   !.upstream = UpstreamForModel(handler, request.resolved)]
        /\ UNCHANGED unrouted
    BY <1>14 DEF FindsUpstream
  <2> HIDE DEF UpstreamForModel
  <2> QED BY <1>1, <2>1, <2>2, RequestChanges
<1>15. CASE BuildsList
  <2> DEFINE primary == [name |-> request.resolved, upstream |-> request.upstream]
  <2>1. primary \in ModelSpecs
    BY <1>3 DEF ModelSpecs
  <2> HIDE DEF primary
  <2>2. PreferenceList(primary) \in Seq(ModelSpecs)
    BY <2>1, PreferenceListType
  <2>3. Answers("list", PreferenceList(primary)) /\ UNCHANGED unrouted
    BY <1>15 DEF BuildsList, primary
  <2> QED BY <1>2, <2>2, <2>3
<1> QED BY <1>6, <1>7, <1>8, <1>9, <1>10, <1>11, <1>12, <1>13, <1>14, <1>15 DEF RequestStep

\* UpdateConfig.
LEMMA PublishesTypes ==
    ASSUME RoutingTypeOK, NEW cfg \in Configs, Publishes(cfg)
    PROVE  handler' = cfg /\ request' \in Requests
<1>1. handler' = cfg /\ request' = [request EXCEPT !.inForce =
                           IF request.pc \in {"idle", "done"} THEN request.inForce
                           ELSE request.inForce \cup {cfg}]
  BY DEF Publishes
<1>2. request \in Requests /\ request.inForce \subseteq Configs
  BY RequestTypes DEF RoutingTypeOK
<1>3. (IF request.pc \in {"idle", "done"} THEN request.inForce ELSE request.inForce \cup {cfg})
         \in SUBSET Configs
  BY <1>2
<1> QED BY <1>1, <1>2, <1>3, RequestChanges

\* What an operation does is its own.
Works == [pc : {"idle", "rebuild", "store", "take", "persist", "over"}, next : Configs]
Fetches == [pc : {"idle", "asked", "discover", "apply", "over"}, url : Urls, next : Configs]

LEMMA GoesTo ==
    ASSUME work \in [Operations -> Works], NEW o \in Operations, NEW next \in Configs,
           NEW pc \in {"idle", "rebuild", "store", "take", "persist", "over"}, Goes(o, pc, next)
    PROVE  /\ work' \in [Operations -> Works] /\ work'[o].pc = pc /\ work'[o].next = next
           /\ \A w \in Operations \ {o} : work'[w] = work[w]
BY DEF Goes, Works

\* The steps of a fetch, and what is found by it.
LEMMA FetchStepTypes ==
    ASSUME TypeInv, NEW f \in Fetchers, FetchStep(f)
    PROVE  /\ fetch' \in [Fetchers -> Fetches]
           /\ \A g \in Fetchers \ {f} : fetch'[g] = fetch[g]
           /\ catalog' \in [url : Urls, of : Urls \cup {None}]
           /\ request' \in Requests /\ handler' \in Configs /\ Valid(handler')
           /\ {overlapped', crossed'} \subseteq BOOLEAN
           /\ fetch'[f].pc = "apply" => Valid(fetch'[f].next)
           /\ UNCHANGED <<main, file, overrides, codex, work>>
<1>1. /\ fetch \in [Fetchers -> Fetches] /\ request \in Requests
      /\ catalog \in [url : Urls, of : Urls \cup {None}]
      /\ handler \in Configs /\ Valid(handler) /\ overlapped \in BOOLEAN /\ crossed \in BOOLEAN
  BY DEF TypeInv, RoutingTypeOK, Fetches
<1>2. fetch[f] \in Fetches /\ fetch[f].url \in Urls /\ fetch[f].next \in Configs
      /\ catalog.url \in Urls
  BY <1>1 DEF Fetches
<1>3. Unfetched \in Fetches /\ [Unfetched EXCEPT !.pc = "over"] \in Fetches
      /\ [Unfetched EXCEPT !.pc = "discover"] \in Fetches
      /\ [Unfetched EXCEPT !.pc = "over"].pc = "over"
      /\ [Unfetched EXCEPT !.pc = "discover"].pc = "discover"
  BY ConfigTypes, UrlsAssumption DEF Unfetched, Fetches
<1>4. CASE FetchStarts(f)
  <2>1. fetch' \in [Fetchers -> Fetches] /\ fetch'[f].pc = "asked"
        /\ \A g \in Fetchers \ {f} : fetch'[g] = fetch[g]
    BY <1>1, <1>2, <1>4 DEF FetchStarts, Fetches
  <2> QED BY <1>1, <1>4, <2>1 DEF FetchStarts, configVars, Valid
<1>5. CASE FetchFails(f)
  <2>1. fetch' \in [Fetchers -> Fetches] /\ fetch'[f].pc = "over"
        /\ \A g \in Fetchers \ {f} : fetch'[g] = fetch[g]
    BY <1>1, <1>3, <1>5 DEF FetchFails
  <2> QED BY <1>1, <1>5, <2>1 DEF FetchFails, configVars, Valid
<1>6. CASE FetchEnds(f)
  <2>1. fetch' \in [Fetchers -> Fetches] /\ fetch'[f].pc # "apply"
        /\ \A g \in Fetchers \ {f} : fetch'[g] = fetch[g]
    <3>1. fetch' = [fetch EXCEPT ![f] =
                        [Unfetched EXCEPT !.pc = IF f = Startup THEN "discover" ELSE "over"]]
      BY <1>6 DEF FetchEnds
    <3> QED BY <1>1, <1>3, <3>1
  <2>2. catalog' \in [url : Urls, of : Urls \cup {None}]
    BY <1>1, <1>2, <1>6 DEF FetchEnds
  <2> QED BY <1>1, <1>6, <2>1, <2>2 DEF FetchEnds, configVars, Valid
<1>7. CASE Discovers(f)
  <2>1. Found \in Lists
    BY <1>1, DiscoveredTypes
  <2>2. [handler EXCEPT !.models = Found] \in Configs
        /\ [handler EXCEPT !.models = Found].models = Found
    BY <1>1, <2>1, ConfigTypes DEF Configs
  <2> DEFINE fresh == handler.models = <<>> /\ Found # <<>>
  <2>3. fetch' = [fetch EXCEPT ![f].pc = IF fresh THEN "apply" ELSE "over",
                               ![f].next = IF fresh THEN [handler EXCEPT !.models = Found]
                                           ELSE @]
        /\ UNCHANGED <<configVars, catalog, work, request, crossed>>
        /\ IF fresh THEN Overlaps(f) ELSE UNCHANGED overlapped
    BY <1>7 DEF Discovers, Found
  <2> HIDE DEF Found
  <2>4. fetch' \in [Fetchers -> Fetches] /\ \A g \in Fetchers \ {f} : fetch'[g] = fetch[g]
    BY <1>1, <1>2, <2>2, <2>3 DEF Fetches
  <2>5. fetch'[f].pc = "apply" => fetch'[f].next = [handler EXCEPT !.models = Found] /\ fresh
    BY <1>1, <1>2, <2>3 DEF Fetches
  <2>6. fetch'[f].pc = "apply" => Valid(fetch'[f].next)
    BY <2>2, <2>5 DEF Valid
  <2>7. overlapped' \in BOOLEAN
    BY <1>1, <2>3 DEF Overlaps
  <2> QED BY <1>1, <2>3, <2>4, <2>6, <2>7 DEF configVars, Valid
<1>8. CASE Applies(f)
  <2>1. fetch[f].pc = "apply" /\ Valid(fetch[f].next)
    BY <1>8 DEF Applies, TypeInv, NextValid
  <2>2. handler' = fetch[f].next /\ request' \in Requests
    BY <1>2, <1>8, PublishesTypes DEF Applies, TypeInv
  <2>3. fetch' \in [Fetchers -> Fetches] /\ fetch'[f].pc = "over"
        /\ \A g \in Fetchers \ {f} : fetch'[g] = fetch[g]
    BY <1>1, <1>2, <1>8, ConfigTypes DEF Applies, Fetches
  <2> QED BY <1>1, <1>2, <1>8, <2>1, <2>2, <2>3 DEF Applies
<1> QED BY <1>4, <1>5, <1>6, <1>7, <1>8 DEF FetchStep

\* The steps of an operation.
LEMMA RebuildRouterTypes ==
    ASSUME TypeInv, NEW o \in Operations, RebuildRouter(o)
    PROVE  TypeInv'
<1>1. /\ work \in [Operations -> Works] /\ crossed \in BOOLEAN
      /\ catalog \in [url : Urls, of : Urls \cup {None}]
  BY DEF TypeInv, RoutingTypeOK, Works
<1>2. work[o].next \in Configs /\ work[o].next.url \in Urls /\ Valid(work[o].next)
  BY <1>1, ConfigTypes DEF Works, RebuildRouter, TypeInv, NextValid
<1>3. /\ work' \in [Operations -> Works] /\ work'[o].pc = "persist"
      /\ \A w \in Operations \ {o} : work'[w] = work[w]
  BY <1>1, <1>2, GoesTo DEF RebuildRouter
<1>4. catalog' \in [url : Urls, of : Urls \cup {None}] /\ crossed' \in BOOLEAN
  BY <1>1, <1>2 DEF RebuildRouter
<1>5. main' = work[o].next /\ UNCHANGED <<handler, file, overrides, codex, fetch, request, overlapped>>
  BY DEF RebuildRouter
<1>6. RoutingTypeOK'
  BY <1>2, <1>3, <1>4, <1>5 DEF TypeInv, RoutingTypeOK, Works, Valid
<1>7. NextValid'
  BY <1>3, <1>5 DEF TypeInv, NextValid, Valid
<1> QED BY <1>6, <1>7 DEF TypeInv

\* A reordering asks for some of the models that there are.
LEMMA ReorderTypes ==
    ASSUME handler \in Configs, NEW names \in Orders
    PROVE  /\ Kept(names, Listed(handler)) \in Lists
           /\ [handler EXCEPT !.models = Kept(names, Listed(handler))] \in Configs
           /\ [handler EXCEPT !.models = Kept(names, Listed(handler))].models
                  = Kept(names, Listed(handler))
<1>1. Kept(names, Listed(handler)) \in Lists
  BY OrdersAssumption, ListsAreSequences
<1> QED BY <1>1, ConfigTypes DEF Configs

LEMMA OperationStepTypes ==
    ASSUME TypeInv, NEW o \in Operations, OperationStep(o)
    PROVE  TypeInv'
<1>1. /\ work \in [Operations -> Works] /\ request \in Requests
      /\ handler \in Configs /\ main \in Configs /\ file \in Configs /\ overrides \in Lists
      /\ Valid(handler) /\ Valid(main) /\ overlapped \in BOOLEAN
  BY DEF TypeInv, RoutingTypeOK, Works
<1>2. work[o] \in Works /\ work[o].next \in Configs
  BY <1>1 DEF Works
<1>3. CASE Save(o)
  <2>1. PICK form \in Forms :
           LET next == Submitted(form) IN
           /\ Valid(next)
           /\ Goes(o, "rebuild", next) /\ Publishes(next) /\ Overlaps(o)
           /\ UNCHANGED <<main, file, overrides, codex, catalog, fetch, crossed>>
    BY <1>3 DEF Save
  <2> DEFINE next == Submitted(form)
  <2>2. next \in Configs
    BY <1>1, ConfigTypes
  <2> HIDE DEF next
  <2>3. /\ work' \in [Operations -> Works] /\ work'[o].pc = "rebuild" /\ work'[o].next = next
        /\ \A w \in Operations \ {o} : work'[w] = work[w]
    BY <1>1, <2>1, <2>2, GoesTo DEF next
  <2>4. handler' = next /\ request' \in Requests /\ Valid(next)
    BY <2>1, <2>2, PublishesTypes DEF TypeInv, next
  <2>5. overlapped' \in BOOLEAN
    BY <1>1, <2>1 DEF Overlaps
  <2>6. RoutingTypeOK'
    BY <2>1, <2>2, <2>3, <2>4, <2>5 DEF TypeInv, RoutingTypeOK, Works, Valid
  <2>7. NextValid'
    BY <2>1, <2>3, <2>4 DEF TypeInv, NextValid, Valid
  <2> QED BY <2>6, <2>7 DEF TypeInv
<1>4. CASE RebuildRouter(o)
  BY <1>4, RebuildRouterTypes
<1>5. CASE Reorder(o)
  <2>1. PICK names \in Orders :
           LET models == Kept(names, Listed(handler)) IN
           /\ Goes(o, IF models = <<>> THEN "take" ELSE "store", [handler EXCEPT !.models = models])
           /\ Overlaps(o)
           /\ UNCHANGED <<configVars, catalog, fetch, request, crossed>>
    BY <1>5 DEF Reorder
  <2> DEFINE models == Kept(names, Listed(handler))
             next == [handler EXCEPT !.models = models]
             pc == IF models = <<>> THEN "take" ELSE "store"
  <2>2. next \in Configs /\ next.models = models
    BY <1>1, ReorderTypes
  <2>3. /\ Goes(o, pc, next) /\ Overlaps(o) /\ pc \in {"take", "store"}
        /\ pc = "store" => models # <<>>
        /\ UNCHANGED <<configVars, catalog, fetch, request, crossed>>
    BY <2>1
  <2> HIDE DEF models, next, pc
  <2>4. /\ work' \in [Operations -> Works] /\ work'[o].pc = pc /\ work'[o].next = next
        /\ \A w \in Operations \ {o} : work'[w] = work[w]
    BY <1>1, <2>2, <2>3, GoesTo
  <2>5. overlapped' \in BOOLEAN
    BY <1>1, <2>3 DEF Overlaps
  <2>6. RoutingTypeOK'
    BY <2>3, <2>4, <2>5 DEF TypeInv, RoutingTypeOK, Works, Valid, configVars
  <2>7. NextValid'
    BY <2>2, <2>3, <2>4 DEF TypeInv, NextValid, Valid, configVars
  <2> QED BY <2>6, <2>7 DEF TypeInv
<1>6. CASE Stores(o)
  <2>1. /\ work' \in [Operations -> Works] /\ work'[o].pc = "take"
        /\ \A w \in Operations \ {o} : work'[w] = work[w]
    BY <1>1, <1>2, <1>6, GoesTo DEF Stores
  <2>2. Valid(work[o].next) /\ handler' = work[o].next /\ request' \in Requests
    BY <1>2, <1>6, PublishesTypes DEF Stores, TypeInv, NextValid
  <2>3. UNCHANGED <<main, file, overrides, codex, catalog, fetch, overlapped, crossed>>
    BY <1>6 DEF Stores
  <2>4. RoutingTypeOK'
    BY <1>2, <2>1, <2>2, <2>3 DEF TypeInv, RoutingTypeOK, Works, Valid
  <2>5. NextValid'
    BY <2>1, <2>3 DEF TypeInv, NextValid, Valid
  <2> QED BY <2>4, <2>5 DEF TypeInv
<1>7. CASE Takes(o)
  <2>1. /\ work' \in [Operations -> Works] /\ work'[o].pc = "persist"
        /\ \A w \in Operations \ {o} : work'[w] = work[w]
    BY <1>1, <1>7, GoesTo DEF Takes
  <2>2. main' = handler
        /\ UNCHANGED <<handler, file, overrides, codex, catalog, fetch, request, overlapped, crossed>>
    BY <1>7 DEF Takes
  <2>3. RoutingTypeOK'
    BY <2>1, <2>2 DEF TypeInv, RoutingTypeOK, Works, Valid
  <2>4. NextValid'
    BY <2>1, <2>2 DEF TypeInv, NextValid, Valid
  <2> QED BY <2>3, <2>4 DEF TypeInv
<1>8. CASE Persists(o)
  <2>1. /\ work' \in [Operations -> Works] /\ work'[o].pc = "over"
        /\ \A w \in Operations \ {o} : work'[w] = work[w]
    BY <1>1, <1>8, GoesTo, ConfigTypes DEF Persists
  <2>2. file' = work[o].next
        /\ UNCHANGED <<handler, main, overrides, codex, catalog, fetch, request, overlapped, crossed>>
    BY <1>8 DEF Persists
  <2>3. RoutingTypeOK'
    BY <1>2, <2>1, <2>2 DEF TypeInv, RoutingTypeOK, Works, Valid
  <2>4. NextValid'
    BY <2>1, <2>2 DEF TypeInv, NextValid, Valid
  <2> QED BY <2>3, <2>4 DEF TypeInv
<1>9. CASE Restarts(o)
  <2>1. Loaded \in Configs /\ Valid(Loaded) /\ Loaded.url \in Urls
    BY <1>1, <1>9, ConfigTypes DEF Loaded, Restarts
  <2>2. /\ handler' = Loaded /\ main' = Loaded /\ catalog' = [url |-> Loaded.url, of |-> None]
        /\ UNCHANGED <<file, overrides, codex, overlapped, crossed>>
    BY <1>9 DEF Restarts
  <2>3. work' = [w \in Operations |->
                    IF w = o \/ work[w].pc # "idle" THEN [pc |-> "over", next |-> Nothing]
                    ELSE work[w]]
    BY <1>9 DEF Restarts
  <2>4. [pc |-> "over", next |-> Nothing] \in Works
    BY ConfigTypes DEF Works
  <2>5. work' \in [Operations -> Works] /\ \A w \in Operations : work'[w].pc \in {"over", "idle"}
    BY <1>1, <2>3, <2>4
  <2>6. Unfetched \in Fetches /\ [Unfetched EXCEPT !.pc = "over"] \in Fetches
        /\ Unfetched.pc = "idle" /\ [Unfetched EXCEPT !.pc = "over"].pc = "over"
    BY ConfigTypes, UrlsAssumption DEF Unfetched, Fetches
  <2>7. fetch' = [f \in Fetchers |-> IF f = Startup \/ fetch[f].pc = "idle"
                                     THEN Unfetched ELSE [Unfetched EXCEPT !.pc = "over"]]
    BY <1>9 DEF Restarts
  <2>8. fetch' \in [Fetchers -> Fetches] /\ \A f \in Fetchers : fetch'[f].pc \in {"over", "idle"}
    BY <2>6, <2>7
  <2>9. request' \in Requests
    <3>1. <<>> \in Seq(ModelSpecs)
      OBVIOUS
    <3>2. UNCHANGED request \/ Answers("none", <<>>)
      BY <1>9 DEF Restarts
    <3> QED BY <1>1, <3>1, <3>2, RequestChanges
  <2>10. catalog' \in [url : Urls, of : Urls \cup {None}]
    BY <2>1, <2>2
  <2> HIDE DEF Loaded
  <2>11. RoutingTypeOK'
    BY <2>1, <2>2, <2>5, <2>8, <2>9, <2>10 DEF TypeInv, RoutingTypeOK, Works, Fetches, Valid
  <2>12. NextValid'
    BY <2>5, <2>8 DEF NextValid
  <2> QED BY <2>11, <2>12 DEF TypeInv
<1> QED BY <1>3, <1>4, <1>5, <1>6, <1>7, <1>8, <1>9 DEF OperationStep

LEMMA TypeNext == TypeInv /\ [RoutingNext]_vars => TypeInv'
<1> SUFFICES ASSUME TypeInv, [RoutingNext]_vars PROVE TypeInv'
  OBVIOUS
<1>1. CASE RequestStep
  <2>1. request' \in Requests /\ UNCHANGED unrouted
    BY <1>1, RequestStepTypes DEF TypeInv
  <2> QED BY <2>1 DEF TypeInv, RoutingTypeOK, NextValid, unrouted, configVars, Valid
<1>2. ASSUME NEW f \in Fetchers, FetchStep(f)
      PROVE  TypeInv'
  <2>1. /\ fetch' \in [Fetchers -> Fetches]
        /\ \A g \in Fetchers \ {f} : fetch'[g] = fetch[g]
        /\ catalog' \in [url : Urls, of : Urls \cup {None}]
        /\ request' \in Requests /\ handler' \in Configs /\ Valid(handler')
        /\ {overlapped', crossed'} \subseteq BOOLEAN
        /\ fetch'[f].pc = "apply" => Valid(fetch'[f].next)
        /\ UNCHANGED <<main, file, overrides, codex, work>>
    BY <1>2, FetchStepTypes
  <2>2. RoutingTypeOK'
    BY <2>1 DEF TypeInv, RoutingTypeOK, Fetches, Valid
  <2>3. NextValid'
    BY <2>1 DEF TypeInv, NextValid, Valid
  <2> QED BY <2>2, <2>3 DEF TypeInv
<1>3. ASSUME NEW o \in Operations, OperationStep(o)
      PROVE  TypeInv'
  BY <1>3, OperationStepTypes
<1>4. CASE UNCHANGED vars
  BY <1>4 DEF vars, TypeInv, RoutingTypeOK, NextValid, Valid
<1> QED BY <1>1, <1>2, <1>3, <1>4 DEF RoutingNext

\* Every configuration in force, kept by main, in the file or on its way to be
\* one is a configuration, and those in force always name a model or fetch the
\* catalog of OpenCode Zen, whoever changes them (config_validate.go, main.go).
THEOREM RoutingTyped == RoutingSpec => []RoutingTypeOK
<1>1. RoutingSpec => []TypeInv
  BY TypeInitially, TypeNext, PTL DEF RoutingSpec
<1>2. TypeInv => RoutingTypeOK
  BY DEF TypeInv
<1> QED BY <1>1, <1>2, PTL

-----------------------------------------------------------------------------
(* CatalogOfUpstream *)

\* The URL a fetch was given is still the catalog's.
CatalogInv ==
    /\ \A f \in Fetchers : fetch[f].pc = "asked" => fetch[f].url = catalog.url \/ crossed
    /\ CatalogOfUpstream

LEMMA CatalogInitially == RoutingInit => CatalogInv
<1> SUFFICES ASSUME RoutingInit PROVE CatalogInv
  OBVIOUS
<1>1. \A f \in Fetchers : fetch[f].pc = "idle"
  BY DEF RoutingInit, Unfetched
<1>2. catalog.of = None
  BY DEF RoutingInit
<1> QED BY <1>1, <1>2 DEF CatalogInv, CatalogOfUpstream

LEMMA CatalogNext == TypeInv /\ CatalogInv /\ [RoutingNext]_vars => CatalogInv'
<1> SUFFICES ASSUME TypeInv, CatalogInv, [RoutingNext]_vars PROVE CatalogInv'
  OBVIOUS
<1>1. /\ fetch \in [Fetchers -> Fetches] /\ work \in [Operations -> Works] /\ crossed \in BOOLEAN
      /\ catalog \in [url : Urls, of : Urls \cup {None}]
  BY DEF TypeInv, RoutingTypeOK, Fetches, Works
<1>2. \A f \in Fetchers : fetch[f] \in Fetches
  BY <1>1
<1>3. CASE UNCHANGED <<catalog, fetch, crossed>>
  BY <1>3 DEF CatalogInv, CatalogOfUpstream
<1>4. CASE RequestStep
  BY <1>3, <1>4, RequestStepTypes DEF unrouted, TypeInv
<1>5. ASSUME NEW f \in Fetchers, FetchStarts(f)
      PROVE  CatalogInv'
  <2>1. UNCHANGED <<catalog, crossed>> /\ fetch'[f].url = catalog.url
        /\ \A g \in Fetchers \ {f} : fetch'[g] = fetch[g]
    BY <1>1, <1>2, <1>5 DEF FetchStarts, Fetches
  <2> QED BY <2>1 DEF CatalogInv, CatalogOfUpstream
<1>6. ASSUME NEW f \in Fetchers, FetchFails(f)
      PROVE  CatalogInv'
  <2>1. UNCHANGED <<catalog, crossed>> /\ fetch'[f].pc = "over"
        /\ \A g \in Fetchers \ {f} : fetch'[g] = fetch[g]
    BY <1>1, <1>2, <1>6 DEF FetchFails, Unfetched
  <2> QED BY <2>1 DEF CatalogInv, CatalogOfUpstream
<1>7. ASSUME NEW f \in Fetchers, FetchEnds(f)
      PROVE  CatalogInv'
  <2>1. /\ catalog' = [catalog EXCEPT !.of = IF Free[fetch[f].url] = <<>> THEN @ ELSE fetch[f].url]
        /\ fetch[f].pc = "asked" /\ crossed' = crossed
        /\ fetch' = [fetch EXCEPT ![f] =
                         [Unfetched EXCEPT !.pc = IF f = Startup THEN "discover" ELSE "over"]]
    BY <1>7 DEF FetchEnds
  <2>2. catalog'.url = catalog.url /\ catalog'.of \in {catalog.of, fetch[f].url}
    BY <1>1, <2>1
  <2>3. fetch'[f].pc # "asked" /\ \A g \in Fetchers \ {f} : fetch'[g] = fetch[g]
    BY <1>1, <2>1 DEF Unfetched
  <2> QED BY <2>1, <2>2, <2>3 DEF CatalogInv, CatalogOfUpstream
<1>8. ASSUME NEW f \in Fetchers, Discovers(f)
      PROVE  CatalogInv'
  <2>1. UNCHANGED <<catalog, crossed>> /\ fetch'[f].pc \in {"apply", "over"}
        /\ \A g \in Fetchers \ {f} : fetch'[g] = fetch[g]
    BY <1>1, <1>2, <1>8 DEF Discovers, Fetches
  <2> QED BY <2>1 DEF CatalogInv, CatalogOfUpstream
<1>9. ASSUME NEW f \in Fetchers, Applies(f)
      PROVE  CatalogInv'
  <2>1. UNCHANGED <<catalog, crossed>> /\ fetch'[f].pc = "over"
        /\ \A g \in Fetchers \ {f} : fetch'[g] = fetch[g]
    BY <1>1, <1>2, <1>9 DEF Applies, Fetches
  <2> QED BY <2>1 DEF CatalogInv, CatalogOfUpstream
<1>10. ASSUME NEW o \in Operations, RebuildRouter(o)
       PROVE  CatalogInv'
  <2>1. catalog'.of = None /\ fetch' = fetch
        /\ crossed' = (crossed \/ \E f \in Fetchers : fetch[f].pc = "asked")
    BY <1>10 DEF RebuildRouter
  <2> QED BY <2>1 DEF CatalogInv, CatalogOfUpstream
<1>11. ASSUME NEW o \in Operations, Restarts(o)
       PROVE  CatalogInv'
  <2>1. catalog'.of = None /\ \A f \in Fetchers : fetch'[f].pc \in {"idle", "over"}
    BY <1>11 DEF Restarts, Unfetched
  <2> QED BY <2>1 DEF CatalogInv, CatalogOfUpstream
<1>12. ASSUME NEW o \in Operations, OperationStep(o)
       PROVE  CatalogInv'
  <2>1. CASE Save(o) \/ Reorder(o) \/ Stores(o) \/ Takes(o) \/ Persists(o)
    BY <1>3, <2>1 DEF Save, Reorder, Stores, Takes, Persists
  <2> QED BY <1>10, <1>11, <1>12, <2>1 DEF OperationStep
<1>13. CASE UNCHANGED vars
  BY <1>3, <1>13 DEF vars
<1> QED BY <1>4, <1>5, <1>6, <1>7, <1>8, <1>9, <1>12, <1>13 DEF RoutingNext, FetchStep

\* The cached catalog is of the upstream configured, unless a fetch was under way
\* when a save reconfigured it (Catalog.Reconfigure and fetch, catalog.go).
THEOREM CatalogProved == RoutingSpec => []CatalogOfUpstream
<1>1. RoutingSpec => [](TypeInv /\ CatalogInv)
  BY TypeInitially, TypeNext, CatalogInitially, CatalogNext, PTL DEF RoutingSpec
<1>2. CatalogInv => CatalogOfUpstream
  BY DEF CatalogInv
<1> QED BY <1>1, <1>2, PTL

-----------------------------------------------------------------------------
(* ExplicitKept *)

Actors == Operations \cup Fetchers

\* Who is changing the configuration.
LEMMA WhoChanges ==
    /\ \A o \in Operations : o \in Actors /\ (Changing(o) <=> work[o].pc \notin {"idle", "over"})
                             /\ o # Startup
    /\ \A f \in Fetchers : f \in Actors /\ f \notin Operations
                           /\ (Changing(f) <=> f = Startup /\ fetch[f].pc = "apply")
    /\ Startup \in Actors /\ Startup \in Fetchers
BY ActorsAssumption DEF Changing, Actors

LEMMA WhoChangesThen ==
    /\ \A o \in Operations : Changing(o)' <=> work'[o].pc \notin {"idle", "over"}
    /\ \A f \in Fetchers : Changing(f)' <=> f = Startup /\ fetch'[f].pc = "apply"
BY ActorsAssumption DEF Changing, Actors

\* Only the fetch of a start discovers, and while it has found that there are no
\* models, nobody is giving the handler any, unless two cross.
ExplicitInv ==
    /\ \A f \in Fetchers : fetch[f].pc \in {"discover", "apply"} => f = Startup
    /\ fetch[Startup].pc = "apply" =>
          overlapped \/ (handler.models = <<>> /\ \A o \in Operations : ~Changing(o))

LEMMA ExplicitInitially == RoutingInit => ExplicitInv
<1> SUFFICES ASSUME RoutingInit PROVE ExplicitInv
  OBVIOUS
<1>1. \A f \in Fetchers : fetch[f].pc = "idle"
  BY DEF RoutingInit, Unfetched
<1> QED BY <1>1, ActorsAssumption DEF ExplicitInv

LEMMA ExplicitFetch ==
    ASSUME TypeInv, ExplicitInv, NEW f \in Fetchers, FetchStep(f)
    PROVE  ExplicitInv'
<1>1. /\ fetch \in [Fetchers -> Fetches] /\ fetch[f] \in Fetches
      /\ Startup \in Fetchers
  BY ActorsAssumption DEF TypeInv, RoutingTypeOK, Fetches
<1>2. work' = work /\ \A g \in Fetchers \ {f} : fetch'[g] = fetch[g]
  BY FetchStepTypes
<1>3. \A o \in Operations : Changing(o)' <=> Changing(o)
  BY <1>2, WhoChanges, WhoChangesThen
<1>4. CASE FetchStarts(f) \/ FetchFails(f) \/ FetchEnds(f)
  <2>1. UNCHANGED <<handler, overlapped>>
    BY <1>4 DEF FetchStarts, FetchFails, FetchEnds, configVars
  <2>2. /\ fetch'[f].pc \in {"asked", "discover", "over"}
        /\ fetch'[f].pc = "discover" => f = Startup
    BY <1>1, <1>4 DEF FetchStarts, FetchFails, FetchEnds, Unfetched, Fetches
  <2>3. fetch'[Startup].pc = "apply" => fetch[Startup].pc = "apply"
    BY <1>1, <1>2, <2>2
  <2> QED BY <1>2, <1>3, <2>1, <2>2, <2>3 DEF ExplicitInv
<1>5. CASE Discovers(f)
  <2>1. /\ handler' = handler /\ fetch[f].pc = "discover" /\ fetch'[f].pc \in {"apply", "over"}
        /\ fetch'[f].pc = "apply" => handler.models = <<>> /\ Overlaps(f)
    BY <1>1, <1>5 DEF Discovers, Fetches, configVars
  <2>2. f = Startup
    BY <2>1 DEF ExplicitInv
  <2>3. fetch'[f].pc = "apply" => overlapped' \/ \A o \in Operations : ~Changing(o)
    BY <2>1, <2>2, WhoChanges DEF Overlaps
  <2>4. \A g \in Fetchers : fetch'[g].pc \in {"discover", "apply"} => g = Startup
    BY <1>2, <2>2 DEF ExplicitInv
  <2> QED BY <1>3, <2>1, <2>2, <2>3, <2>4 DEF ExplicitInv
<1>6. CASE Applies(f)
  <2>1. fetch[f].pc = "apply" /\ fetch'[f].pc = "over"
    BY <1>1, <1>6 DEF Applies, Fetches
  <2>2. f = Startup
    BY <2>1 DEF ExplicitInv
  <2> QED BY <1>1, <1>2, <2>1, <2>2 DEF ExplicitInv
<1> QED BY <1>4, <1>5, <1>6 DEF FetchStep

\* An operation that begins during a discovery crosses it, and none was under way.
LEMMA ExplicitOperation ==
    ASSUME TypeInv, ExplicitInv, NEW o \in Operations, OperationStep(o)
    PROVE  ExplicitInv'
<1>1. Startup \in Fetchers
  BY ActorsAssumption
<1>2. CASE Save(o) \/ Reorder(o)
  <2>1. fetch' = fetch /\ Overlaps(o)
    BY <1>2 DEF Save, Reorder
  <2>2. fetch[Startup].pc = "apply" => overlapped'
    <3>1. fetch[Startup].pc = "apply" => Changing(Startup) /\ Startup \in (Operations \cup Fetchers) \ {o}
      BY <1>1, WhoChanges
    <3> QED BY <2>1, <3>1 DEF Overlaps
  <2> QED BY <2>1, <2>2 DEF ExplicitInv
<1>3. CASE RebuildRouter(o) \/ Stores(o) \/ Takes(o) \/ Persists(o)
  <2>1. /\ work[o].pc \notin {"idle", "over"} /\ UNCHANGED <<fetch, overlapped>>
    BY <1>3 DEF RebuildRouter, Stores, Takes, Persists
  <2>2. Changing(o)
    BY <2>1, WhoChanges
  <2> QED BY <2>1, <2>2 DEF ExplicitInv
<1>4. CASE Restarts(o)
  <2>1. \A f \in Fetchers : fetch'[f].pc \in {"idle", "over"}
    BY <1>4 DEF Restarts, Unfetched
  <2> QED BY <1>1, <2>1 DEF ExplicitInv
<1> QED BY <1>2, <1>3, <1>4 DEF OperationStep

LEMMA ExplicitNext == TypeInv /\ ExplicitInv /\ [RoutingNext]_vars => ExplicitInv'
<1> SUFFICES ASSUME TypeInv, ExplicitInv, [RoutingNext]_vars PROVE ExplicitInv'
  OBVIOUS
<1>1. CASE RequestStep
  <2>1. UNCHANGED <<handler, work, fetch, overlapped>>
    BY <1>1, RequestStepTypes DEF TypeInv, unrouted, configVars
  <2> QED BY <2>1 DEF ExplicitInv, Changing
<1>2. CASE UNCHANGED vars
  BY <1>2 DEF vars, ExplicitInv, Changing
<1> QED BY <1>1, <1>2, ExplicitFetch, ExplicitOperation DEF RoutingNext

\* The discovery of a start (a step that is not an operation's) leaves every list of
\* models alone that is there when it looks, or is published before it looks or after
\* it is done, as long as no two changes of the configuration have overlapped.  One
\* of those is a save between its look at the models and its UpdateConfig
\* (handlers.go:205-221): that list it does replace (ExplicitNeverChanged).
THEOREM ExplicitListKept == RoutingSpec => ExplicitKept
<1>1. ASSUME TypeInv, ExplicitInv, RoutingNext, handler.models # <<>>, work' = work
      PROVE  handler'.models = handler.models \/ overlapped
  <2>1. CASE RequestStep
    BY <1>1, <2>1, RequestStepTypes DEF TypeInv, unrouted, configVars
  <2>2. ASSUME NEW f \in Fetchers, FetchStep(f)
        PROVE  handler'.models = handler.models \/ overlapped
    <3>1. CASE Applies(f)
      <4>1. fetch[f].pc = "apply"
        BY <3>1 DEF Applies
      <4>2. overlapped
        BY <1>1, <4>1 DEF ExplicitInv
      <4> QED BY <4>2
    <3> QED BY <2>2, <3>1 DEF FetchStep, FetchStarts, FetchFails, FetchEnds, Discovers, configVars
  <2>3. ASSUME NEW o \in Operations, OperationStep(o)
        PROVE  handler'.models = handler.models
    <3>1. work \in [Operations -> Works] /\ main \in Configs /\ work[o].next \in Configs
      BY <1>1 DEF TypeInv, RoutingTypeOK, Works
    <3>2. CASE Save(o)
      <4>1. PICK form \in Forms : /\ work[o].pc = "idle"
                                  /\ Goes(o, "rebuild", Submitted(form))
        BY <3>2 DEF Save
      <4>2. Submitted(form) \in Configs
        BY <3>1, ConfigTypes
      <4>3. work'[o].pc = "rebuild"
        BY <3>1, <4>1, <4>2, GoesTo
      <4> QED BY <1>1, <4>1, <4>3
    <3>3. CASE Stores(o)
      <4>1. work[o].pc = "store" /\ work'[o].pc = "take"
        BY <3>1, <3>3, GoesTo DEF Stores
      <4> QED BY <1>1, <4>1
    <3>4. CASE Restarts(o)
      <4>1. work[o].pc = "idle" /\ work'[o].pc = "over"
        BY <3>4 DEF Restarts
      <4> QED BY <1>1, <4>1
    <3> QED BY <2>3, <3>2, <3>3, <3>4
            DEF OperationStep, RebuildRouter, Reorder, Takes, Persists, configVars
  <2> QED BY <1>1, <2>1, <2>2, <2>3 DEF RoutingNext
<1>2. TypeInv /\ ExplicitInv /\ [RoutingNext]_vars
        => [handler.models # <<>> /\ work' = work => handler'.models = handler.models \/ overlapped]_vars
  BY <1>1
<1>3. RoutingSpec => [](TypeInv /\ ExplicitInv)
  BY TypeInitially, TypeNext, ExplicitInitially, ExplicitNext, PTL DEF RoutingSpec
<1> QED BY <1>2, <1>3, PTL DEF RoutingSpec, ExplicitKept

-----------------------------------------------------------------------------
(* CopiesAgree *)

Agreed ==
    /\ main = [handler EXCEPT !.models = main.models]
    /\ handler.models \in {main.models} \cup {Free[url] : url \in Urls}
    /\ main \in {file, Loaded}

\* One actor changes the configuration at a time, and what it has changed and will
\* change leads to copies that agree.
AloneInv ==
    /\ \A a, b \in Actors : Changing(a) /\ Changing(b) => a = b
    /\ \A o \in Operations :
          /\ work[o].pc \in {"rebuild", "persist"} => handler = work[o].next
          /\ work[o].pc = "persist" => main = handler
    /\ fetch[Startup].pc = "apply" =>
          /\ Agreed
          /\ \E url \in Urls : fetch[Startup].next = [handler EXCEPT !.models = Free[url]]
    /\ (\A a \in Actors : ~Changing(a)) => Agreed

CopiesInv == overlapped \/ AloneInv

LEMMA ItselfAgrees ==
    ASSUME handler \in Configs, main = handler, main \in {file, Loaded}
    PROVE  Agreed
BY DEF Agreed, Configs

LEMMA CopiesInitially == RoutingInit => CopiesInv
<1> SUFFICES ASSUME RoutingInit PROVE AloneInv
  BY DEF CopiesInv
<1>1. handler \in Configs /\ main = handler /\ main \in {file, Loaded}
  BY TypeInitially DEF TypeInv, RoutingTypeOK, RoutingInit
<1>2. Agreed
  BY <1>1, ItselfAgrees
<1>3. \A f \in Fetchers : fetch[f].pc = "idle"
  BY DEF RoutingInit, Unfetched
<1>4. \A o \in Operations : work[o].pc = "idle"
  BY DEF RoutingInit
<1> QED BY <1>2, <1>3, <1>4, WhoChanges DEF AloneInv, Actors

\* After a step of the only operation there is.
LEMMA AloneAfter ==
    ASSUME NEW o \in Operations, \A a \in Actors \ {o} : ~Changing(a), fetch' = fetch,
           \A w \in Operations \ {o} : work'[w] = work[w],
           work'[o].pc \in {"rebuild", "persist"} => handler' = work'[o].next,
           work'[o].pc = "persist" => main' = handler',
           work'[o].pc \in {"idle", "over"} => Agreed'
    PROVE  AloneInv'
<1>1. \A w \in Operations \ {o} : work'[w].pc \in {"idle", "over"}
  BY WhoChanges
<1>2. fetch'[Startup].pc # "apply"
  BY WhoChanges
<1>3. \A a \in Actors \ {o} : ~Changing(a)'
  BY <1>1, <1>2, WhoChangesThen DEF Actors
<1>4. ~Changing(o)' => Agreed'
  BY WhoChangesThen
<1> QED BY <1>1, <1>2, <1>3, <1>4, WhoChanges DEF AloneInv, Actors

LEMMA CopiesOperation ==
    ASSUME TypeInv, CopiesInv, NEW o \in Operations, OperationStep(o)
    PROVE  CopiesInv'
<1> SUFFICES ASSUME ~overlapped' PROVE AloneInv'
  BY DEF CopiesInv
<1>1. /\ work \in [Operations -> Works] /\ work[o].next \in Configs
      /\ handler \in Configs /\ main \in Configs
  BY DEF TypeInv, RoutingTypeOK, Works
<1>2. ~overlapped
  <2>1. Overlaps(o) \/ overlapped' = overlapped
    BY DEF OperationStep, Save, RebuildRouter, Reorder, Stores, Takes, Persists, Restarts
  <2> QED BY <2>1 DEF Overlaps
<1>3. AloneInv
  BY <1>2 DEF CopiesInv
<1>4. Overlaps(o) => \A a \in Actors \ {o} : ~Changing(a)
  BY DEF Overlaps, Actors
<1>5. Changing(o) => \A a \in Actors \ {o} : ~Changing(a)
  BY <1>3, WhoChanges DEF AloneInv
<1>6. CASE Save(o)
  <2>1. PICK form \in Forms :
           LET next == Submitted(form) IN
           /\ Goes(o, "rebuild", next) /\ Publishes(next) /\ Overlaps(o)
           /\ UNCHANGED <<main, file, overrides, codex, catalog, fetch, crossed>>
    BY <1>6 DEF Save
  <2> DEFINE next == Submitted(form)
  <2>2. next \in Configs
    BY <1>1, ConfigTypes
  <2>3. Goes(o, "rebuild", next) /\ handler' = next /\ Overlaps(o) /\ fetch' = fetch
    BY <2>1 DEF Publishes
  <2> HIDE DEF next
  <2>4. /\ work'[o].pc = "rebuild" /\ work'[o].next = next
        /\ \A w \in Operations \ {o} : work'[w] = work[w]
    BY <1>1, <2>2, <2>3, GoesTo
  <2> QED BY <1>4, <2>3, <2>4, AloneAfter
<1>7. CASE RebuildRouter(o)
  <2>1. /\ work'[o].pc = "persist" /\ work'[o].next = work[o].next
        /\ \A w \in Operations \ {o} : work'[w] = work[w]
    BY <1>1, <1>7, GoesTo DEF RebuildRouter
  <2>2. work[o].pc = "rebuild" /\ main' = work[o].next /\ UNCHANGED <<handler, fetch>>
    BY <1>7 DEF RebuildRouter
  <2>3. Changing(o) /\ handler = work[o].next
    BY <1>3, <2>2, WhoChanges DEF AloneInv
  <2> QED BY <1>5, <2>1, <2>2, <2>3, AloneAfter
<1>8. CASE Reorder(o)
  <2>1. PICK names \in Orders :
           LET models == Kept(names, Listed(handler)) IN
           /\ Goes(o, IF models = <<>> THEN "take" ELSE "store", [handler EXCEPT !.models = models])
           /\ Overlaps(o)
           /\ UNCHANGED <<configVars, catalog, fetch, request, crossed>>
    BY <1>8 DEF Reorder
  <2> DEFINE models == Kept(names, Listed(handler))
             next == [handler EXCEPT !.models = models]
             pc == IF models = <<>> THEN "take" ELSE "store"
  <2>2. next \in Configs
    BY <1>1, ReorderTypes
  <2>3. Goes(o, pc, next) /\ pc \in {"take", "store"} /\ Overlaps(o) /\ fetch' = fetch
    BY <2>1
  <2> HIDE DEF models, next, pc
  <2>4. work'[o].pc = pc /\ \A w \in Operations \ {o} : work'[w] = work[w]
    BY <1>1, <2>2, <2>3, GoesTo
  <2> QED BY <1>4, <2>3, <2>4, AloneAfter
<1>9. CASE Stores(o)
  <2>1. /\ work'[o].pc = "take" /\ \A w \in Operations \ {o} : work'[w] = work[w]
    BY <1>1, <1>9, GoesTo DEF Stores
  <2>2. work[o].pc = "store" /\ fetch' = fetch
    BY <1>9 DEF Stores
  <2>3. Changing(o)
    BY <2>2, WhoChanges
  <2> QED BY <1>5, <2>1, <2>2, <2>3, AloneAfter
<1>10. CASE Takes(o)
  <2>1. /\ work'[o].pc = "persist" /\ work'[o].next = handler
        /\ \A w \in Operations \ {o} : work'[w] = work[w]
    BY <1>1, <1>10, GoesTo DEF Takes
  <2>2. work[o].pc = "take" /\ main' = handler /\ UNCHANGED <<handler, fetch>>
    BY <1>10 DEF Takes
  <2>3. Changing(o)
    BY <2>2, WhoChanges
  <2> QED BY <1>5, <2>1, <2>2, <2>3, AloneAfter
<1>11. CASE Persists(o)
  <2>1. /\ work'[o].pc = "over" /\ \A w \in Operations \ {o} : work'[w] = work[w]
    BY <1>1, <1>11, GoesTo, ConfigTypes DEF Persists
  <2>2. work[o].pc = "persist" /\ file' = work[o].next /\ UNCHANGED <<handler, main, fetch>>
    BY <1>11 DEF Persists
  <2>3. Changing(o) /\ handler = work[o].next /\ main = handler
    BY <1>3, <2>2, WhoChanges DEF AloneInv
  <2>4. handler' \in Configs /\ main' = handler' /\ main' \in {file', Loaded'}
    BY <1>1, <2>2, <2>3
  <2>5. Agreed'
    BY <2>4 DEF Agreed, Configs
  <2> QED BY <1>5, <2>1, <2>2, <2>3, <2>5, AloneAfter
<1>12. CASE Restarts(o)
  <2>1. \A f \in Fetchers : fetch'[f].pc \in {"idle", "over"}
    BY <1>12 DEF Restarts, Unfetched
  <2>2. \A w \in Operations : work'[w].pc \in {"idle", "over"}
    BY <1>1, <1>12 DEF Restarts, Works
  <2>3. handler' = Loaded /\ main' = Loaded /\ Loaded' = Loaded /\ Loaded \in Configs
    BY <1>1, <1>12, ConfigTypes DEF Restarts, Loaded, TypeInv, RoutingTypeOK
  <2>4. Agreed'
    BY <2>3 DEF Agreed, Configs
  <2> QED BY <2>1, <2>2, <2>4, WhoChangesThen, WhoChanges DEF AloneInv, Actors
<1> QED BY <1>6, <1>7, <1>8, <1>9, <1>10, <1>11, <1>12 DEF OperationStep

\* When what an actor does is not a change.
LEMMA NothingChanges ==
    ASSUME UNCHANGED <<handler, main, file, overrides, work>>,
           fetch[Startup].pc = "apply" <=> fetch'[Startup].pc = "apply",
           fetch[Startup].pc = "apply" => fetch'[Startup] = fetch[Startup]
    PROVE  AloneInv => AloneInv'
<1>1. \A a \in Actors : Changing(a)' <=> Changing(a)
  BY WhoChanges, WhoChangesThen DEF Actors
<1>2. Agreed' <=> Agreed
  BY DEF Agreed, Loaded
<1> SUFFICES ASSUME AloneInv PROVE AloneInv'
  OBVIOUS
<1>3. \A a, b \in Actors : Changing(a)' /\ Changing(b)' => a = b
  BY <1>1 DEF AloneInv
<1>4. (\A a \in Actors : ~Changing(a)') => Agreed'
  BY <1>1, <1>2 DEF AloneInv
<1>5. \A o \in Operations :
          /\ work'[o].pc \in {"rebuild", "persist"} => handler' = work'[o].next
          /\ work'[o].pc = "persist" => main' = handler'
  BY DEF AloneInv
<1>6. fetch'[Startup].pc = "apply" =>
          /\ Agreed'
          /\ \E url \in Urls : fetch'[Startup].next = [handler' EXCEPT !.models = Free[url]]
  BY <1>2 DEF AloneInv
<1> QED BY <1>3, <1>4, <1>5, <1>6 DEF AloneInv, Actors

LEMMA CopiesFetch ==
    ASSUME TypeInv, ExplicitInv, CopiesInv, NEW f \in Fetchers, FetchStep(f)
    PROVE  CopiesInv'
<1> SUFFICES ASSUME ~overlapped' PROVE AloneInv'
  BY DEF CopiesInv
<1>1. /\ fetch \in [Fetchers -> Fetches] /\ fetch[f] \in Fetches /\ Startup \in Fetchers
      /\ handler \in Configs /\ main \in Configs
  BY ActorsAssumption DEF TypeInv, RoutingTypeOK, Fetches
<1>2. UNCHANGED <<main, file, overrides, work>> /\ \A g \in Fetchers \ {f} : fetch'[g] = fetch[g]
  BY FetchStepTypes
<1>3. AloneInv
  <2>1. Overlaps(f) \/ overlapped' = overlapped
    BY DEF FetchStep, FetchStarts, FetchFails, FetchEnds, Discovers, Applies
  <2> QED BY <2>1 DEF Overlaps, CopiesInv
<1>4. CASE FetchStarts(f) \/ FetchFails(f) \/ FetchEnds(f)
  <2>1. handler' = handler
    BY <1>4 DEF FetchStarts, FetchFails, FetchEnds, configVars
  <2>2. /\ fetch[f].pc \in {"idle", "asked"} /\ fetch'[f].pc \in {"asked", "discover", "over"}
    BY <1>1, <1>4 DEF FetchStarts, FetchFails, FetchEnds, Unfetched, Fetches
  <2>3. CASE f = Startup
    BY <1>2, <1>3, <2>1, <2>2, <2>3, NothingChanges
  <2>4. CASE f # Startup
    BY <1>1, <1>2, <1>3, <2>1, <2>4, NothingChanges
  <2> QED BY <2>3, <2>4
<1>5. CASE Discovers(f)
  <2>1. fetch[f].pc = "discover" /\ handler' = handler
    BY <1>5 DEF Discovers, configVars
  <2>2. f = Startup
    BY <2>1 DEF ExplicitInv
  <2> DEFINE fresh == handler.models = <<>> /\ Found # <<>>
  <2>3. /\ fetch' = [fetch EXCEPT ![f].pc = IF fresh THEN "apply" ELSE "over",
                                  ![f].next = IF fresh THEN [handler EXCEPT !.models = Found]
                                              ELSE @]
        /\ IF fresh THEN Overlaps(f) ELSE UNCHANGED overlapped
    BY <1>5 DEF Discovers, Found
  <2>4. CASE ~fresh
    <3>1. fetch'[f].pc = "over"
      BY <1>1, <2>3, <2>4 DEF Fetches
    <3> QED BY <1>2, <1>3, <2>1, <2>2, <3>1, NothingChanges
  <2>5. CASE fresh
    <3>1. fetch'[f].pc = "apply" /\ fetch'[f].next = [handler EXCEPT !.models = Found]
          /\ Overlaps(f)
      BY <1>1, <2>3, <2>5 DEF Fetches
    <3>2. \A a \in Actors \ {f} : ~Changing(a)
      BY <3>1 DEF Overlaps, Actors
    <3>3. ~Changing(f)
      BY <2>1, WhoChanges
    <3>4. Agreed
      BY <1>3, <3>2, <3>3 DEF AloneInv
    <3>5. Agreed'
      BY <1>2, <2>1, <3>4 DEF Agreed, Loaded
    <3>6. catalog.of \in Urls /\ Found = Free[catalog.of]
      BY <2>5 DEF Found, TypeInv, RoutingTypeOK
    <3>7. \A o \in Operations : work'[o].pc \in {"idle", "over"}
      BY <1>2, <2>2, <3>2, WhoChanges
    <3>8. \A a \in Actors \ {f} : ~Changing(a)'
      BY <2>2, <3>7, WhoChangesThen DEF Actors
    <3>9. Changing(f)'
      BY <2>2, <3>1, WhoChangesThen
    <3>10. \E url \in Urls : fetch'[Startup].next = [handler' EXCEPT !.models = Free[url]]
      BY <2>1, <2>2, <3>1, <3>6
    <3> QED BY <2>2, <3>5, <3>7, <3>8, <3>9, <3>10 DEF AloneInv, Actors
  <2> QED BY <2>4, <2>5
<1>6. CASE Applies(f)
  <2>1. /\ fetch[f].pc = "apply" /\ fetch'[f].pc = "over" /\ handler' = fetch[f].next
    BY <1>1, <1>6 DEF Applies, Fetches, Publishes
  <2>2. f = Startup
    BY <2>1 DEF ExplicitInv
  <2>3. PICK url \in Urls : fetch[Startup].next = [handler EXCEPT !.models = Free[url]]
    BY <1>3, <2>1, <2>2 DEF AloneInv
  <2>4. Agreed
    BY <1>3, <2>1, <2>2 DEF AloneInv
  <2>5. handler' = [handler EXCEPT !.models = Free[url]] /\ handler'.models = Free[url]
    BY <1>1, <2>1, <2>2, <2>3 DEF Configs
  <2>6. main' = [handler' EXCEPT !.models = main'.models]
    BY <1>1, <1>2, <2>4, <2>5 DEF Agreed, Configs
  <2>7. Agreed'
    BY <1>2, <2>4, <2>5, <2>6 DEF Agreed, Loaded
  <2>8. \A a \in Actors \ {f} : ~Changing(a)
    BY <1>3, <2>1, <2>2, WhoChanges DEF AloneInv
  <2>9. \A o \in Operations : work'[o].pc \in {"idle", "over"}
    BY <1>2, <2>2, <2>8, WhoChanges
  <2>10. \A a \in Actors : ~Changing(a)'
    BY <2>1, <2>2, <2>9, WhoChangesThen DEF Actors
  <2> QED BY <2>1, <2>2, <2>7, <2>9, <2>10 DEF AloneInv, Actors
<1> QED BY <1>4, <1>5, <1>6 DEF FetchStep

LEMMA CopiesNext == TypeInv /\ ExplicitInv /\ CopiesInv /\ [RoutingNext]_vars => CopiesInv'
<1> SUFFICES ASSUME TypeInv, ExplicitInv, CopiesInv, [RoutingNext]_vars PROVE CopiesInv'
  OBVIOUS
<1>1. CASE RequestStep
  <2>1. UNCHANGED <<handler, main, file, overrides, work, fetch, overlapped>>
    BY <1>1, RequestStepTypes DEF TypeInv, unrouted, configVars
  <2> QED BY <2>1, NothingChanges DEF CopiesInv
<1>2. CASE UNCHANGED vars
  <2>1. UNCHANGED <<handler, main, file, overrides, work, fetch, overlapped>>
    BY <1>2 DEF vars
  <2> QED BY <2>1, NothingChanges DEF CopiesInv
<1> QED BY <1>1, <1>2, CopiesFetch, CopiesOperation DEF RoutingNext

\* The configuration the handler serves, main's and the file's end up the same, but
\* for the models discovered and what the environment says, unless two changed the
\* configuration at once: none of the operations leaves a copy behind (main.go).
THEOREM CopiesProved == RoutingSpec => []CopiesAgree
<1>1. RoutingSpec => [](TypeInv /\ ExplicitInv /\ CopiesInv)
  BY TypeInitially, TypeNext, ExplicitInitially, ExplicitNext, CopiesInitially, CopiesNext, PTL
     DEF RoutingSpec
<1>2. CopiesInv => CopiesAgree
  <2> SUFFICES ASSUME AloneInv, \A actor \in Operations \cup Fetchers : ~Changing(actor)
               PROVE  Agreed
    BY DEF CopiesInv, CopiesAgree, Agreed
  <2> QED BY DEF AloneInv, Actors
<1> QED BY <1>1, <1>2, PTL

-----------------------------------------------------------------------------
(* The list of models of a request *)

\* A list with the model that heads it taken to its front.
FirstOf(primary, others) == <<primary>> \o Specs(others)

LEMMA FirstOfElements ==
    ASSUME NEW primary \in ModelSpecs, NEW others \in Seq(Names)
    PROVE  /\ FirstOf(primary, others) \in Seq(ModelSpecs)
           /\ Len(FirstOf(primary, others)) = Len(others) + 1
           /\ FirstOf(primary, others)[1] = primary
           /\ \A i \in 1 .. Len(others) : FirstOf(primary, others)[i + 1] = Spec(others[i])
           /\ NamesOf(FirstOf(primary, others)) = {primary.name} \cup Range(others)
<1> DEFINE specs == Specs(others)
           n == Len(others)
           list == FirstOf(primary, others)
<1>1. specs \in Seq(ModelSpecs) /\ Len(specs) = n /\ n \in Nat /\ DOMAIN others = 1 .. n
      /\ \A i \in 1 .. n : specs[i] = Spec(others[i])
  BY SpecTypes
<1>2. list = <<primary>> \o specs
  BY DEF FirstOf
<1> HIDE DEF specs, n, list
<1>3. list \in Seq(ModelSpecs) /\ Len(list) = n + 1 /\ list[1] = primary
      /\ \A i \in 1 .. n : list[i + 1] = specs[i]
  BY <1>1, <1>2
<1>4. \A i \in 1 .. n : list[i + 1] = Spec(others[i]) /\ list[i + 1].name = others[i]
  BY <1>1, <1>3 DEF Spec
<1>5. DOMAIN list = 1 .. n + 1
  BY <1>3
<1>6. NamesOf(list) \subseteq {primary.name} \cup Range(others)
  <2> SUFFICES ASSUME NEW i \in 1 .. n + 1, i # 1
               PROVE  list[i].name \in Range(others)
    BY <1>3, <1>5 DEF NamesOf
  <2>1. i - 1 \in 1 .. n /\ (i - 1) + 1 = i
    BY <1>1
  <2>2. list[i].name = others[i - 1]
    BY <1>4, <2>1
  <2> QED BY <1>1, <2>1, <2>2 DEF Range
<1>7. {primary.name} \cup Range(others) \subseteq NamesOf(list)
  <2>1. primary.name \in NamesOf(list)
    BY <1>1, <1>3, <1>5 DEF NamesOf
  <2>2. ASSUME NEW i \in 1 .. n
        PROVE  others[i] \in NamesOf(list)
    <3>1. i + 1 \in DOMAIN list
      BY <1>1, <1>5
    <3> QED BY <1>4, <3>1 DEF NamesOf
  <2> QED BY <1>1, <2>1, <2>2 DEF Range
<1> QED BY <1>3, <1>4, <1>6, <1>7 DEF n, list

\* The models of a request are the one that was resolved, the others of the list
\* that have a backend, in its order, and then models that were discovered.
Others(name) == Kept(handler.models, Usable \ {name})

LEMMA OthersAre ==
    ASSUME RoutingTypeOK, NEW name
    PROVE  /\ Others(name) \in Lists /\ Others(name) \in Seq(Names)
           /\ Range(Others(name)) = (Listed(handler) \cap Usable) \ {name}
           /\ Kept(Kept(handler.models, Usable), Names \ {name}) = Others(name)
<1>1. handler.models \in Seq(Names) /\ handler.models \in Lists
  BY ConfigTypes DEF RoutingTypeOK
<1>2. Others(name) \in Lists /\ Others(name) \in Seq(Names)
  BY <1>1, ListsAreSequences DEF Others
<1>3. Range(Others(name)) = (Listed(handler) \cap Usable) \ {name}
  <2>1. Range(Others(name)) = Range(handler.models) \cap (Usable \ {name})
    BY <1>1, KeptElements DEF Others
  <2> QED BY <2>1 DEF Listed
<1>4. Kept(Kept(handler.models, Usable), Names \ {name})
         = Kept(handler.models, Usable \cap (Names \ {name}))
  BY <1>1, KeptTwice
<1>5. Usable \cap (Names \ {name}) = Usable \ {name}
  BY DEF Usable
<1> QED BY <1>2, <1>3, <1>4, <1>5 DEF Others

LEMMA ListIsFirstOf ==
    ASSUME RoutingTypeOK, NEW primary \in ModelSpecs
    PROVE  LET first == FirstOf(primary, Others(primary.name)) IN
           PreferenceList(primary) \in {first, first \o Discovered(first)}
<1> DEFINE names == Kept(handler.models, Usable)
           others == Kept(names, Names \ {primary.name})
           list == IF Spec(Head(names)) = primary THEN Specs(names) ELSE <<primary>> \o Specs(others)
           first == FirstOf(primary, Others(primary.name))
<1>1. PreferenceList(primary) = IF names = <<>> THEN <<primary>>
                                ELSE IF handler.only THEN list ELSE list \o Discovered(list)
  BY DEF PreferenceList
<1>2. handler.models \in Seq(Names) /\ IsInjective(handler.models)
      /\ names \in Seq(Names)
  BY ConfigTypes, ListsAreSequences DEF RoutingTypeOK
<1>3. others = Others(primary.name)
  BY OthersAre
<1>4. CASE names = <<>>
  <2>1. others = <<>>
    BY <1>4, KeptEmpty
  <2>2. <<>> \in Seq(Names) /\ Len(<<>>) = 0
    OBVIOUS
  <2>3. Specs(<<>>) = <<>>
    <3>1. Specs(<<>>) \in Seq(ModelSpecs) /\ Len(Specs(<<>>)) = 0
      BY <2>2, SpecTypes
    <3> QED BY <3>1, EmptySeq
  <2>4. first = <<primary>>
    <3>1. <<primary>> \o <<>> = <<primary>>
      OBVIOUS
    <3>2. Others(primary.name) = <<>>
      BY <1>3, <2>1
    <3> QED BY <2>3, <3>1, <3>2 DEF FirstOf
  <2> QED BY <1>1, <1>4, <2>4
<1>5. CASE names # <<>>
  <2>1. list = first
    <3>1. CASE Spec(Head(names)) = primary
      <4>1. Head(names) \in Names /\ Head(names) = primary.name
        BY <1>2, <1>5, <3>1, SpecTypes
      <4>2. Others(primary.name) = Tail(names)
        BY <1>2, <1>5, <4>1, KeptTail DEF Others
      <4> DEFINE rest == Tail(names)
      <4>3. rest \in Seq(Names) /\ Len(names) = Len(rest) + 1 /\ names[1] = Head(names)
            /\ \A i \in 1 .. Len(rest) : names[i + 1] = rest[i]
        BY <1>2, <1>5
      <4> HIDE DEF names, rest
      <4>4. /\ FirstOf(primary, rest) \in Seq(ModelSpecs)
            /\ Len(FirstOf(primary, rest)) = Len(rest) + 1 /\ FirstOf(primary, rest)[1] = primary
            /\ \A i \in 1 .. Len(rest) : FirstOf(primary, rest)[i + 1] = Spec(rest[i])
        BY <4>3, FirstOfElements
      <4>5. Specs(names) \in Seq(ModelSpecs) /\ Len(Specs(names)) = Len(names)
            /\ \A i \in 1 .. Len(names) : Specs(names)[i] = Spec(names[i])
        BY <1>2, SpecTypes
      <4>6. ASSUME NEW i \in 1 .. Len(names)
            PROVE  Specs(names)[i] = FirstOf(primary, rest)[i]
        <5>1. CASE i = 1
          BY <3>1, <4>3, <4>4, <4>5, <5>1
        <5>2. CASE i # 1
          <6>1. i - 1 \in 1 .. Len(rest) /\ (i - 1) + 1 = i
            BY <4>3, <5>2
          <6>2. names[i] = rest[i - 1] /\ FirstOf(primary, rest)[i] = Spec(rest[i - 1])
            BY <4>3, <4>4, <6>1
          <6> QED BY <4>5, <6>2
        <5> QED BY <5>1, <5>2
      <4>7. Specs(names) = FirstOf(primary, rest)
        BY <4>3, <4>4, <4>5, <4>6
      <4> QED BY <3>1, <4>2, <4>7 DEF rest
    <3>2. CASE Spec(Head(names)) # primary
      BY <1>3, <3>2 DEF FirstOf
    <3> QED BY <3>1, <3>2
  <2> HIDE DEF list, first
  <2> QED BY <1>1, <1>5, <2>1 DEF first
<1> QED BY <1>4, <1>5

LEMMA Concatenated ==
    ASSUME NEW T, NEW s \in Seq(T), NEW t \in Seq(T)
    PROVE  /\ s \o t \in Seq(T) /\ Len(s \o t) = Len(s) + Len(t)
           /\ \A i \in 1 .. Len(s) : (s \o t)[i] = s[i]
           /\ \A i \in 1 .. Len(t) : (s \o t)[Len(s) + i] = t[i]
OBVIOUS

\* Position by position.
LEMMA ListElements ==
    ASSUME RoutingTypeOK, NEW primary \in ModelSpecs
    PROVE  LET list == PreferenceList(primary)
               others == Others(primary.name)
               n == Len(others) IN
           /\ list \in Seq(ModelSpecs) /\ n \in Nat /\ Len(list) \in Nat /\ Len(list) >= n + 1
           /\ list[1] = primary
           /\ \A i \in 1 .. n : list[i + 1] = Spec(others[i])
           /\ \A i \in n + 2 .. Len(list) : list[i].name \notin {primary.name} \cup Range(others)
           /\ \A i, j \in n + 2 .. Len(list) : list[i].name = list[j].name => i = j
<1> DEFINE list == PreferenceList(primary)
           others == Others(primary.name)
           n == Len(others)
           first == FirstOf(primary, others)
           found == Discovered(first)
           new == Kept(Found, Names \ NamesOf(first))
<1>1. list \in {first, first \o found}
  BY ListIsFirstOf
<1>2. others \in Seq(Names)
  BY OthersAre
<1>3. n \in Nat /\ first \in Seq(ModelSpecs) /\ Len(first) = n + 1 /\ first[1] = primary
      /\ \A i \in 1 .. n : first[i + 1] = Spec(others[i])
  BY <1>2, FirstOfElements
<1>4. NamesOf(first) = {primary.name} \cup Range(others)
  BY <1>2, FirstOfElements
<1>5. /\ Found \in Lists /\ new \in Lists
      /\ found \in Seq(ModelSpecs) /\ Len(found) = Len(new)
      /\ \A i \in 1 .. Len(found) : found[i] = [name |-> new[i], upstream |-> "zen"]
  BY DiscoveredTypes DEF RoutingTypeOK
<1>6. Range(new) \cap NamesOf(first) = {} /\ new \in Seq(Names) /\ IsInjective(new)
  <2>1. Found \in Seq(Names)
    BY <1>5, ListsAreSequences
  <2>2. Range(new) = Range(Found) \cap (Names \ NamesOf(first))
    BY <2>1, KeptElements
  <2> QED BY <1>5, <2>2, ListsAreSequences
<1> HIDE DEF list, first, found, new, others, n
<1>7. DOMAIN new = 1 .. Len(new) /\ Len(new) \in Nat
  BY <1>6
<1>8. ASSUME NEW i \in 1 .. Len(found)
      PROVE  found[i].name = new[i] /\ found[i].name \notin NamesOf(first)
  <2>1. found[i] = [name |-> new[i], upstream |-> "zen"]
    BY <1>5
  <2>2. found[i].name = new[i]
    BY <2>1
  <2>3. new[i] \in Range(new)
    BY <1>5, <1>7 DEF Range
  <2> QED BY <1>6, <2>2, <2>3
<1>9. ASSUME NEW i \in 1 .. Len(found), NEW j \in 1 .. Len(found), found[i].name = found[j].name
      PROVE  i = j
  <2>1. new[i] = new[j] /\ i \in DOMAIN new /\ j \in DOMAIN new
    BY <1>5, <1>7, <1>8, <1>9
  <2> QED BY <1>6, <2>1 DEF IsInjective
<1>10. /\ list \in Seq(ModelSpecs) /\ Len(list) \in Nat /\ Len(list) >= n + 1
       /\ list[1] = primary
       /\ \A i \in 1 .. n : list[i + 1] = Spec(others[i])
       /\ \A i \in n + 2 .. Len(list) : i - (n + 1) \in 1 .. Len(found)
                                        /\ list[i] = found[i - (n + 1)]
  <2>1. CASE list = first
    BY <1>3, <2>1
  <2>2. CASE list = first \o found
    <3>1. /\ list \in Seq(ModelSpecs) /\ Len(list) = n + 1 + Len(found) /\ Len(found) \in Nat
          /\ \A i \in 1 .. n + 1 : list[i] = first[i]
          /\ \A i \in n + 2 .. Len(list) : list[i] = found[i - (n + 1)]
      <4>1. Len(found) \in Nat /\ Len(first) = n + 1 /\ n \in Nat
        BY <1>3, <1>5
      <4>2. /\ list \in Seq(ModelSpecs) /\ Len(list) = Len(first) + Len(found)
            /\ \A i \in 1 .. Len(first) : list[i] = first[i]
            /\ \A i \in 1 .. Len(found) : list[Len(first) + i] = found[i]
        <5>1. first \in Seq(ModelSpecs) /\ found \in Seq(ModelSpecs)
          BY <1>3, <1>5
        <5>2. /\ first \o found \in Seq(ModelSpecs)
              /\ Len(first \o found) = Len(first) + Len(found)
              /\ \A i \in 1 .. Len(first) : (first \o found)[i] = first[i]
              /\ \A i \in 1 .. Len(found) : (first \o found)[Len(first) + i] = found[i]
          BY <5>1, Concatenated
        <5> QED BY <2>2, <5>2, Zenon
      <4>3. ASSUME NEW i \in n + 2 .. Len(list)
            PROVE  list[i] = found[i - (n + 1)]
        <5>1. i - (n + 1) \in 1 .. Len(found) /\ Len(first) + (i - (n + 1)) = i
          BY <4>1, <4>2
        <5> QED BY <4>2, <5>1
      <4> QED BY <4>1, <4>2, <4>3
    <3>2. 1 \in 1 .. n + 1 /\ \A i \in 1 .. n : i + 1 \in 1 .. n + 1
      BY <1>3
    <3>3. list[1] = primary /\ \A i \in 1 .. n : list[i + 1] = Spec(others[i])
      BY <1>3, <3>1, <3>2
    <3>4. \A i \in n + 2 .. Len(list) : i - (n + 1) \in 1 .. Len(found)
      BY <1>3, <3>1
    <3>5. Len(list) \in Nat /\ Len(list) >= n + 1
      BY <1>3, <3>1
    <3> QED BY <3>1, <3>3, <3>4, <3>5
  <2> QED BY <1>1, <2>1, <2>2
<1>11. \A i \in n + 2 .. Len(list) : list[i].name \notin {primary.name} \cup Range(others)
  BY <1>4, <1>8, <1>10
<1>12. ASSUME NEW i \in n + 2 .. Len(list), NEW j \in n + 2 .. Len(list), list[i].name = list[j].name
       PROVE  i = j
  <2>1. i - (n + 1) = j - (n + 1)
    BY <1>9, <1>10, <1>12
  <2> QED BY <1>3, <1>10, <2>1
<1> QED BY <1>3, <1>10, <1>11, <1>12 DEF list, others, n

\* What a request is answered, by what was decided and the configuration loaded last.
LEMMA ListIsGood ==
    ASSUME RoutingTypeOK, NEW primary \in ModelSpecs
    PROVE  LET list == PreferenceList(primary)
               names == [i \in DOMAIN list |-> list[i].name] IN
           /\ primary.name \in NamesOf(list)
           /\ \A name \in Listed(handler) : name \in Usable => name \in NamesOf(list)
           /\ \A i \in DOMAIN list :
                 \/ list[i] = primary
                 \/ list[i] = Spec(list[i].name)
                 \/ list[i].name \notin Listed(handler) \cap Usable
           /\ IsInjective(names) /\ Head(names) = primary.name
           /\ IsPrefix(Others(primary.name), Tail(names))
<1> DEFINE list == PreferenceList(primary)
           others == Others(primary.name)
           n == Len(others)
           names == [i \in DOMAIN list |-> list[i].name]
<1>1. /\ list \in Seq(ModelSpecs) /\ n \in Nat /\ Len(list) \in Nat /\ Len(list) >= n + 1
      /\ list[1] = primary
      /\ \A i \in 1 .. n : list[i + 1] = Spec(others[i])
      /\ \A i \in n + 2 .. Len(list) : list[i].name \notin {primary.name} \cup Range(others)
      /\ \A i, j \in n + 2 .. Len(list) : list[i].name = list[j].name => i = j
  BY ListElements
<1>2. /\ others \in Seq(Names) /\ IsInjective(others)
      /\ Range(others) = (Listed(handler) \cap Usable) \ {primary.name}
  BY OthersAre, ListsAreSequences
<1> HIDE DEF list, others, n
<1>3. DOMAIN list = 1 .. Len(list) /\ DOMAIN others = 1 .. n /\ n = Len(others)
  BY <1>1, <1>2 DEF n
<1>4. ASSUME NEW i \in 2 .. n + 1
      PROVE  /\ i - 1 \in 1 .. n /\ list[i] = Spec(others[i - 1]) /\ list[i].name = others[i - 1]
             /\ list[i].name \in Range(others) /\ list[i] = Spec(list[i].name)
  <2>1. i - 1 \in 1 .. n /\ (i - 1) + 1 = i
    BY <1>1
  <2>2. list[i] = Spec(others[i - 1])
    BY <1>1, <2>1
  <2>3. list[i].name = others[i - 1]
    BY <2>2 DEF Spec
  <2> QED BY <1>3, <2>1, <2>2, <2>3 DEF Range
<1>5. primary.name \in NamesOf(list)
  BY <1>1, <1>3 DEF NamesOf
<1>6. ASSUME NEW name \in Listed(handler), name \in Usable
      PROVE  name \in NamesOf(list)
  <2>1. CASE name = primary.name
    BY <1>5, <2>1
  <2>2. CASE name # primary.name
    <3>1. PICK i \in 1 .. n : others[i] = name
      BY <1>2, <1>3, <1>6, <2>2 DEF Range
    <3>2. i + 1 \in 2 .. n + 1 /\ i + 1 \in DOMAIN list /\ (i + 1) - 1 = i
      BY <1>1, <1>3
    <3>3. list[i + 1].name = others[i]
      BY <1>4, <3>2
    <3> QED BY <3>1, <3>2, <3>3 DEF NamesOf
  <2> QED BY <2>1, <2>2
<1>7. ASSUME NEW i \in DOMAIN list
      PROVE  \/ list[i] = primary
             \/ list[i] = Spec(list[i].name)
             \/ list[i].name \notin Listed(handler) \cap Usable
  <2>1. CASE i = 1
    BY <1>1, <2>1
  <2>2. CASE i \in 2 .. n + 1
    BY <1>4, <2>2
  <2>3. CASE i \in n + 2 .. Len(list)
    BY <1>1, <1>2, <2>3
  <2> QED BY <1>1, <1>3, <2>1, <2>2, <2>3
<1>8. \A i \in 1 .. Len(list) : i = 1 \/ i \in 2 .. n + 1 \/ i \in n + 2 .. Len(list)
  BY <1>1
<1>9. ASSUME NEW i \in 1 .. Len(list), NEW j \in 1 .. Len(list), list[i].name = list[j].name
      PROVE  i = j
  <2>1. \A k \in 2 .. n + 1 : list[k].name # primary.name
    BY <1>2, <1>4
  <2>2. \A k \in 2 .. n + 1, l \in n + 2 .. Len(list) : list[k].name # list[l].name
    BY <1>1, <1>4
  <2>3. CASE i \in 2 .. n + 1 /\ j \in 2 .. n + 1
    <3>1. i - 1 \in 1 .. n /\ j - 1 \in 1 .. n /\ others[i - 1] = others[j - 1]
      BY <1>4, <1>9, <2>3
    <3>2. i - 1 = j - 1
      BY <1>2, <1>3, <3>1 DEF IsInjective
    <3> QED BY <3>2
  <2>4. CASE i \in n + 2 .. Len(list) /\ j \in n + 2 .. Len(list)
    BY <1>1, <1>9, <2>4
  <2>5. \A k \in n + 2 .. Len(list) : list[k].name # primary.name
    BY <1>1
  <2> QED BY <1>1, <1>8, <1>9, <2>1, <2>2, <2>3, <2>4, <2>5
<1>10. DOMAIN names = 1 .. Len(list) /\ \A i \in 1 .. Len(list) : names[i] = list[i].name
  BY <1>3
<1>11. names \in Seq(Names \cup {None}) /\ Len(names) = Len(list)
  <2>1. \A i \in 1 .. Len(list) : list[i].name \in Names \cup {None}
    <3>1. \A i \in 1 .. Len(list) : list[i] \in ModelSpecs
      BY <1>1
    <3> QED BY <3>1 DEF ModelSpecs
  <2> QED BY <1>1, <1>3, <2>1
<1> HIDE DEF names
<1>12. IsInjective(names)
  BY <1>9, <1>10 DEF IsInjective
<1>13. Head(names) = primary.name
  BY <1>1, <1>10, <1>11
<1>14. IsPrefix(others, Tail(names))
  <2> DEFINE tail == Tail(names)
  <2>1. tail \in Seq(Names \cup {None}) /\ Len(tail) = Len(list) - 1
        /\ \A i \in 1 .. Len(list) - 1 : tail[i] = names[i + 1]
    BY <1>1, <1>11
  <2>2. n <= Len(tail) /\ others \in Seq(Names \cup {None}) /\ Len(others) = n
    BY <1>1, <1>2, <1>3, <2>1
  <2>3. ASSUME NEW i \in 1 .. n
        PROVE  others[i] = tail[i]
    <3>1. i \in 1 .. Len(list) - 1 /\ i + 1 \in 1 .. Len(list) /\ i + 1 \in 2 .. n + 1
          /\ (i + 1) - 1 = i
      BY <1>1
    <3>2. tail[i] = list[i + 1].name
      BY <1>10, <2>1, <3>1
    <3>3. list[i + 1].name = others[i]
      BY <1>4, <3>1
    <3> QED BY <3>2, <3>3
  <2> HIDE DEF tail
  <2>4. SubSeq(others, 1, n) = [i \in 1 .. n |-> others[i]]
        /\ SubSeq(tail, 1, n) = [i \in 1 .. n |-> tail[i]]
    BY <1>1, <2>1, <2>2
  <2>5. [i \in 1 .. n |-> others[i]] = [i \in 1 .. n |-> tail[i]]
    BY <2>3
  <2>6. IsPrefix(others, tail)
    BY <2>2, <2>4, <2>5 DEF IsPrefix
  <2> QED BY <2>6 DEF tail
<1> QED BY <1>5, <1>6, <1>7, <1>12, <1>13, <1>14 DEF list, others, names

-----------------------------------------------------------------------------
(* AskedIsTried, OwnUpstream and FollowsAnOrder *)

\* Every configuration in force during the request lists name, and all route alike.
ListsAndRoutesAlike(name) ==
    /\ \A cfg \in request.inForce : name \in Listed(cfg)
    /\ \A cfg, other \in request.inForce : cfg.routing = other.routing

\* What has become of the model asked for.
AskedInv ==
    request.ask # None /\ ListsAndRoutesAlike(request.ask) =>
        /\ request.pc \in {"compare", "kind", "route"} => request.resolved = request.ask
        /\ request.pc = "route" => \A cfg \in request.inForce : cfg.routing # None
        /\ request.pc \in {"allow", "listed", "upstream", "build"} =>
              \/ request.resolved = request.ask
              \/ request.resolved # None
                 /\ \A cfg \in request.inForce : cfg.routing = request.resolved

UpstreamInv ==
    request.pc = "build" =>
        \/ \E cfg \in request.inForce : request.resolved \notin Listed(cfg)
        \/ request.upstream = Home[request.resolved]

\* A model has been resolved to; and the request has come down to the default.
Resolvable(name) ==
    \E cfg \in request.inForce :
        \/ name = request.ask /\ request.ask # None
           /\ (request.ask \in Listed(cfg) \/ cfg.unlisted)
        \/ name = DefaultModel(cfg)

CameToDefault ==
    \E cfg \in request.inForce :
        request.ask \in {None, DefaultModel(cfg)} \/ request.ask \notin Listed(cfg)

\* Why a model may be going to head the list.
Heads(pc, name) ==
    /\ pc \in {"compare", "kind", "route"} => Resolvable(name)
    /\ pc = "compare" => (name = request.ask /\ request.ask # None) \/ CameToDefault
    /\ pc \in {"kind", "route"} => CameToDefault
    /\ pc \in {"allow", "listed", "upstream", "build"} => MayHead(name)

HeadInv == Heads(request.pc, request.resolved)

InForceInv == request.pc \notin {"idle", "done"} => handler \in request.inForce

Answered == AskedIsTried /\ OwnUpstream /\ FollowsAnOrder

RequestInv == InForceInv /\ AskedInv /\ UpstreamInv /\ HeadInv /\ Answered

\* The reasons are not lost when a configuration is published.
LEMMA HeadsGrow ==
    ASSUME request'.ask = request.ask, request.inForce \subseteq request'.inForce
    PROVE  /\ \A name : (Resolvable(name) => Resolvable(name)') /\ (MayHead(name) => MayHead(name)')
           /\ CameToDefault => CameToDefault'
           /\ \A pc, name : Heads(pc, name) => Heads(pc, name)'
<1>1. \A name : Resolvable(name) => Resolvable(name)'
  BY DEF Resolvable
<1>2. \A name : MayHead(name) => MayHead(name)'
  BY DEF MayHead
<1>3. CameToDefault => CameToDefault'
  BY DEF CameToDefault
<1>4. \A pc, name : Heads(pc, name) => Heads(pc, name)'
  BY <1>1, <1>2, <1>3 DEF Heads
<1> QED BY <1>1, <1>2, <1>3, <1>4

LEMMA MayHeadIf == \A name : Resolvable(name) => MayHead(name)
BY DEF Resolvable, MayHead

LEMMA RequestInitially == RoutingInit => RequestInv
<1> SUFFICES ASSUME RoutingInit PROVE RequestInv
  OBVIOUS
<1>1. request.pc = "idle"
  BY DEF RoutingInit
<1> QED BY <1>1 DEF RequestInv, InForceInv, AskedInv, UpstreamInv, HeadInv, Heads, Answered,
                    AskedIsTried, OwnUpstream, FollowsAnOrder, Routed

LEMMA NotAnsweredYet == request'.pc # "done" => Answered'
BY DEF Answered, AskedIsTried, OwnUpstream, FollowsAnOrder, Routed

\* An answer is not disturbed once it is given.
LEMMA AnswerStays ==
    ASSUME Answered, codex' = codex,
           request'.pc = request.pc, request'.answer = request.answer, request'.list = request.list,
           request'.ask = request.ask, request'.inForce = request.inForce
    PROVE  Answered'
<1>1. AskedIsTried'
  BY DEF Answered, AskedIsTried, Routed, NamesOf
<1>2. OwnUpstream'
  BY DEF Answered, OwnUpstream, Routed
<1>3. FollowsAnOrder'
  <2> DEFINE names == [i \in DOMAIN request.list |-> request.list[i].name]
             head == Head(names)
  <2> SUFFICES ASSUME Routed'
               PROVE  /\ IsInjective(names) /\ MayHead(head)'
                      /\ \E cfg \in request.inForce :
                             IsPrefix(Kept(cfg.models, Usable \ {head}), Tail(names))
    BY DEF FollowsAnOrder, Usable, MayHead
  <2>1. Routed
    BY DEF Routed
  <2>2. /\ IsInjective(names) /\ MayHead(head)
        /\ \E cfg \in request.inForce :
               IsPrefix(Kept(cfg.models, Usable \ {head}), Tail(names))
    BY <2>1 DEF Answered, FollowsAnOrder
  <2>3. head' = head
    OBVIOUS
  <2> HIDE DEF head, names
  <2>4. MayHead(head)'
    BY <2>2, <2>3 DEF MayHead
  <2> QED BY <2>2, <2>4
<1> QED BY <1>1, <1>2, <1>3 DEF Answered

\* The steps of a request, field by field.
LEMMA RequestedSets ==
    ASSUME request \in Requests, NEW pc, NEW name, Requested(pc, name)
    PROVE  /\ request'.pc = pc /\ request'.resolved = name /\ request'.ask = request.ask
           /\ request'.inForce = request.inForce /\ request'.upstream = request.upstream
BY DEF Requested, Requests

LEMMA AnswersSets ==
    ASSUME request \in Requests, NEW answer, NEW list, Answers(answer, list)
    PROVE  /\ request'.pc = "done" /\ request'.answer = answer /\ request'.list = list
           /\ request'.ask = request.ask /\ request'.inForce = request.inForce
BY DEF Answers, Requests

LEMMA PublishesSets ==
    ASSUME request \in Requests, NEW cfg, Publishes(cfg)
    PROVE  /\ request'.pc = request.pc /\ request'.resolved = request.resolved
           /\ request'.ask = request.ask /\ request'.upstream = request.upstream
           /\ request'.answer = request.answer /\ request'.list = request.list
           /\ request'.inForce = IF request.pc \in {"idle", "done"} THEN request.inForce
                                 ELSE request.inForce \cup {cfg}
BY DEF Publishes, Requests

\* A request is not disturbed by what is published.
LEMMA RequestPublished ==
    ASSUME TypeInv, RequestInv, NEW cfg \in Configs, Publishes(cfg), codex' = codex
    PROVE  RequestInv'
<1>1. /\ request'.pc = request.pc /\ request'.resolved = request.resolved
      /\ request'.ask = request.ask /\ request'.upstream = request.upstream
      /\ request'.answer = request.answer /\ request'.list = request.list
      /\ request'.inForce = IF request.pc \in {"idle", "done"} THEN request.inForce
                            ELSE request.inForce \cup {cfg}
      /\ handler' = cfg
  BY PublishesSets DEF TypeInv, RoutingTypeOK, Publishes
<1>2. InForceInv'
  BY <1>1 DEF InForceInv
<1>3. request.inForce \subseteq request'.inForce
  BY <1>1
<1>4. UpstreamInv'
  BY <1>1, <1>3 DEF UpstreamInv, RequestInv
<1>5. AskedInv'
  <2> SUFFICES ASSUME request'.ask # None, ListsAndRoutesAlike(request.ask)',
                      request'.pc \in {"compare", "kind", "route", "allow", "listed", "upstream",
                                       "build"}
               PROVE  /\ request.pc \in {"compare", "kind", "route"} =>
                            request.resolved = request.ask
                      /\ request.pc = "route" => \A c \in request'.inForce : c.routing # None
                      /\ request.pc \in {"allow", "listed", "upstream", "build"} =>
                            \/ request.resolved = request.ask
                            \/ request.resolved # None
                               /\ \A c \in request'.inForce : c.routing = request.resolved
    BY <1>1 DEF AskedInv
  <2>1. ListsAndRoutesAlike(request.ask)
    BY <1>1, <1>3 DEF ListsAndRoutesAlike
  <2>2. \A c, other \in request'.inForce : c.routing = other.routing
    BY DEF ListsAndRoutesAlike
  <2>3. handler \in request.inForce
    BY <1>1 DEF RequestInv, InForceInv
  <2>4. /\ request.pc \in {"compare", "kind", "route"} => request.resolved = request.ask
        /\ request.pc = "route" => handler.routing # None
        /\ request.pc \in {"allow", "listed", "upstream", "build"} =>
              \/ request.resolved = request.ask
              \/ request.resolved # None /\ handler.routing = request.resolved
    BY <1>1, <2>1, <2>3 DEF RequestInv, AskedInv
  <2> QED BY <1>3, <2>2, <2>3, <2>4
<1>6. Answered'
  <2>1. CASE request.pc = "done"
    <3>1. request'.inForce = request.inForce
      BY <1>1, <2>1
    <3> QED BY <1>1, <3>1, AnswerStays DEF RequestInv
  <2>2. CASE request.pc # "done"
    BY <1>1, <2>2, NotAnsweredYet
  <2> QED BY <2>1, <2>2
<1>7. HeadInv'
  <2>1. Heads(request.pc, request.resolved)
    BY DEF RequestInv, HeadInv
  <2> QED BY <1>1, <1>3, <2>1, HeadsGrow DEF HeadInv
<1> QED BY <1>2, <1>4, <1>5, <1>6, <1>7 DEF RequestInv

LEMMA RequestUndisturbed ==
    ASSUME RequestInv, UNCHANGED <<handler, codex, request>>
    PROVE  RequestInv'
<1>1. InForceInv' /\ AskedInv' /\ UpstreamInv' /\ HeadInv'
  BY DEF RequestInv, InForceInv, AskedInv, UpstreamInv, ListsAndRoutesAlike, HeadInv, Heads,
         Resolvable, CameToDefault, MayHead
<1>2. Answered'
  BY AnswerStays DEF RequestInv
<1> QED BY <1>1, <1>2 DEF RequestInv

\* A decision that is not the last.
LEMMA RequestDecides ==
    ASSUME TypeInv, RequestInv, request.pc \notin {"idle", "done"}, UNCHANGED unrouted,
           NEW pc \in {"resolve", "compare", "kind", "route", "allow", "listed", "upstream"},
           NEW name, Requested(pc, name), Heads(pc, name),
           request.ask # None /\ ListsAndRoutesAlike(request.ask) =>
               /\ pc \in {"compare", "kind", "route"} => name = request.ask
               /\ pc = "route" => \A cfg \in request.inForce : cfg.routing # None
               /\ pc \in {"allow", "listed", "upstream"} =>
                     \/ name = request.ask
                     \/ name # None /\ \A cfg \in request.inForce : cfg.routing = name
    PROVE  RequestInv'
<1>1. /\ request'.pc = pc /\ request'.resolved = name /\ request'.ask = request.ask
      /\ request'.inForce = request.inForce /\ request'.upstream = request.upstream
  BY RequestedSets DEF TypeInv, RoutingTypeOK
<1>2. handler' = handler
  BY DEF unrouted, configVars
<1>3. InForceInv' /\ UpstreamInv' /\ Answered'
  BY <1>1, <1>2, NotAnsweredYet DEF InForceInv, UpstreamInv, RequestInv
<1>4. ListsAndRoutesAlike(request.ask)' <=> ListsAndRoutesAlike(request.ask)
  BY <1>1 DEF ListsAndRoutesAlike
<1>5. AskedInv'
  BY <1>1, <1>4 DEF AskedInv
<1>6. HeadInv'
  BY <1>1, HeadsGrow DEF HeadInv
<1> QED BY <1>3, <1>5, <1>6 DEF RequestInv

\* An answer without a list.
LEMMA RequestRefused ==
    ASSUME TypeInv, RequestInv, codex' = codex, NEW answer \in {"none", "not ready", "refused"},
           Answers(answer, <<>>),
           answer = "none" \/ request.ask = None \/ ~ListsAndRoutesAlike(request.ask)
    PROVE  RequestInv'
<1>1. /\ request'.pc = "done" /\ request'.answer = answer
      /\ request'.ask = request.ask /\ request'.inForce = request.inForce
  BY AnswersSets DEF TypeInv, RoutingTypeOK
<1>2. InForceInv' /\ UpstreamInv' /\ AskedInv'
  BY <1>1 DEF InForceInv, UpstreamInv, AskedInv
<1>3. ~Routed'
  BY <1>1 DEF Routed
<1>4. AskedIsTried'
  BY <1>1 DEF AskedIsTried, ListsAndRoutesAlike
<1>5. OwnUpstream' /\ FollowsAnOrder'
  BY <1>3 DEF OwnUpstream, FollowsAnOrder
<1>6. HeadInv'
  BY <1>1 DEF HeadInv, Heads
<1> QED BY <1>2, <1>4, <1>5, <1>6 DEF RequestInv, Answered

\* The list.
LEMMA RequestBuilds ==
    ASSUME TypeInv, RequestInv, BuildsList
    PROVE  RequestInv'
<1> DEFINE primary == [name |-> request.resolved, upstream |-> request.upstream]
           list == PreferenceList(primary)
           names == [i \in DOMAIN list |-> list[i].name]
<1>1. request \in Requests /\ handler \in Configs /\ request.pc = "build"
      /\ handler \in request.inForce /\ request.inForce \subseteq Configs
  BY RequestTypes DEF TypeInv, RoutingTypeOK, BuildsList, RequestInv, InForceInv
<1>2. primary \in ModelSpecs /\ primary.name = request.resolved
      /\ primary.upstream = request.upstream
  BY <1>1, RequestTypes DEF ModelSpecs
<1>3. Answers("list", list) /\ codex' = codex
  BY DEF BuildsList, unrouted, configVars
<1> HIDE DEF primary
<1>4. /\ primary.name \in NamesOf(list)
      /\ \A name \in Listed(handler) : name \in Usable => name \in NamesOf(list)
      /\ \A i \in DOMAIN list :
            \/ list[i] = primary
            \/ list[i] = Spec(list[i].name)
            \/ list[i].name \notin Listed(handler) \cap Usable
      /\ IsInjective(names) /\ Head(names) = primary.name
      /\ IsPrefix(Others(primary.name), Tail(names))
  BY <1>2, ListIsGood DEF TypeInv
<1> HIDE DEF list
<1>5. /\ request'.pc = "done" /\ request'.answer = "list" /\ request'.list = list
      /\ request'.ask = request.ask /\ request'.inForce = request.inForce
  BY <1>1, <1>3, AnswersSets
<1>6. Listed(handler) \subseteq Names
  BY <1>1, ConfigTypes
<1>7. \A name \in Names : name \notin Usable => Home[name] = "codex" /\ ~codex
  BY DEF Usable
<1>8. AskedIsTried'
  <2> SUFFICES ASSUME request.ask # None, ListsAndRoutesAlike(request.ask),
                      ~(Home[request.ask] = "codex" /\ ~codex)
               PROVE  request.ask \in NamesOf(list)
    BY <1>3, <1>5 DEF AskedIsTried, ListsAndRoutesAlike, Routed, NamesOf
  <2>1. request.ask \in Listed(handler)
    BY <1>1 DEF ListsAndRoutesAlike
  <2> QED BY <1>4, <1>6, <1>7, <2>1
<1>9. OwnUpstream'
  <2> SUFFICES ASSUME NEW i \in DOMAIN list,
                      \A cfg \in request.inForce : list[i].name \in Listed(cfg),
                      ~(Home[list[i].name] = "codex" /\ ~codex)
               PROVE  list[i] = Spec(list[i].name)
    BY <1>3, <1>5 DEF OwnUpstream
  <2>1. list[i].name \in Listed(handler) /\ list[i].name \in Usable
    BY <1>1, <1>6, <1>7
  <2>2. CASE list[i] = primary
    <3>1. list[i].name = request.resolved
      BY <1>2, <2>2
    <3>2. request.upstream = Home[request.resolved]
      BY <1>1, <3>1 DEF RequestInv, UpstreamInv
    <3> QED BY <2>2, <3>1, <3>2 DEF Spec, primary
  <2> QED BY <1>4, <2>1, <2>2
<1>10. FollowsAnOrder'
  <2> DEFINE answered == [i \in DOMAIN request.list |-> request.list[i].name]
             head == Head(answered)
  <2>1. answered' = names
    BY <1>5
  <2>2. Usable' = Usable
    BY <1>3 DEF Usable
  <2>3. IsPrefix(Kept(handler.models, Usable \ {Head(names)}), Tail(names))
    BY <1>4 DEF Others
  <2>4. MayHead(request.resolved)
    BY <1>1 DEF RequestInv, HeadInv, Heads
  <2>5. head' = request.resolved
    BY <1>2, <1>4, <2>1
  <2>6. IsInjective(answered') /\ IsPrefix(Kept(handler.models, Usable \ {head'}), Tail(answered'))
    BY <1>4, <2>1, <2>3
  <2>7. /\ Usable' = Usable
        /\ \E cfg \in request'.inForce : IsPrefix(Kept(cfg.models, Usable \ {head'}), Tail(answered'))
    BY <1>1, <1>5, <2>2, <2>6
  <2>8. MayHead(head)'
    <3> HIDE DEF head
    <3> QED BY <1>5, <2>4, <2>5 DEF MayHead
  <2> QED BY <2>6, <2>7, <2>8 DEF FollowsAnOrder
<1>11. InForceInv' /\ UpstreamInv' /\ AskedInv' /\ HeadInv'
  BY <1>5 DEF InForceInv, UpstreamInv, AskedInv, HeadInv, Heads
<1> QED BY <1>8, <1>9, <1>10, <1>11 DEF RequestInv, Answered

LEMMA RequestStepKeeps ==
    ASSUME TypeInv, RequestInv, RequestStep
    PROVE  RequestInv'
<1> DEFINE asked == request.ask # None /\ ListsAndRoutesAlike(request.ask)
<1>1. request \in Requests /\ handler \in Configs /\ handler.models \in Seq(Names)
      /\ UNCHANGED unrouted /\ codex' = codex /\ handler' = handler
  BY RequestStepTypes, ConfigTypes DEF TypeInv, RoutingTypeOK, unrouted, configVars
<1>2. ASSUME request.pc \notin {"idle", "done"}, asked
      PROVE  /\ handler \in request.inForce /\ request.ask \in Listed(handler)
             /\ \A cfg \in request.inForce : cfg.routing = handler.routing
             /\ DefaultModel(handler) # None
  <2>1. handler \in request.inForce
    BY <1>2 DEF RequestInv, InForceInv
  <2>2. request.ask \in Listed(handler)
    BY <1>2, <2>1 DEF ListsAndRoutesAlike
  <2>3. handler.models # <<>>
    BY <2>2 DEF Listed, Range
  <2>4. DefaultModel(handler) # None
    <3>1. Head(handler.models) \in Names
      BY <1>1, <2>3
    <3> QED BY <2>3, <3>1, HomeAssumption DEF DefaultModel
  <2> QED BY <1>2, <2>1, <2>2, <2>4 DEF ListsAndRoutesAlike
<1>3. asked => /\ request.pc \in {"compare", "kind", "route"} => request.resolved = request.ask
               /\ request.pc = "route" => \A cfg \in request.inForce : cfg.routing # None
               /\ request.pc \in {"allow", "listed", "upstream", "build"} =>
                     \/ request.resolved = request.ask
                     \/ request.resolved # None
                        /\ \A cfg \in request.inForce : cfg.routing = request.resolved
  BY DEF RequestInv, AskedInv
<1>14. Heads(request.pc, request.resolved)
  BY DEF RequestInv, HeadInv
<1>15. request.pc \notin {"idle", "done"} => handler \in request.inForce
  BY DEF RequestInv, InForceInv
<1>4. CASE Arrives
  <2>1. request'.pc = "ready" /\ request'.inForce = {handler}
    BY <1>1, <1>4 DEF Arrives, Requests
  <2>2. InForceInv' /\ UpstreamInv' /\ AskedInv' /\ HeadInv' /\ Answered'
    BY <1>1, <2>1, NotAnsweredYet DEF InForceInv, UpstreamInv, AskedInv, HeadInv, Heads
  <2> QED BY <2>2 DEF RequestInv
<1>5. CASE ChecksReady
  <2>1. request.pc = "ready"
    BY <1>5 DEF ChecksReady
  <2>2. CASE DefaultModel(handler) = None
    <3>1. Answers("not ready", <<>>)
      BY <1>5, <2>2 DEF ChecksReady
    <3>2. ~asked
      BY <1>2, <2>1, <2>2
    <3> QED BY <1>1, <3>1, <3>2, RequestRefused
  <2>3. CASE DefaultModel(handler) # None
    <3>1. Requested("resolve", None)
      BY <1>5, <2>3 DEF ChecksReady
    <3>2. Heads("resolve", None)
      BY DEF Heads
    <3> QED BY <1>1, <2>1, <3>1, <3>2, RequestDecides
  <2> QED BY <2>2, <2>3
<1>6. CASE Resolves
  <2> DEFINE byName == request.ask # None
                       /\ (request.ask \in Listed(handler) \/ handler.unlisted)
             name == IF byName THEN request.ask ELSE DefaultModel(handler)
  <2>1. request.pc = "resolve" /\ Requested("compare", name)
    BY <1>6 DEF Resolves
  <2>2. asked => name = request.ask
    BY <1>2, <2>1
  <2>3. handler \in request.inForce
    BY <1>15, <2>1
  <2>4. ASSUME byName PROVE Heads("compare", name)
    BY <2>3, <2>4 DEF Heads, Resolvable
  <2>5. ASSUME ~byName PROVE Heads("compare", name)
    BY <2>3, <2>5 DEF Heads, Resolvable, CameToDefault
  <2>6. Heads("compare", name)
    BY <2>4, <2>5
  <2> HIDE DEF name
  <2> QED BY <1>1, <2>1, <2>2, <2>6, RequestDecides
<1>7. CASE ComparesDefault
  <2>1. request.pc = "compare"
        /\ \/ request.resolved = DefaultModel(handler) /\ Requested("kind", request.resolved)
           \/ Requested("allow", request.resolved)
    BY <1>7 DEF ComparesDefault
  <2>2. Resolvable(request.resolved)
        /\ ((request.resolved = request.ask /\ request.ask # None) \/ CameToDefault)
    BY <1>14, <2>1 DEF Heads
  <2>3. Heads("allow", request.resolved)
    BY <2>2, MayHeadIf DEF Heads
  <2>4. ASSUME request.resolved = DefaultModel(handler)
        PROVE  Heads("kind", request.resolved)
    <3>1. CameToDefault
      BY <1>15, <2>1, <2>2, <2>4 DEF CameToDefault
    <3> QED BY <2>2, <3>1 DEF Heads
  <2> QED BY <1>1, <1>3, <2>1, <2>3, <2>4, RequestDecides
<1>8. CASE ChecksRouting
  <2>1. request.pc = "kind"
    BY <1>8 DEF ChecksRouting
  <2>4. Heads("allow", request.resolved) /\ Heads("route", request.resolved)
    BY <1>14, <2>1, MayHeadIf DEF Heads
  <2>2. CASE handler.routing = None
    <3>1. Requested("allow", request.resolved)
      BY <1>8, <2>2 DEF ChecksRouting
    <3> QED BY <1>1, <1>3, <2>1, <2>4, <3>1, RequestDecides
  <2>3. CASE handler.routing # None
    <3>1. Requested("route", request.resolved)
      BY <1>8, <2>3 DEF ChecksRouting
    <3>2. asked => \A cfg \in request.inForce : cfg.routing # None
      BY <1>2, <2>1, <2>3
    <3> QED BY <1>1, <1>3, <2>1, <2>4, <3>1, <3>2, RequestDecides
  <2> QED BY <2>2, <2>3
<1>9. CASE Routes
  <2>1. request.pc = "route" /\ Requested("allow", handler.routing)
    BY <1>9 DEF Routes
  <2>2. asked => handler.routing # None /\ \A cfg \in request.inForce : cfg.routing = handler.routing
    BY <1>2, <1>3, <2>1
  <2>3. CameToDefault /\ handler \in request.inForce
    BY <1>14, <1>15, <2>1 DEF Heads
  <2>4. MayHead(handler.routing)
    BY <2>3 DEF CameToDefault, MayHead
  <2>5. Heads("allow", handler.routing)
    BY <2>4 DEF Heads
  <2> QED BY <1>1, <2>1, <2>2, <2>5, RequestDecides
<1>10. CASE ChecksUnlisted
  <2>1. request.pc = "allow"
        /\ (Requested("upstream", request.resolved) \/ Requested("listed", request.resolved))
    BY <1>10 DEF ChecksUnlisted
  <2>2. Heads("upstream", request.resolved) /\ Heads("listed", request.resolved)
    BY <1>14, <2>1 DEF Heads
  <2> QED BY <1>1, <1>3, <2>1, <2>2, RequestDecides
<1>11. CASE ChecksAllowed
  <2>1. request.pc = "listed"
    BY <1>11 DEF ChecksAllowed
  <2>2. CASE IsModelAllowed(handler, request.resolved)
    <3>1. Requested("upstream", request.resolved)
      BY <1>11, <2>2 DEF ChecksAllowed
    <3>2. Heads("upstream", request.resolved)
      BY <1>14, <2>1 DEF Heads
    <3> QED BY <1>1, <1>3, <2>1, <3>1, <3>2, RequestDecides
  <2>3. CASE ~IsModelAllowed(handler, request.resolved)
    <3>1. Answers("refused", <<>>)
      BY <1>11, <2>3 DEF ChecksAllowed
    <3>2. ~asked
      <4> SUFFICES ASSUME asked PROVE FALSE
        OBVIOUS
      <4>1. handler \in request.inForce /\ request.ask \in Listed(handler)
        BY <1>2, <2>1
      <4>2. request.resolved # None /\ request.resolved \in Listed(handler) \cup {handler.routing}
        BY <1>3, <2>1, <4>1
      <4> QED BY <2>3, <4>2 DEF IsModelAllowed
    <3> QED BY <1>1, <3>1, <3>2, RequestRefused
  <2> QED BY <2>2, <2>3
<1>12. CASE FindsUpstream
  <2>1. /\ request.pc = "upstream" /\ request'.pc = "build"
        /\ request'.upstream = UpstreamForModel(handler, request.resolved)
        /\ request'.resolved = request.resolved /\ request'.ask = request.ask
        /\ request'.inForce = request.inForce
    BY <1>1, <1>12 DEF FindsUpstream, Requests
  <2>2. handler \in request.inForce
    BY <2>1 DEF RequestInv, InForceInv
  <2>3. UpstreamInv'
    BY <2>1, <2>2 DEF UpstreamInv, UpstreamForModel
  <2>4. InForceInv' /\ Answered'
    BY <1>1, <2>1, <2>2, NotAnsweredYet DEF InForceInv
  <2>5. AskedInv'
    BY <1>3, <2>1 DEF AskedInv, ListsAndRoutesAlike
  <2>6. HeadInv'
    <3>1. MayHead(request.resolved)
      BY <1>14, <2>1 DEF Heads
    <3> QED BY <2>1, <3>1 DEF HeadInv, Heads, MayHead
  <2> QED BY <2>3, <2>4, <2>5, <2>6 DEF RequestInv
<1>13. CASE BuildsList
  BY <1>13, RequestBuilds
<1> QED BY <1>4, <1>5, <1>6, <1>7, <1>8, <1>9, <1>10, <1>11, <1>12, <1>13 DEF RequestStep

LEMMA RequestNext == TypeInv /\ RequestInv /\ [RoutingNext]_vars => RequestInv'
<1> SUFFICES ASSUME TypeInv, RequestInv, [RoutingNext]_vars PROVE RequestInv'
  OBVIOUS
<1>1. CASE UNCHANGED <<handler, codex, request>>
  BY <1>1, RequestUndisturbed
<1>2. CASE RequestStep
  BY <1>2, RequestStepKeeps
<1>3. ASSUME NEW f \in Fetchers, FetchStep(f)
      PROVE  RequestInv'
  <2>1. CASE Applies(f)
    <3>1. fetch[f].next \in Configs
      BY DEF TypeInv, RoutingTypeOK
    <3>2. Publishes(fetch[f].next) /\ codex' = codex
      BY <2>1 DEF Applies
    <3> QED BY <3>1, <3>2, RequestPublished
  <2> QED BY <1>1, <1>3, <2>1
          DEF FetchStep, FetchStarts, FetchFails, FetchEnds, Discovers, configVars
<1>4. ASSUME NEW o \in Operations, OperationStep(o)
      PROVE  RequestInv'
  <2>1. work[o].next \in Configs /\ main \in Configs
    BY DEF TypeInv, RoutingTypeOK
  <2>2. CASE Save(o)
    <3>1. PICK form \in Forms : Publishes(Submitted(form))
                                /\ codex' = codex
      BY <2>2 DEF Save
    <3>2. Submitted(form) \in Configs
      BY <2>1, ConfigTypes
    <3> QED BY <3>1, <3>2, RequestPublished
  <2>3. CASE Stores(o)
    BY <2>1, <2>3, RequestPublished DEF Stores
  <2>4. CASE Restarts(o)
    <3>1. codex' = codex
      BY <2>4 DEF Restarts
    <3>2. CASE request.pc \in {"idle", "done"}
      <4>1. request' = request
        BY <2>4, <3>2 DEF Restarts
      <4>2. Answered'
        BY <3>1, <4>1, AnswerStays DEF RequestInv
      <4>3. InForceInv' /\ AskedInv' /\ UpstreamInv' /\ HeadInv'
        BY <3>2, <4>1 DEF InForceInv, AskedInv, UpstreamInv, HeadInv, Heads
      <4> QED BY <4>2, <4>3 DEF RequestInv
    <3>3. CASE request.pc \notin {"idle", "done"}
      <4>1. Answers("none", <<>>)
        BY <2>4, <3>3 DEF Restarts
      <4> QED BY <3>1, <4>1, RequestRefused
    <3> QED BY <3>2, <3>3
  <2> QED BY <1>1, <1>4, <2>2, <2>3, <2>4
          DEF OperationStep, RebuildRouter, Reorder, Takes, Persists, configVars
<1>5. CASE UNCHANGED vars
  BY <1>1, <1>5 DEF vars
<1> QED BY <1>2, <1>3, <1>4, <1>5 DEF RoutingNext

\* Whatever is saved, reordered or discovered between the loads of a request
\* (HandleMessages, handlers.go): the model asked for is not lost when all the
\* configurations it may have read list it and route alike;
THEOREM AskedTried == RoutingSpec => []AskedIsTried
<1>1. RoutingSpec => [](TypeInv /\ RequestInv)
  BY TypeInitially, TypeNext, RequestInitially, RequestNext, PTL DEF RoutingSpec
<1>2. RequestInv => AskedIsTried
  BY DEF RequestInv, Answered
<1> QED BY <1>1, <1>2, PTL

\* a model goes to the upstream it is listed with (UpstreamForModel,
\* buildPreferenceList, appendDiscoveredModels);
THEOREM UpstreamIsItsOwn == RoutingSpec => []OwnUpstream
<1>1. RoutingSpec => [](TypeInv /\ RequestInv)
  BY TypeInitially, TypeNext, RequestInitially, RequestNext, PTL DEF RoutingSpec
<1>2. RequestInv => OwnUpstream
  BY DEF RequestInv, Answered
<1> QED BY <1>1, <1>2, PTL

\* and no model is tried twice, with the fallbacks in the order of one configuration
\* that was in force (buildPreferenceList).  That order is not walked as it is:
\* HandleMessages resolves the model asked for and routes by kind
\* (handlers.go:551-596), which may put one model before the others, and the theorem
\* says which: the one asked for, if a configuration in force lists it or allows models
\* that are not listed; the first of a configuration in force; or the one requests of
\* a kind are routed to, and that only for a request that came down to the default.
THEOREM OrderFollowed == RoutingSpec => []FollowsAnOrder
<1>1. RoutingSpec => [](TypeInv /\ RequestInv)
  BY TypeInitially, TypeNext, RequestInitially, RequestNext, PTL DEF RoutingSpec
<1>2. RequestInv => FollowsAnOrder
  BY DEF RequestInv, Answered
<1> QED BY <1>1, <1>2, PTL
=============================================================================
