------------------------- MODULE SubsequencesProofs -------------------------
(***************************************************************************)
(* Induction over numbers and sequences, and what Picked returns.            *)
(***************************************************************************)
EXTENDS Subsequences, FiniteSetTheorems, SequenceTheorems, TLAPS

(* Induction: a set that holds 0 and with every number the next holds all of them.  The *)
(* library's theorem takes a predicate; this is the same for a set, from the finite      *)
(* sets being well founded.                                                              *)
LEMMA Induction ==
    ASSUME NEW S, 0 \in S, \A n \in Nat : n \in S => n + 1 \in S
    PROVE  Nat \subseteq S
<1> SUFFICES ASSUME NEW m \in Nat, m \notin S PROVE FALSE
  OBVIOUS
<1> DEFINE Initials == {1 .. n : n \in Nat \ S}
<1>1. Initials \subseteq FiniteSubsetsOf(Nat) /\ Initials # {}
  <2>1. \A n \in Nat : 1 .. n \subseteq Nat /\ IsFiniteSet(1 .. n)
    BY FS_Interval
  <2>2. 1 .. m \in Initials
    OBVIOUS
  <2> QED
    BY <2>1, <2>2 DEF FiniteSubsetsOf
<1>2. IsWellFoundedOn(StrictSubsetOrdering(Nat), FiniteSubsetsOf(Nat))
  BY FS_StrictSubsetOrderingWellFounded
<1>3. PICK I \in Initials : \A J \in Initials : ~(<<J, I>> \in StrictSubsetOrdering(Nat))
  <2> HIDE DEF Initials
  <2> QED
    BY <1>1, <1>2, WFMin
<1>4. PICK n \in Nat \ S : I = 1 .. n
  OBVIOUS
<1>5. n # 0 /\ n - 1 \in Nat \ S
  <2>1. n # 0 /\ n - 1 \in Nat /\ (n - 1) + 1 = n
    BY <1>4
  <2> QED
    BY <2>1, <1>4
<1>6. 1 .. n - 1 \in Initials
  BY <1>5
<1>7. <<1 .. n - 1, I>> \in StrictSubsetOrdering(Nat)
  <2>1. n \in 1 .. n /\ n \notin 1 .. n - 1
    BY <1>4, <1>5
  <2>2. 1 .. n - 1 \in SUBSET Nat /\ 1 .. n \in SUBSET Nat /\ 1 .. n - 1 \subseteq 1 .. n
    BY <1>4
  <2> QED
    BY <1>4, <2>1, <2>2 DEF StrictSubsetOrdering
<1> QED
  BY <1>3, <1>6, <1>7

(* The same over sequences, built by appending. *)
LEMMA SequenceInduction ==
    ASSUME NEW E, NEW T, <<>> \in T,
           \A s \in Seq(E), e \in E : s \in T => Append(s, e) \in T
    PROVE  Seq(E) \subseteq T
<1> DEFINE S == {n \in Nat : \A s \in Seq(E) : Len(s) = n => s \in T}
<1>1. 0 \in S
  BY EmptySeq
<1>2. ASSUME NEW n \in Nat, n \in S PROVE n + 1 \in S
  <2> SUFFICES ASSUME NEW s \in Seq(E), Len(s) = n + 1 PROVE s \in T
    OBVIOUS
  <2>1. PICK t \in Seq(E), e \in E : s = Append(t, e)
    BY EmptySeq, SequenceEmptyOrAppend
  <2>2. Len(t) = n
    BY <2>1, AppendProperties
  <2> QED
    BY <1>2, <2>1, <2>2
<1> HIDE DEF S
<1>3. Nat \subseteq S
  BY <1>1, <1>2, Induction
<1> QED
  BY <1>3, LenProperties DEF S

-----------------------------------------------------------------------------
(* What the recursion of Picked has found after i elements, up to n. *)
Unfolds(s, keep, n, k) ==
    /\ k[0] = <<>>
    /\ \A i \in 1 .. n : k[i] = IF s[i] \in keep THEN Append(k[i - 1], s[i]) ELSE k[i - 1]

LEMMA RecursionUnfolds ==
    ASSUME NEW E, NEW s \in Seq(E), NEW keep
    PROVE  \E k \in [0 .. Len(s) -> Seq(E)] : Unfolds(s, keep, Len(s), k)
<1> DEFINE Has(n) == n \leq Len(s) => \E k \in [0 .. n -> Seq(E)] : Unfolds(s, keep, n, k)
           S == {n \in Nat : Has(n)}
<1>1. Has(0)
  <2>1. [i \in 0 .. 0 |-> <<>>] \in [0 .. 0 -> Seq(E)]
    BY EmptySeq
  <2>2. Unfolds(s, keep, 0, [i \in 0 .. 0 |-> <<>>])
    BY DEF Unfolds
  <2> QED
    BY <2>1, <2>2
<1>2. ASSUME NEW n \in Nat, Has(n) PROVE Has(n + 1)
  <2> SUFFICES ASSUME n + 1 \leq Len(s)
               PROVE  \E k \in [0 .. n + 1 -> Seq(E)] : Unfolds(s, keep, n + 1, k)
    OBVIOUS
  <2>0. n \leq Len(s)
    BY LenProperties
  <2>1. PICK k \in [0 .. n -> Seq(E)] : Unfolds(s, keep, n, k)
    BY <1>2, <2>0
  <2> DEFINE last == IF s[n + 1] \in keep THEN Append(k[n], s[n + 1]) ELSE k[n]
             l == [i \in 0 .. n + 1 |-> IF i = n + 1 THEN last ELSE k[i]]
  <2>2. s[n + 1] \in E /\ k[n] \in Seq(E)
    BY <2>1, LenProperties
  <2>3. last \in Seq(E)
    BY <2>2
  <2>4. l \in [0 .. n + 1 -> Seq(E)] /\ l[n + 1] = last /\ \A i \in 0 .. n : l[i] = k[i]
    BY <2>1, <2>3
  <2> HIDE DEF l
  <2>5. l[0] = <<>>
    BY <2>1, <2>4 DEF Unfolds
  <2>6. ASSUME NEW i \in 1 .. n + 1
        PROVE  l[i] = IF s[i] \in keep THEN Append(l[i - 1], s[i]) ELSE l[i - 1]
    <3>1. CASE i = n + 1
      BY <2>4, <3>1
    <3>2. CASE i \in 1 .. n
      <4>1. l[i] = k[i] /\ l[i - 1] = k[i - 1]
        BY <2>4, <3>2
      <4> QED
        BY <2>1, <3>2, <4>1 DEF Unfolds
    <3> QED
      BY <3>1, <3>2
  <2> QED
    BY <2>4, <2>5, <2>6 DEF Unfolds
<1> HIDE DEF Has
<1>3. Nat \subseteq S
  <2>1. 0 \in S /\ \A n \in Nat : n \in S => n + 1 \in S
    BY <1>1, <1>2
  <2> HIDE DEF S
  <2> QED
    BY <2>1, Induction
<1>4. Has(Len(s))
  BY <1>3, LenProperties
<1> QED
  BY <1>4, LenProperties DEF Has

LEMMA PickedUnfolds ==
    ASSUME NEW E, NEW s \in Seq(E), NEW keep
    PROVE  \E k \in [0 .. Len(s) -> Seq(E)] :
               Unfolds(s, keep, Len(s), k) /\ Picked(s, keep) = k[Len(s)]
<1> DEFINE Next(k1, i) == IF i = 0 THEN <<>>
                          ELSE IF s[i] \in keep THEN Append(k1[i - 1], s[i]) ELSE k1[i - 1]
           c == CHOOSE k1 : k1 = [i \in 0 .. Len(s) |-> Next(k1, i)]
<1>1. PICK k \in [0 .. Len(s) -> Seq(E)] : Unfolds(s, keep, Len(s), k)
  BY RecursionUnfolds
<1>2. ASSUME NEW i \in 0 .. Len(s) PROVE k[i] = Next(k, i)
  <2>1. i = 0 \/ i \in 1 .. Len(s)
    BY LenProperties
  <2> QED
    BY <1>1, <2>1 DEF Unfolds
<1>3. Picked(s, keep) = c[Len(s)]
  BY DEF Picked
<1> HIDE DEF Next
<1>4. k = [i \in 0 .. Len(s) |-> Next(k, i)]
  BY <1>1, <1>2
<1>5. c = [i \in 0 .. Len(s) |-> Next(c, i)]
  BY <1>4
<1> HIDE DEF c
<1>6. DOMAIN c = 0 .. Len(s) /\ \A i \in 0 .. Len(s) : c[i] = Next(c, i)
  BY <1>5
<1>7. Unfolds(s, keep, Len(s), c)
  <2>1. c[0] = <<>>
    BY <1>6, LenProperties DEF Next
  <2>2. ASSUME NEW i \in 1 .. Len(s)
        PROVE  c[i] = IF s[i] \in keep THEN Append(c[i - 1], s[i]) ELSE c[i - 1]
    <3>1. i \in 0 .. Len(s) /\ i # 0
      OBVIOUS
    <3> QED
      BY <1>6, <3>1 DEF Next
  <2> QED
    BY <2>1, <2>2 DEF Unfolds
<1> DEFINE T == {n \in Nat : n \leq Len(s) => c[n] \in Seq(E)}
<1>8. 0 \in T
  BY <1>7, EmptySeq DEF Unfolds
<1>9. ASSUME NEW n \in Nat, n \in T PROVE n + 1 \in T
  <2> SUFFICES ASSUME n + 1 \leq Len(s) PROVE c[n + 1] \in Seq(E)
    OBVIOUS
  <2>1. s[n + 1] \in E /\ c[n] \in Seq(E)
    BY <1>9, LenProperties
  <2>2. c[n + 1] = IF s[n + 1] \in keep THEN Append(c[n], s[n + 1]) ELSE c[n]
    BY <1>7, LenProperties DEF Unfolds
  <2> QED
    BY <2>1, <2>2
<1> HIDE DEF T
<1>10. Nat \subseteq T
  BY <1>8, <1>9, Induction
<1>11. \A n \in 0 .. Len(s) : c[n] \in Seq(E)
  BY <1>10, LenProperties DEF T
<1>12. c \in [0 .. Len(s) -> Seq(E)]
  BY <1>5, <1>6, <1>11
<1> QED
  BY <1>3, <1>7, <1>12

(* Picked of nothing, and of one element more. *)
LEMMA PickedEmpty ==
    ASSUME NEW keep
    PROVE  Picked(<<>>, keep) = <<>>
<1>1. PICK k \in [0 .. Len(<<>>) -> Seq({})] : Unfolds(<<>>, keep, Len(<<>>), k) /\ Picked(<<>>, keep) = k[Len(<<>>)]
  BY PickedUnfolds, EmptySeq
<1> QED
  BY <1>1, EmptySeq DEF Unfolds

LEMMA PickedAppend ==
    ASSUME NEW E, NEW s \in Seq(E), NEW e \in E, NEW keep
    PROVE  Picked(Append(s, e), keep)
             = IF e \in keep THEN Append(Picked(s, keep), e) ELSE Picked(s, keep)
<1> DEFINE t == Append(s, e)
<1>1. /\ t \in Seq(E) /\ Len(t) = Len(s) + 1 /\ t[Len(s) + 1] = e /\ Len(s) \in Nat
      /\ \A i \in 1 .. Len(s) : t[i] = s[i]
  BY AppendProperties, LenProperties
<1> HIDE DEF t
<1>2. PICK k \in [0 .. Len(s) -> Seq(E)] : Unfolds(s, keep, Len(s), k) /\ Picked(s, keep) = k[Len(s)]
  BY PickedUnfolds
<1>3. PICK l \in [0 .. Len(t) -> Seq(E)] : Unfolds(t, keep, Len(t), l) /\ Picked(t, keep) = l[Len(t)]
  BY <1>1, PickedUnfolds
<1> DEFINE S == {n \in Nat : n \leq Len(s) => l[n] = k[n]}
<1>4. 0 \in S
  BY <1>2, <1>3 DEF Unfolds
<1>5. ASSUME NEW n \in Nat, n \in S PROVE n + 1 \in S
  <2> SUFFICES ASSUME n + 1 \leq Len(s) PROVE l[n + 1] = k[n + 1]
    OBVIOUS
  <2>1. l[n] = k[n] /\ t[n + 1] = s[n + 1]
    BY <1>1, <1>5
  <2>2. l[n + 1] = IF t[n + 1] \in keep THEN Append(l[n], t[n + 1]) ELSE l[n]
    BY <1>1, <1>3 DEF Unfolds
  <2>3. k[n + 1] = IF s[n + 1] \in keep THEN Append(k[n], s[n + 1]) ELSE k[n]
    BY <1>2 DEF Unfolds
  <2> QED
    BY <2>1, <2>2, <2>3
<1> HIDE DEF S
<1>6. Nat \subseteq S
  BY <1>4, <1>5, Induction
<1>8. l[Len(s)] = k[Len(s)]
  BY <1>1, <1>6 DEF S
<1>7. l[Len(t)] = IF e \in keep THEN Append(l[Len(s)], e) ELSE l[Len(s)]
  BY <1>1, <1>3 DEF Unfolds
<1> QED
  BY <1>2, <1>3, <1>7, <1>8 DEF t

(* Its type. *)
LEMMA PickedType ==
    ASSUME NEW E, NEW s \in Seq(E), NEW keep
    PROVE  Picked(s, keep) \in Seq(E \cap keep) /\ Picked(s, keep) \in Seq(E)
<1> DEFINE T == {t \in Seq(E) : Picked(t, keep) \in Seq(E \cap keep)}
<1>1. <<>> \in T
  BY PickedEmpty, EmptySeq
<1>2. ASSUME NEW t \in Seq(E), NEW e \in E, t \in T PROVE Append(t, e) \in T
  <2>1. Picked(Append(t, e), keep) = IF e \in keep THEN Append(Picked(t, keep), e) ELSE Picked(t, keep)
    BY PickedAppend
  <2>2. e \in keep => Append(Picked(t, keep), e) \in Seq(E \cap keep)
    BY <1>2, AppendProperties
  <2> QED
    BY <1>2, <2>1, <2>2, AppendProperties
<1> HIDE DEF T
<1>3. s \in T
  BY <1>1, <1>2, SequenceInduction
<1> QED
  BY <1>3, SeqMonotonic DEF T

(* It goes through a concatenation. *)
LEMMA PickedConcat ==
    ASSUME NEW E, NEW s \in Seq(E), NEW u \in Seq(E), NEW keep
    PROVE  Picked(s \o u, keep) = Picked(s, keep) \o Picked(u, keep)
<1> DEFINE T == {t \in Seq(E) : Picked(s \o t, keep) = Picked(s, keep) \o Picked(t, keep)}
<1>1. <<>> \in T
  <2>1. Picked(s, keep) \o <<>> = Picked(s, keep)
    BY PickedType, ConcatEmptySeq
  <2> QED
    BY <2>1, PickedEmpty, ConcatEmptySeq, EmptySeq
<1>2. ASSUME NEW t \in Seq(E), NEW e \in E, t \in T PROVE Append(t, e) \in T
  <2>1. s \o Append(t, e) = Append(s \o t, e) /\ s \o t \in Seq(E)
    BY ConcatProperties
  <2>2. Picked(Append(s \o t, e), keep)
          = IF e \in keep THEN Append(Picked(s \o t, keep), e) ELSE Picked(s \o t, keep)
    BY <2>1, PickedAppend
  <2>3. Picked(Append(t, e), keep) = IF e \in keep THEN Append(Picked(t, keep), e) ELSE Picked(t, keep)
    BY PickedAppend
  <2>4. Picked(s, keep) \in Seq(E) /\ Picked(t, keep) \in Seq(E)
    BY PickedType
  <2>5. Picked(s, keep) \o Append(Picked(t, keep), e) = Append(Picked(s, keep) \o Picked(t, keep), e)
    BY <2>4
  <2> QED
    BY <1>2, <2>1, <2>2, <2>3, <2>5, AppendProperties
<1> HIDE DEF T
<1>3. u \in T
  BY <1>1, <1>2, SequenceInduction
<1> QED
  BY <1>3 DEF T

LEMMA PickedOne ==
    ASSUME NEW e, NEW keep
    PROVE  Picked(<<e>>, keep) = IF e \in keep THEN <<e>> ELSE <<>>
<1>1. Append(<<>>, e) = <<e>> /\ <<>> \in Seq({e}) /\ e \in {e}
  BY EmptySeq
<1>2. Picked(Append(<<>>, e), keep)
        = IF e \in keep THEN Append(Picked(<<>>, keep), e) ELSE Picked(<<>>, keep)
  BY <1>1, PickedAppend
<1> QED
  BY <1>1, <1>2, PickedEmpty

(* Only the elements count, and elements that are not kept do not. *)
LEMMA PickedSame ==
    ASSUME NEW E, NEW s \in Seq(E), NEW keep, NEW other, E \cap keep = E \cap other
    PROVE  Picked(s, keep) = Picked(s, other)
<1> DEFINE T == {t \in Seq(E) : Picked(t, keep) = Picked(t, other)}
<1>1. <<>> \in T
  BY PickedEmpty, EmptySeq
<1>2. ASSUME NEW t \in Seq(E), NEW e \in E, t \in T PROVE Append(t, e) \in T
  <2>1. Picked(Append(t, e), keep) = IF e \in keep THEN Append(Picked(t, keep), e) ELSE Picked(t, keep)
    BY PickedAppend
  <2>2. Picked(Append(t, e), other)
          = IF e \in other THEN Append(Picked(t, other), e) ELSE Picked(t, other)
    BY PickedAppend
  <2>3. e \in keep <=> e \in other
    OBVIOUS
  <2> QED
    BY <1>2, <2>1, <2>2, <2>3, AppendProperties
<1> HIDE DEF T
<1>3. s \in T
  BY <1>1, <1>2, SequenceInduction
<1> QED
  BY <1>3 DEF T

LEMMA PickedNone ==
    ASSUME NEW E, NEW s \in Seq(E), NEW keep, E \cap keep = {}
    PROVE  Picked(s, keep) = <<>>
<1>1. Picked(s, keep) \in Seq(E \cap keep)
  BY PickedType
<1>2. ASSUME Picked(s, keep) # <<>> PROVE FALSE
  BY <1>1, <1>2, HeadTailProperties
<1> QED
  BY <1>2

LEMMA PickedAll ==
    ASSUME NEW E, NEW s \in Seq(E), NEW keep, E \subseteq keep
    PROVE  Picked(s, keep) = s
<1> DEFINE T == {t \in Seq(E) : Picked(t, keep) = t}
<1>1. <<>> \in T
  BY PickedEmpty, EmptySeq
<1>2. ASSUME NEW t \in Seq(E), NEW e \in E, t \in T PROVE Append(t, e) \in T
  <2>1. Picked(Append(t, e), keep) = IF e \in keep THEN Append(Picked(t, keep), e) ELSE Picked(t, keep)
    BY PickedAppend
  <2> QED
    BY <1>2, <2>1, AppendProperties
<1> HIDE DEF T
<1>3. s \in T
  BY <1>1, <1>2, SequenceInduction
<1> QED
  BY <1>3 DEF T

LEMMA PickedTwice ==
    ASSUME NEW E, NEW s \in Seq(E), NEW keep, NEW wider, E \cap keep \subseteq wider
    PROVE  Picked(Picked(s, wider), keep) = Picked(s, keep)
<1> DEFINE T == {t \in Seq(E) : Picked(Picked(t, wider), keep) = Picked(t, keep)}
<1>1. <<>> \in T
  BY PickedEmpty, EmptySeq
<1>2. ASSUME NEW t \in Seq(E), NEW e \in E, t \in T PROVE Append(t, e) \in T
  <2>1. Picked(Append(t, e), keep) = IF e \in keep THEN Append(Picked(t, keep), e) ELSE Picked(t, keep)
    BY PickedAppend
  <2>2. Picked(Append(t, e), wider)
          = IF e \in wider THEN Append(Picked(t, wider), e) ELSE Picked(t, wider)
    BY PickedAppend
  <2>3. Picked(t, wider) \in Seq(E)
    BY PickedType
  <2>4. Picked(Append(Picked(t, wider), e), keep)
          = IF e \in keep THEN Append(Picked(Picked(t, wider), keep), e) ELSE Picked(Picked(t, wider), keep)
    BY <2>3, PickedAppend
  <2>5. Picked(Picked(Append(t, e), wider), keep) = Picked(Append(t, e), keep)
    BY <1>2, <2>1, <2>2, <2>4
  <2> QED
    BY <2>5, AppendProperties
<1> HIDE DEF T
<1>3. s \in T
  BY <1>1, <1>2, SequenceInduction
<1> QED
  BY <1>3 DEF T

(* The first elements of a sequence and the rest. *)
LEMMA Parted ==
    ASSUME NEW E, NEW s \in Seq(E), NEW n \in 0 .. Len(s)
    PROVE  /\ SubSeq(s, 1, n) \in Seq(E) /\ SubSeq(s, n + 1, Len(s)) \in Seq(E)
           /\ s = SubSeq(s, 1, n) \o SubSeq(s, n + 1, Len(s))
<1>1. \A i \in 1 .. Len(s) : s[i] \in E
  BY LenProperties
<1>2. SubSeq(s, 1, n) \in Seq(E) /\ SubSeq(s, n + 1, Len(s)) \in Seq(E)
  BY <1>1, LenProperties, SubSeqProperties
<1>3. SubSeq(s, 1, n) \o SubSeq(s, n + 1, Len(s)) = SubSeq(s, 1, Len(s))
  <2>1. /\ 1 \in 1 .. Len(s) + 1 /\ n \in 1 - 1 .. Len(s) /\ Len(s) \in n .. Len(s)
    BY LenProperties
  <2> QED
    BY <2>1, ConcatAdjacentSubSeq
<1> QED
  BY <1>2, <1>3, SubSeqFull
=============================================================================
