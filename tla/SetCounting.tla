---------------------------- MODULE SetCounting ----------------------------
(* Facts about cardinalities that the proofs of several modules cite. *)
EXTENDS Integers, FiniteSets, FiniteSetTheorems, TLAPS

\* A set within S and one more element has at most one element more than S.
LEMMA GrowByOne ==
  ASSUME NEW S, IsFiniteSet(S), NEW x, NEW T, T \subseteq S \cup {x}
  PROVE  /\ IsFiniteSet(T) /\ Cardinality(T) \in Nat /\ Cardinality(S) \in Nat
         /\ Cardinality(T) <= Cardinality(S) + 1
<1>1. /\ IsFiniteSet(S \cup {x})
      /\ \/ Cardinality(S \cup {x}) = Cardinality(S)
         \/ Cardinality(S \cup {x}) = Cardinality(S) + 1
  BY FS_AddElement
<1>2. IsFiniteSet(T) /\ Cardinality(T) <= Cardinality(S \cup {x})
  BY <1>1, FS_Subset
<1>3. /\ Cardinality(T) \in Nat /\ Cardinality(S) \in Nat
      /\ Cardinality(S \cup {x}) \in Nat
  BY <1>1, <1>2, FS_CardinalityType
<1> QED
  BY <1>1, <1>2, <1>3

\* A set within S that lacks an element of S has fewer elements than S.
LEMMA ShrinkByOne ==
  ASSUME NEW S, IsFiniteSet(S), NEW x \in S, NEW T, T \subseteq S \ {x}
  PROVE  /\ IsFiniteSet(T) /\ Cardinality(T) \in Nat /\ Cardinality(S) \in Nat
         /\ Cardinality(T) <= Cardinality(S) - 1
<1>1. IsFiniteSet(S \ {x}) /\ Cardinality(S \ {x}) = Cardinality(S) - 1
  BY FS_RemoveElement
<1>2. IsFiniteSet(T) /\ Cardinality(T) <= Cardinality(S \ {x})
  BY <1>1, FS_Subset
<1>3. Cardinality(T) \in Nat /\ Cardinality(S) \in Nat
  BY <1>2, FS_CardinalityType
<1> QED
  BY <1>1, <1>2, <1>3

\* A set whose elements have different images in a finite set S is not larger
\* than S.
LEMMA CountByImage ==
  ASSUME NEW S, IsFiniteSet(S), NEW T, NEW f \in [T -> S],
         \A x, y \in T : x # y => f[x] # f[y]
  PROVE  IsFiniteSet(T) /\ Cardinality(T) <= Cardinality(S)
<1>1. f \in Injection(T, S)
  BY DEF Injection, IsInjective
<1> QED
  BY <1>1, FS_Injection
=============================================================================
