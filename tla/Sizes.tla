------------------------------- MODULE Sizes -------------------------------
(***************************************************************************)
(* What the proofs that count threads need to know of the size of finite   *)
(* sets.  They take FiniteSizes as an assumption, which keeps the library  *)
(* FiniteSetTheorems out of them; SizeProofs proves it from that library   *)
(* and with it their theorems.                                             *)
(***************************************************************************)
EXTENDS Integers, Sequences, FiniteSets

\* A size is a natural number.
SizeType == \A S : IsFiniteSet(S) => Cardinality(S) \in Nat

\* The empty set is the one set of size zero.
SizeNone ==
  /\ IsFiniteSet({}) /\ Cardinality({}) = 0
  /\ \A S : IsFiniteSet(S) => (Cardinality(S) = 0 <=> S = {})

\* The sets of size one have a single element.
SizeOne ==
  /\ \A x : IsFiniteSet({x}) /\ Cardinality({x}) = 1
  /\ \A S : IsFiniteSet(S) => (Cardinality(S) = 1 <=> \E x : S = {x})

\* An element more, an element less.
SizeMore ==
  \A S, x : IsFiniteSet(S) =>
    /\ IsFiniteSet(S \cup {x})
    /\ x \in S => Cardinality(S \cup {x}) = Cardinality(S)
    /\ x \notin S => Cardinality(S \cup {x}) = Cardinality(S) + 1
SizeLess ==
  \A S, x : IsFiniteSet(S) =>
    /\ IsFiniteSet(S \ {x})
    /\ x \in S => Cardinality(S \ {x}) = Cardinality(S) - 1
    /\ x \notin S => Cardinality(S \ {x}) = Cardinality(S)

\* A part is no larger than the whole, and as large only when it is the whole.
SizePart ==
  \A S, T : IsFiniteSet(S) /\ T \subseteq S =>
    /\ IsFiniteSet(T) /\ Cardinality(T) <= Cardinality(S)
    /\ Cardinality(T) = Cardinality(S) => T = S

\* Two sets together, and one without the other: common elements count once.
SizeBoth ==
  \A S, T : IsFiniteSet(S) /\ IsFiniteSet(T) =>
    /\ IsFiniteSet(S \cup T)
    /\ Cardinality(S \cup T) =
         Cardinality(S) + Cardinality(T) - Cardinality(S \cap T)
SizeWithout ==
  \A S, T : IsFiniteSet(S) =>
    /\ IsFiniteSet(S \ T)
    /\ Cardinality(S \ T) = Cardinality(S) - Cardinality(S \cap T)

\* The first n elements of a sequence without repetitions are n elements.
FirstOf(s, n) == {s[i] : i \in 1..n}
SizeFirst ==
  \A A : \A s \in Seq(A) : \A n \in 1..Len(s) :
    (\A i, k \in DOMAIN s : s[i] = s[k] => i = k) =>
      IsFiniteSet(FirstOf(s, n)) /\ Cardinality(FirstOf(s, n)) = n

FiniteSizes ==
  /\ SizeType /\ SizeNone /\ SizeOne /\ SizeMore /\ SizeLess /\ SizePart
  /\ SizeBoth /\ SizeWithout /\ SizeFirst
=============================================================================
