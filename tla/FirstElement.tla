---------------------------- MODULE FirstElement ----------------------------
(***************************************************************************)
(* A set of instants that is not empty has a first one, which the clocks   *)
(* of TrustOperator and MacroSchedule choose.  The sets of the elements up *)
(* to each element are well-founded by inclusion.                          *)
(***************************************************************************)
EXTENDS Naturals, FiniteSetTheorems, TLAPS

\* The instants of a bounded wall clock have a minimum: the next transition of
\* a history and the next occurrence of a poll are well defined.
LEMMA FirstInstant ==
  ASSUME NEW n \in Nat, NEW S \in SUBSET (0..n), S # {}
  PROVE  \E x \in S : \A y \in S : x <= y
  <1> DEFINE Down(x) == {y \in S : y <= x}
             T == {Down(x) : x \in S}
             R == StrictSubsetOrdering(S)
  <1>1. IsFiniteSet(S)
    <2>1. IsFiniteSet(0..n)
      BY FS_Interval
    <2> QED BY <2>1, FS_Subset
  <1>2. IsWellFoundedOn(R, SUBSET S)
    BY <1>1, FS_StrictSubsetOrderingWellFounded, FS_FiniteSubsetsOfFinite
  <1>3. T \subseteq SUBSET S /\ T # {}
    OBVIOUS
  <1>4. PICK d \in T : \A e \in T : ~(<<e, d>> \in R)
    <2> HIDE DEF R, T
    <2> QED BY <1>2, <1>3, WFMin
  <1>5. PICK x \in S : d = Down(x)
    OBVIOUS
  <1>6. ASSUME NEW y \in S, y < x PROVE FALSE
    <2> HIDE DEF R
    <2>1. Down(y) \in T
      OBVIOUS
    <2> x \in 0..n /\ y \in 0..n
      OBVIOUS
    <2>2. Down(y) \subseteq Down(x)
      <3>1. ASSUME NEW z \in S, z <= y PROVE z <= x
        <4> z \in 0..n
          OBVIOUS
        <4> QED BY <1>6, <3>1
      <3> QED BY <3>1
    <2>3. x \in Down(x) /\ x \notin Down(y)
      BY <1>6
    <2>4. Down(y) # Down(x)
      BY <2>3
    <2> HIDE DEF Down
    <2>5. <<Down(y), Down(x)>> \in R
      <3>1. Down(y) \in SUBSET S /\ Down(x) \in SUBSET S
        BY DEF Down
      <3> QED BY <2>2, <2>4, <3>1 DEF R, StrictSubsetOrdering
    <2> QED BY <1>4, <1>5, <2>1, <2>5
  <1> QED
    <2>1. ASSUME NEW y \in S PROVE x <= y
      <3> x \in 0..n /\ y \in 0..n
        OBVIOUS
      <3> QED BY <1>6
    <2> QED BY <2>1
=============================================================================
