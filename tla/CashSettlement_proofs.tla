----------------------- MODULE CashSettlement_proofs -----------------------
(***************************************************************************)
(* What a settlement may rely on, proved for any notes, legs, extract and  *)
(* imports.  First the sums over a set, which the module builds with       *)
(* MapThenSumSet; then what the choice of a subset returns; then imports.  *)
(***************************************************************************)
EXTENDS CashSettlement, FiniteSetTheorems, WellFoundedInduction, TLAPS

(* Induction over the subsets of a finite set.                              *)
LEMMA SubsetInduction ==
  ASSUME NEW S, IsFiniteSet(S), NEW F,
         \A T \in SUBSET S : (\A U \in SUBSET T : U # T => U \in F) => T \in F
  PROVE  \A T \in SUBSET S : T \in F
<1> DEFINE C == {T \in SUBSET S : T \notin F}
<1>0. C \subseteq FiniteSubsetsOf(S)
  BY FS_FiniteSubsetsOfFinite
<1>1. ASSUME C # {} PROVE FALSE
  <2>1. PICK T \in C : \A U \in C : <<U, T>> \notin StrictSubsetOrdering(S)
    <3> HIDE DEF C
    <3> QED BY <1>0, <1>1, WFMin, FS_StrictSubsetOrderingWellFounded
  <2>2. \A U \in SUBSET T : U # T => U \in F
    BY <2>1 DEF StrictSubsetOrdering
  <2> QED BY <2>1, <2>2
<1> QED BY <1>1
-----------------------------------------------------------------------------
(***************************************************************************)
(* Sums.                                                                   *)
(***************************************************************************)

Member(s) == CHOOSE x \in s : TRUE

(* The function of all subsets of S that a sum of weights c is read off.    *)
Adds(S, c, f) ==
  f = [s \in SUBSET S |-> IF s = {} THEN 0 ELSE c[Member(s)] + f[s \ {Member(s)}]]

(* There is only one such function.                                         *)
LEMMA AddsOnce ==
  ASSUME NEW S, IsFiniteSet(S), NEW c, NEW d, NEW f, Adds(S, c, f),
         NEW T \in SUBSET S, \A x \in T : c[x] = d[x], NEW g, Adds(T, d, g)
  PROVE  f[T] = g[T]
<1> DEFINE F == {s \in SUBSET T : f[s] = g[s]}
<1>1. ASSUME NEW s \in SUBSET T, \A u \in SUBSET s : u # s => u \in F PROVE s \in F
  <2>1. /\ f[s] = IF s = {} THEN 0 ELSE c[Member(s)] + f[s \ {Member(s)}]
        /\ g[s] = IF s = {} THEN 0 ELSE d[Member(s)] + g[s \ {Member(s)}]
    BY DEF Adds
  <2>2. CASE s = {}
    BY <2>1, <2>2
  <2>3. CASE s # {}
    <3>1. Member(s) \in s
      BY <2>3 DEF Member
    <3>2. s \ {Member(s)} \in F /\ c[Member(s)] = d[Member(s)]
      BY <1>1, <3>1
    <3> QED BY <2>1, <2>3, <3>2
  <2> QED BY <2>2, <2>3
<1>2. T \in F
  <2> HIDE DEF F
  <2>1. IsFiniteSet(T)
    BY FS_Subset
  <2> QED BY <1>1, <2>1, SubsetInduction
<1> QED BY <1>2

SumOf(S, c) == (CHOOSE f : Adds(S, c, f))[S]

(* And there is one.                                                        *)
LEMMA AddsExists == ASSUME NEW S, IsFiniteSet(S), NEW c PROVE \E f : Adds(S, c, f)
<1> DEFINE F == {T \in SUBSET S : \E f : Adds(T, c, f)}
<1>1. ASSUME NEW T \in SUBSET S, \A U \in SUBSET T : U # T => U \in F PROVE T \in F
  <2> DEFINE g == [s \in SUBSET T |-> IF s = {} THEN 0
                                      ELSE c[Member(s)] + SumOf(s \ {Member(s)}, c)]
  <2>1. ASSUME NEW s \in SUBSET T, s # {} PROVE g[s \ {Member(s)}] = SumOf(s \ {Member(s)}, c)
    <3> DEFINE u == s \ {Member(s)}
               v == u \ {Member(u)}
    <3>1. Member(s) \in s /\ IsFiniteSet(u)
      BY <2>1, FS_Subset DEF Member
    <3>2. u \in SUBSET T /\ u # T /\ u \in F
      BY <1>1, <3>1
    <3>3. PICK f : Adds(u, c, f) /\ SumOf(u, c) = f[u]
      BY <3>2 DEF SumOf
    <3>4. CASE u = {}
      BY <3>2, <3>3, <3>4 DEF Adds
    <3>5. CASE u # {}
      <4>1. Member(u) \in u
        BY <3>5 DEF Member
      <4>2. v \in SUBSET T /\ v # T /\ v \in SUBSET u /\ v \in F
        BY <1>1, <3>2, <4>1
      <4>3. PICK h : Adds(v, c, h) /\ SumOf(v, c) = h[v]
        BY <4>2 DEF SumOf
      <4>4. f[v] = h[v]
        <5>1. \A x \in v : c[x] = c[x]
          OBVIOUS
        <5> HIDE DEF u, v
        <5> QED BY <3>1, <3>3, <4>2, <4>3, <5>1, AddsOnce
      <4>5. f[u] = c[Member(u)] + f[v]
        BY <3>3, <3>5 DEF Adds
      <4>6. g[u] = c[Member(u)] + SumOf(v, c)
        BY <3>2, <3>5
      <4> QED BY <3>3, <4>3, <4>4, <4>5, <4>6
    <3> QED BY <3>4, <3>5
  <2>2. Adds(T, c, g)
    <3>1. g = [s \in SUBSET T |-> IF s = {} THEN 0 ELSE c[Member(s)] + g[s \ {Member(s)}]]
      <4> SUFFICES ASSUME NEW s \in SUBSET T, s # {}
                   PROVE  c[Member(s)] + SumOf(s \ {Member(s)}, c) = c[Member(s)] + g[s \ {Member(s)}]
        OBVIOUS
      <4> QED BY <2>1
    <3> QED BY <3>1 DEF Adds
  <2> QED BY <2>2
<1>2. S \in F
  <2> HIDE DEF F
  <2> QED BY <1>1, SubsetInduction
<1> QED BY <1>2

(* Whatever function of that kind a sum is read off, it is the same sum.    *)
LEMMA SumIs ==
  ASSUME NEW S, IsFiniteSet(S), NEW c, NEW f, Adds(S, c, f)
  PROVE  SumOf(S, c) = f[S]
BY AddsOnce DEF SumOf

LEMMA SumEmpty == ASSUME NEW c PROVE SumOf({}, c) = 0
<1>1. PICK f : Adds({}, c, f)
  BY AddsExists, FS_EmptySet
<1>2. f[{}] = 0
  BY <1>1 DEF Adds
<1>3. SumOf({}, c) = f[{}]
  BY <1>1, SumIs, FS_EmptySet
<1> QED BY <1>2, <1>3

LEMMA SumOne == ASSUME NEW x, NEW c, c[x] \in Int PROVE SumOf({x}, c) = c[x]
<1>1. PICK f : Adds({x}, c, f)
  BY AddsExists, FS_Singleton
<1>2. f[{x}] = c[x] + f[{}] /\ f[{}] = 0
  <2>1. Member({x}) = x /\ {x} \ {x} = {} /\ {x} # {}
    BY DEF Member
  <2> QED BY <1>1, <2>1 DEF Adds
<1>3. SumOf({x}, c) = f[{x}]
  BY <1>1, SumIs, FS_Singleton
<1> QED BY <1>2, <1>3

LEMMA SumInt ==
  ASSUME NEW S, IsFiniteSet(S), NEW c, \A x \in S : c[x] \in Int PROVE SumOf(S, c) \in Int
<1>1. PICK f : Adds(S, c, f)
  BY AddsExists
<1> DEFINE F == {T \in SUBSET S : f[T] \in Int}
<1>2. ASSUME NEW T \in SUBSET S, \A U \in SUBSET T : U # T => U \in F PROVE T \in F
  <2>1. f[T] = IF T = {} THEN 0 ELSE c[Member(T)] + f[T \ {Member(T)}]
    BY <1>1 DEF Adds
  <2>2. CASE T = {}
    BY <2>1, <2>2
  <2>3. CASE T # {}
    <3>1. Member(T) \in T
      BY <2>3 DEF Member
    <3>2. T \ {Member(T)} \in F /\ c[Member(T)] \in Int
      BY <1>2, <3>1
    <3> QED BY <2>1, <2>3, <3>2
  <2> QED BY <2>2, <2>3
<1>3. S \in F
  <2> HIDE DEF F
  <2> QED BY <1>2, SubsetInduction
<1> QED BY <1>1, <1>3, SumIs

CentsOf(S) == [o \in S |-> o.cents]
LegCents == [l \in LegIds |-> Legs[l].cents]

(* The total of offers and rows, and the sum of legs, are such sums.        *)
LEMMA TotalIsSum == ASSUME NEW S, IsFiniteSet(S) PROVE Total(S) = SumOf(S, CentsOf(S))
<1>1. PICK g : Adds(S, CentsOf(S), g)
  BY AddsExists
<1>2. g = [s \in SUBSET S |-> IF s = {} THEN 0 ELSE Member(s).cents + g[s \ {Member(s)}]]
  <2>1. \A s \in SUBSET S : s # {} => Member(s) \in S
    BY DEF Member
  <2> QED BY <1>1, <2>1 DEF Adds, CentsOf
<1>3. PICK f : /\ f = [s \in SUBSET S |-> IF s = {} THEN 0 ELSE Member(s).cents + f[s \ {Member(s)}]]
               /\ Total(S) = f[S]
  BY <1>2 DEF Total, MapThenSumSet, MapThenFoldSet, Member
<1>4. Adds(S, CentsOf(S), f)
  <2>1. \A s \in SUBSET S : s # {} => Member(s) \in S
    BY DEF Member
  <2> QED BY <1>3, <2>1 DEF Adds, CentsOf
<1> QED BY <1>3, <1>4, SumIs

LEMMA LegsAddUp == ASSUME NEW S \in SUBSET LegIds PROVE Sum(S) = SumOf(S, LegCents)
<1>0. IsFiniteSet(S) /\ \A s \in SUBSET S : s # {} => Member(s) \in LegIds
  BY LegAssumption, FS_Subset DEF Member
<1>1. PICK g : Adds(S, LegCents, g)
  BY <1>0, AddsExists
<1>2. g = [s \in SUBSET S |-> IF s = {} THEN 0 ELSE Legs[Member(s)].cents + g[s \ {Member(s)}]]
  BY <1>0, <1>1 DEF Adds, LegCents
<1>3. PICK f : /\ f = [s \in SUBSET S |-> IF s = {} THEN 0
                                          ELSE Legs[Member(s)].cents + f[s \ {Member(s)}]]
               /\ Sum(S) = f[S]
  BY <1>2 DEF Sum, MapThenSumSet, MapThenFoldSet, Member
<1>4. Adds(S, LegCents, f)
  BY <1>0, <1>3 DEF Adds, LegCents
<1> QED BY <1>0, <1>3, <1>4, SumIs

LEMMA TotalInt ==
  ASSUME NEW S, IsFiniteSet(S), \A o \in S : o.cents \in Int PROVE Total(S) \in Int
<1>1. \A o \in S : CentsOf(S)[o] \in Int
  BY DEF CentsOf
<1> QED BY <1>1, TotalIsSum, SumInt

LEMMA LegSumInt == ASSUME NEW S \in SUBSET LegIds PROVE Sum(S) \in Int
<1>1. IsFiniteSet(S) /\ \A l \in S : LegCents[l] \in Int
  BY LegAssumption, FS_Subset DEF LegCents
<1> QED BY <1>1, LegsAddUp, SumInt

LEMMA TotalOne == ASSUME NEW o, o.cents \in Int PROVE Total({o}) = o.cents
<1>1. CentsOf({o})[o] = o.cents
  BY DEF CentsOf
<1> QED BY <1>1, TotalIsSum, SumOne, FS_Singleton

LEMMA NothingAddsUp == Total({}) = 0 /\ Sum({}) = 0
BY TotalIsSum, LegsAddUp, SumEmpty, FS_EmptySet
-----------------------------------------------------------------------------
(***************************************************************************)
(* The choice.                                                             *)
(***************************************************************************)

(* Offers to choose from: finitely many, one per event.                     *)
OffersOk(S) ==
  /\ IsFiniteSet(S)
  /\ \A o \in S : o.event \in Nat /\ o.cents \in Int
  /\ \A o, p \in S : o.event = p.event => o = p

LEMMA FewerOffers == ASSUME NEW S, OffersOk(S), NEW T \in SUBSET S PROVE OffersOk(T)
BY FS_Subset DEF OffersOk

LEMMA LastOffer ==
  ASSUME NEW S, OffersOk(S), S # {}
  PROVE  \E o \in S : \A p \in S \ {o} : p.event < o.event
<1> DEFINE F == {T \in SUBSET S : T # {} => \E o \in T : \A p \in T \ {o} : p.event < o.event}
<1>0. \A o \in S : o.event \in Int
  BY DEF OffersOk
<1>1. ASSUME NEW T \in SUBSET S, \A U \in SUBSET T : U # T => U \in F PROVE T \in F
  <2> SUFFICES ASSUME T # {} PROVE \E o \in T : \A p \in T \ {o} : p.event < o.event
    OBVIOUS
  <2>1. PICK z \in T : TRUE
    OBVIOUS
  <2>2. CASE T = {z}
    BY <2>2
  <2>3. CASE T # {z}
    <3>1. T \ {z} \in F /\ T \ {z} # {}
      BY <1>1, <2>1, <2>3
    <3>2. PICK o \in T \ {z} : \A p \in (T \ {z}) \ {o} : p.event < o.event
      BY <3>1
    <3>3. z.event # o.event /\ z.event \in Int /\ o.event \in Int
      BY <1>0, <2>1, <3>2 DEF OffersOk
    <3>4. CASE z.event < o.event
      BY <3>2, <3>4
    <3>5. CASE o.event < z.event
      <4>1. ASSUME NEW p \in T \ {z} PROVE p.event < z.event
        <5>1. p = o \/ p.event < o.event
          BY <3>2
        <5>2. p.event \in Int
          BY <1>0
        <5> QED BY <3>3, <3>5, <5>1, <5>2
      <4> QED BY <2>1, <4>1
    <3> QED BY <3>3, <3>4, <3>5
  <2> QED BY <2>2, <2>3
<1>2. S \in F
  <2> HIDE DEF F
  <2>1. IsFiniteSet(S)
    BY DEF OffersOk
  <2> QED BY <1>1, <2>1, SubsetInduction
<1> QED BY <1>2

(* The order in which the loop counts is a strict order of the subsets.     *)
LEMMA EarlierDecides ==
  ASSUME NEW S, OffersOk(S), NEW s \in SUBSET S, NEW t \in SUBSET S, s # t
  PROVE  Earlier(s, t) \/ Earlier(t, s)
<1> DEFINE D == (s \ t) \cup (t \ s)
<1>1. D \in SUBSET S /\ D # {} /\ OffersOk(D)
  <2>1. D \in SUBSET S /\ D # {}
    OBVIOUS
  <2> QED BY <2>1, FewerOffers
<1>2. PICK o \in D : \A p \in D \ {o} : p.event < o.event
  BY <1>1, LastOffer
<1>3. CASE o \in t \ s
  BY <1>2, <1>3 DEF Earlier
<1>4. CASE o \in s \ t
  BY <1>2, <1>4 DEF Earlier
<1> QED BY <1>3, <1>4

LEMMA EarlierContinues ==
  ASSUME NEW S, OffersOk(S), NEW s \in SUBSET S, NEW t \in SUBSET S, NEW u \in SUBSET S,
         Earlier(s, t), Earlier(t, u)
  PROVE  Earlier(s, u)
<1>0. \A o \in S : o.event \in Int
  BY DEF OffersOk
<1>1. PICK o \in t \ s : \A p \in s \ t : p.event < o.event
  BY DEF Earlier
<1>2. PICK q \in u \ t : \A p \in t \ u : p.event < q.event
  BY DEF Earlier
<1>3. o \in S /\ q \in S /\ o.event \in Int /\ q.event \in Int /\ o.event # q.event
  BY <1>0, <1>1, <1>2 DEF OffersOk
<1>4. CASE o.event < q.event
  <2>1. q \notin s
    BY <1>1, <1>2, <1>3, <1>4
  <2>2. ASSUME NEW p \in s \ u PROVE p.event < q.event
    <3>1. p.event \in Int
      BY <1>0
    <3>2. CASE p \in t
      BY <1>2, <3>2
    <3>3. CASE p \notin t
      <4>1. p.event < o.event
        BY <1>1, <3>3
      <4> QED BY <1>3, <1>4, <3>1, <4>1
    <3> QED BY <3>2, <3>3
  <2> QED BY <1>2, <2>1, <2>2 DEF Earlier
<1>5. CASE q.event < o.event
  <2>1. o \in u
    BY <1>1, <1>2, <1>3, <1>5
  <2>2. ASSUME NEW p \in s \ u PROVE p.event < o.event
    <3>1. p.event \in Int
      BY <1>0
    <3>2. CASE p \in t
      <4>1. p.event < q.event
        BY <1>2, <3>2
      <4> QED BY <1>3, <1>5, <3>1, <4>1
    <3>3. CASE p \notin t
      BY <1>1, <3>3
    <3> QED BY <3>2, <3>3
  <2> QED BY <1>1, <2>1, <2>2 DEF Earlier
<1> QED BY <1>3, <1>4, <1>5

(* Of any subsets one comes first,                                          *)
LEMMA FirstSubset ==
  ASSUME NEW S, OffersOk(S), NEW C \in SUBSET SUBSET S, C # {}
  PROVE  \E s \in C : \A t \in C \ {s} : Earlier(s, t)
<1> DEFINE F == {B \in SUBSET C : B # {} => \E s \in B : \A t \in B \ {s} : Earlier(s, t)}
<1>1. ASSUME NEW B \in SUBSET C, \A U \in SUBSET B : U # B => U \in F PROVE B \in F
  <2> SUFFICES ASSUME B # {} PROVE \E s \in B : \A t \in B \ {s} : Earlier(s, t)
    OBVIOUS
  <2>1. PICK z \in B : TRUE
    OBVIOUS
  <2>2. CASE B = {z}
    BY <2>2
  <2>3. CASE B # {z}
    <3>1. B \ {z} \in F /\ B \ {z} # {}
      <4>1. B \ {z} \in SUBSET B /\ B \ {z} # B /\ B \ {z} # {}
        BY <2>1, <2>3
      <4>2. B \ {z} \in F
        <5> HIDE DEF F
        <5> QED BY <1>1, <4>1
      <4> QED BY <4>1, <4>2
    <3>2. PICK s \in B \ {z} : \A t \in (B \ {z}) \ {s} : Earlier(s, t)
      BY <3>1
    <3>3. s \in SUBSET S /\ z \in SUBSET S /\ s # z
      BY <2>1, <3>2
    <3>4. CASE Earlier(s, z)
      BY <3>2, <3>4
    <3>5. CASE Earlier(z, s)
      <4>1. ASSUME NEW t \in B \ {z} PROVE Earlier(z, t)
        <5>1. CASE t = s
          BY <3>5, <5>1
        <5>2. CASE t # s
          <6>1. Earlier(s, t) /\ t \in SUBSET S
            BY <3>2, <5>2
          <6> QED BY <3>3, <3>5, <6>1, EarlierContinues
        <5> QED BY <5>1, <5>2
      <4> QED BY <2>1, <4>1
    <3> QED BY <3>3, <3>4, <3>5, EarlierDecides
  <2> QED BY <2>2, <2>3
<1>2. IsFiniteSet(C)
  BY FS_SUBSET, FS_Subset DEF OffersOk
<1>3. C \in F
  <2> HIDE DEF F
  <2> QED BY <1>1, <1>2, SubsetInduction
<1> QED BY <1>3

(* and of those that fit some are the closest.                              *)
LEMMA SomeAreClosest ==
  ASSUME NEW S, OffersOk(S), NEW target \in Int, NEW tol, Fitting(S, target, tol) # {}
  PROVE  Closest(S, target, tol) # {}
<1> DEFINE C == Fitting(S, target, tol)
           F == {B \in SUBSET C : B # {} => \E s \in B : \A t \in B : Delta(s, target) <= Delta(t, target)}
<1>0. C \in SUBSET SUBSET S
  BY DEF Fitting
<1>1. ASSUME NEW s \in C PROVE Delta(s, target) \in Int
  <2>1. OffersOk(s)
    BY <1>0, <1>1, FewerOffers
  <2>2. Total(s) \in Int
    BY <2>1, TotalInt DEF OffersOk
  <2> QED BY <2>2 DEF Delta, Abs
<1>2. ASSUME NEW B \in SUBSET C, \A U \in SUBSET B : U # B => U \in F PROVE B \in F
  <2> SUFFICES ASSUME B # {} PROVE \E s \in B : \A t \in B : Delta(s, target) <= Delta(t, target)
    OBVIOUS
  <2>1. PICK z \in B : TRUE
    OBVIOUS
  <2>2. CASE B = {z}
    BY <1>1, <2>2
  <2>3. CASE B # {z}
    <3>1. B \ {z} \in F /\ B \ {z} # {}
      <4>1. B \ {z} \in SUBSET B /\ B \ {z} # B /\ B \ {z} # {}
        BY <2>1, <2>3
      <4>2. B \ {z} \in F
        <5> HIDE DEF F
        <5> QED BY <1>2, <4>1
      <4> QED BY <4>1, <4>2
    <3>2. PICK s \in B \ {z} : \A t \in B \ {z} : Delta(s, target) <= Delta(t, target)
      BY <3>1
    <3>3. Delta(s, target) \in Int /\ Delta(z, target) \in Int
      BY <1>1, <2>1, <3>2
    <3>4. CASE Delta(s, target) <= Delta(z, target)
      BY <3>2, <3>4
    <3>5. CASE Delta(z, target) < Delta(s, target)
      <4>1. ASSUME NEW t \in B PROVE Delta(z, target) <= Delta(t, target)
        <5>1. CASE t = z
          BY <3>3, <5>1
        <5>2. CASE t # z
          <6>1. Delta(s, target) <= Delta(t, target) /\ Delta(t, target) \in Int
            BY <1>1, <3>2, <5>2
          <6> QED BY <3>3, <3>5, <6>1
        <5> QED BY <5>1, <5>2
      <4> QED BY <2>1, <4>1
    <3> QED BY <3>3, <3>4, <3>5
  <2> QED BY <2>2, <2>3
<1>3. IsFiniteSet(C)
  BY <1>0, FS_SUBSET, FS_Subset DEF OffersOk
<1>4. C \in F
  <2> HIDE DEF C, F
  <2> QED BY <1>2, <1>3, SubsetInduction
<1> QED BY <1>4 DEF Closest

LEMMA FindSubsetFinds ==
  ASSUME NEW S, OffersOk(S), NEW target \in Int, NEW tol
  PROVE  FindSubset(S, target, tol) \in SUBSET S
<1> DEFINE C == Closest(S, target, tol)
<1>1. CASE Fitting(S, target, tol) = {}
  BY <1>1 DEF FindSubset
<1>2. CASE Fitting(S, target, tol) # {}
  <2>1. C # {} /\ C \in SUBSET SUBSET S
    BY <1>2, SomeAreClosest DEF Closest, Fitting
  <2>2. \E s \in C : \A t \in C \ {s} : Earlier(s, t)
    <3> HIDE DEF C
    <3> QED BY <2>1, FirstSubset
  <2>3. FindSubset(S, target, tol) \in C
    BY <1>2, <2>2, Zenon DEF FindSubset
  <2> QED BY <2>1, <2>3
<1> QED BY <1>1, <1>2

Turned(S, target) == {Aligned(o, target) : o \in S}

(* settle takes some of the candidates, with or without their signs turned. *)
LEMMA ChoiceChooses ==
  ASSUME NEW S, OffersOk(S), NEW target \in Int, NEW tol
  PROVE  \E T \in SUBSET S : Choice(S, target, tol) \in {T, Turned(T, target)}
<1>1. Choice(S, target, tol) \in {{}, S, Turned(S, target), FindSubset(S, target, tol)}
  BY DEF Choice, Turned
<1> QED BY <1>1, FindSubsetFinds
-----------------------------------------------------------------------------
(***************************************************************************)
(* Candidates and the preview.                                             *)
(***************************************************************************)

LegsOf(e) == {l \in LegIds : Legs[l].event = e}
Offered(e, c, ls) == [event |-> e, cents |-> c, legs |-> ls]

LEMMA OfferFields ==
  \A e, c, ls : /\ Offered(e, c, ls).event = e /\ Offered(e, c, ls).cents = c
                /\ Offered(e, c, ls).legs = ls
                /\ [Offered(e, c, ls) EXCEPT !.cents = -@] = Offered(e, -c, ls)
                /\ \A l : [Offered(e, c, ls) EXCEPT !.legs = @ \ {l}] = Offered(e, c, ls \ {l})
BY DEF Offered

LEMMA CandidatesAreOffers ==
  ASSUME NEW line
  PROVE  /\ OffersOk(Candidates(line))
         /\ \A o \in Candidates(line) :
              /\ o.event \in Events /\ PendingLegs(o.event) # {}
              /\ o = Offered(o.event, Sum(PendingLegs(o.event)), PendingLegs(o.event))
<1> DEFINE offer == [e \in Events |-> Offered(e, Sum(PendingLegs(e)), PendingLegs(e))]
           all == {offer[e] : e \in Events}
<1>1. Candidates(line) \in SUBSET all
  BY DEF Candidates, Offered
<1>2. IsFiniteSet(Candidates(line))
  <2>1. offer \in Surjection(Events, all)
    BY DEF Surjection
  <2>2. IsFiniteSet(all)
    <3> HIDE DEF offer, all
    <3> QED BY <2>1, EventAssumption, FS_Surjection
  <2> HIDE DEF all
  <2> QED BY <1>1, <2>2, FS_Subset
<1>3. ASSUME NEW o \in Candidates(line)
      PROVE  /\ o.event \in Events /\ PendingLegs(o.event) # {} /\ o.cents \in Int
             /\ o = Offered(o.event, Sum(PendingLegs(o.event)), PendingLegs(o.event))
  <2>1. PICK e \in Events : o = Offered(e, Sum(PendingLegs(e)), PendingLegs(e))
    BY <1>1
  <2>2. o.event = e /\ o.cents = Sum(PendingLegs(e)) /\ o.legs = PendingLegs(e)
    BY <2>1, OfferFields
  <2>3. Sum(PendingLegs(e)) \in Int
    BY LegSumInt DEF PendingLegs
  <2>4. o.legs # {}
    BY DEF Candidates
  <2> QED BY <2>1, <2>2, <2>3, <2>4
<1>4. \A o, p \in Candidates(line) : o.event = p.event => o = p
  BY <1>3
<1> QED BY <1>2, <1>3, <1>4, EventAssumption DEF OffersOk

(* Turning the signs leaves the events and the legs alone.                  *)
LEMMA TurnedOffer ==
  ASSUME NEW e, NEW c \in Int, NEW ls, NEW target
  PROVE  Aligned(Offered(e, c, ls), target) \in {Offered(e, c, ls), Offered(e, -c, ls)}
BY OfferFields DEF Aligned

(* The monthly preview never promises what settle does not do: whatever     *)
(* events consumePoolEntriesForLiqLine takes from the pool for a line,      *)
(* settle takes for it.                                                     *)
THEOREM PreviewIsKept == Spec => []PreviewForetells
<1>1. PreviewForetells
  <2> SUFFICES ASSUME NEW a \in Agents, NEW S, NEW target, NEW tol, NEW seen,
                      S = Candidates(Line(a)),
                      target = Line(a).cents, tol = Tolerance(Line(a)),
                      seen = PreviewChoice(S, target, tol), seen # {}
               PROVE  seen = {o.event : o \in Choice(S, target, tol)}
    BY DEF PreviewForetells
  <2>1. OffersOk(S)
    BY CandidatesAreOffers
  <2>2. ASSUME NEW o \in S PROVE Aligned(o, target).event = o.event
    <3>1. /\ o = Offered(o.event, Sum(PendingLegs(o.event)), PendingLegs(o.event))
          /\ Sum(PendingLegs(o.event)) \in Int
      BY CandidatesAreOffers, LegSumInt DEF PendingLegs
    <3> QED BY <3>1, TurnedOffer, OfferFields
  <2>3. {o.event : o \in Turned(S, target)} = {o.event : o \in S}
    BY <2>2 DEF Turned
  <2> DEFINE size == Near(Abs(Total(S)), Abs(target), tol)
             whole == Near(Total(S), target, tol) \/ size
  <2>4. CASE S # {} /\ whole
    <3>1. Choice(S, target, tol) \in {S, Turned(S, target)}
      BY <2>4 DEF Choice, Turned
    <3>2. seen = {o.event : o \in S}
      BY <2>4 DEF PreviewChoice
    <3> QED BY <2>3, <3>1, <3>2
  <2>5. CASE ~(S # {} /\ whole)
    <3> DEFINE C == Closest(S, target, tol)
    <3>1. Cardinality(C) = 1 /\ seen = {o.event : o \in CHOOSE s \in C : TRUE}
      BY <2>5 DEF PreviewChoice
    <3>2. IsFiniteSet(C)
      BY <2>1, FS_SUBSET, FS_Subset DEF OffersOk, Closest, Fitting
    <3>3. PICK s : C = {s}
      <4> HIDE DEF C
      <4> QED BY <3>1, <3>2, FS_Singleton
    <3>4. seen = {o.event : o \in s}
      BY <3>1, <3>3
    <3>5. Fitting(S, target, tol) # {} /\ S # {}
      BY <3>3 DEF Closest, Fitting
    <3>6. FindSubset(S, target, tol) = s
      BY <3>3, <3>5 DEF FindSubset
    <3>7. Choice(S, target, tol) = FindSubset(S, target, tol)
      BY <2>5, <3>5 DEF Choice
    <3> QED BY <3>4, <3>6, <3>7
  <2> QED BY <2>4, <2>5
<1> QED BY <1>1, PTL DEF Spec
-----------------------------------------------------------------------------
(***************************************************************************)
(* Imports.                                                                *)
(***************************************************************************)

Working(p, i, ps, u) == [at |-> p, line |-> i, picks |-> ps, unresolved |-> u]

OfferOk(o) == \E e \in Events : \E c \in Int : \E ls \in SUBSET LegsOf(e) : o = Offered(e, c, ls)

TaskOk(t) ==
  \/ t = Idle
  \/ \E p \in {"existing", "fetch"}, i \in Lines : \E u : t = Working(p, i, {}, u)
  \/ \E p \in {"ref", "insert", "cancel"}, i \in Lines : \E ps, u :
       t = Working(p, i, ps, u) /\ ps # {} /\ \A o \in ps : OfferOk(o)

FirstOf(ps) == CHOOSE o \in ps : \A p \in ps : o.event <= p.event

(* The event whose legs are being cancelled has its row.                    *)
PaidFor(t, rows) == t.at = "cancel" => \E r \in rows : r.event = FirstOf(t.picks).event

(* NoExpectationLost, of any legs and rows.                                 *)
Covered(ls, rows) == \A l \in LegIds : ls[l] = "cancelled" => \E r \in rows : r.event = Legs[l].event

Statuses(ls) ==
  DOMAIN ls = LegIds /\ \A l \in LegIds : ls[l] \in {"none", "pending", "cancelled"}

LossInv ==
  /\ Statuses(leg) /\ DOMAIN work = Agents
  /\ \A a \in Agents : TaskOk(work[a]) /\ PaidFor(work[a], cleared)
  /\ Covered(leg, cleared)

LEMMA TaskFields ==
  /\ Idle.at = "idle"
  /\ \A p, i, ps, u : /\ Working(p, i, ps, u).at = p /\ Working(p, i, ps, u).line = i
                      /\ Working(p, i, ps, u).picks = ps /\ Working(p, i, ps, u).unresolved = u
BY DEF Idle, Working

Moved(w, v, a, q) == v = [w EXCEPT ![a].at = q]
Sent(w, v, a, q, qs) == v = [w EXCEPT ![a].at = q, ![a].picks = qs]

LEMMA MovesTo ==
  ASSUME NEW w, NEW a, NEW p, NEW i, NEW ps, NEW u, w[a] = Working(p, i, ps, u), NEW q,
         NEW v, Moved(w, v, a, q)
  PROVE  v = [w EXCEPT ![a] = Working(q, i, ps, u)]
<1>1. [Working(p, i, ps, u) EXCEPT !.at = q] = Working(q, i, ps, u)
  BY DEF Working
<1> QED BY <1>1 DEF Moved

LEMMA Takes ==
  ASSUME NEW w, NEW a, NEW p, NEW i, NEW ps, NEW u, w[a] = Working(p, i, ps, u), NEW qs,
         NEW v, v = [w EXCEPT ![a].picks = qs]
  PROVE  v = [w EXCEPT ![a] = Working(p, i, qs, u)]
<1>1. [Working(p, i, ps, u) EXCEPT !.picks = qs] = Working(p, i, qs, u)
  BY DEF Working
<1> QED BY <1>1

LEMMA MovesAndTakes ==
  ASSUME NEW w, NEW a, NEW p, NEW i, NEW ps, NEW u, w[a] = Working(p, i, ps, u), NEW q, NEW qs,
         NEW v, Sent(w, v, a, q, qs)
  PROVE  v = [w EXCEPT ![a] = Working(q, i, qs, u)]
<1>1. [Working(p, i, ps, u) EXCEPT !.at = q] = Working(q, i, ps, u)
  BY DEF Working
<1>2. [Working(q, i, ps, u) EXCEPT !.picks = qs] = Working(q, i, qs, u)
  BY DEF Working
<1> QED BY <1>1, <1>2 DEF Sent

(* confirmSettlement has an offer to begin with.                            *)
LEMMA FirstOffer ==
  ASSUME NEW ps, ps # {}, \A o \in ps : OfferOk(o)
  PROVE  FirstOf(ps) \in ps /\ \A p \in ps : FirstOf(ps).event <= p.event
<1> DEFINE F == {E \in SUBSET Events : E # {} => \E d \in E : \A e \in E : d <= e}
<1>1. ASSUME NEW E \in SUBSET Events, \A U \in SUBSET E : U # E => U \in F PROVE E \in F
  <2> SUFFICES ASSUME E # {} PROVE \E d \in E : \A e \in E : d <= e
    OBVIOUS
  <2>0. \A e \in E : e \in Int
    BY EventAssumption
  <2>1. PICK z \in E : TRUE
    OBVIOUS
  <2>2. CASE E = {z}
    BY <2>0, <2>2
  <2>3. CASE E # {z}
    <3>1. E \ {z} \in F /\ E \ {z} # {}
      <4>1. E \ {z} \in SUBSET E /\ E \ {z} # E /\ E \ {z} # {}
        BY <2>1, <2>3
      <4>2. E \ {z} \in F
        <5> HIDE DEF F
        <5> QED BY <1>1, <4>1
      <4> QED BY <4>1, <4>2
    <3>2. PICK d \in E \ {z} : \A e \in E \ {z} : d <= e
      BY <3>1
    <3>3. CASE d <= z
      BY <3>2, <3>3
    <3>4. CASE z < d
      BY <2>0, <2>1, <3>2, <3>4
    <3> QED BY <2>0, <2>1, <3>2, <3>3, <3>4
  <2> QED BY <2>2, <2>3
<1>2. \A E \in SUBSET Events : E \in F
  <2> HIDE DEF F
  <2> QED BY <1>1, EventAssumption, SubsetInduction
<1> DEFINE E == {o.event : o \in ps}
<1>3. E \in SUBSET Events /\ E # {}
  BY OfferFields DEF OfferOk
<1>4. PICK d \in E : \A e \in E : d <= e
  <2> HIDE DEF E
  <2> QED BY <1>2, <1>3
<1>5. \E o \in ps : \A p \in ps : o.event <= p.event
  BY <1>4
<1> QED BY <1>5, Zenon DEF FirstOf

LEMMA PickIsFirst == \A a : Pick(a) = FirstOf(work[a].picks)
BY DEF Pick, FirstOf

(* What settle chooses are offers of pending legs.                          *)
LEMMA ChoiceIsOffers ==
  ASSUME NEW line, line.cents \in Int, NEW tol, NEW o \in Choice(Candidates(line), line.cents, tol)
  PROVE  /\ o.event \in Events
         /\ PendingLegs(o.event) # {}
         /\ \/ o = Offered(o.event, Sum(PendingLegs(o.event)), PendingLegs(o.event))
            \/ o = Offered(o.event, -Sum(PendingLegs(o.event)), PendingLegs(o.event))
<1> DEFINE S == Candidates(line)
<1>1. PICK T \in SUBSET S : Choice(S, line.cents, tol) \in {T, Turned(T, line.cents)}
  BY CandidatesAreOffers, ChoiceChooses
<1>2. PICK p \in S : o \in {p, Aligned(p, line.cents)}
  BY <1>1 DEF Turned
<1>3. /\ p.event \in Events /\ PendingLegs(p.event) # {}
      /\ p = Offered(p.event, Sum(PendingLegs(p.event)), PendingLegs(p.event))
  BY CandidatesAreOffers
<1>4. Sum(PendingLegs(p.event)) \in Int
  BY LegSumInt DEF PendingLegs
<1> DEFINE c == Sum(PendingLegs(p.event))
           ls == PendingLegs(p.event)
<1>5. o \in {Offered(p.event, c, ls), Offered(p.event, -c, ls)}
  BY <1>2, <1>3, <1>4, TurnedOffer
<1>6. o.event = p.event
  BY <1>5, OfferFields
<1> QED BY <1>3, <1>5, <1>6

LEMMA ChoiceOfferOk ==
  ASSUME NEW line, line.cents \in Int, NEW tol, NEW o \in Choice(Candidates(line), line.cents, tol)
  PROVE  OfferOk(o)
<1>1. /\ Sum(PendingLegs(o.event)) \in Int /\ -Sum(PendingLegs(o.event)) \in Int
      /\ PendingLegs(o.event) \in SUBSET LegsOf(o.event)
  BY LegSumInt DEF PendingLegs, LegsOf
<1> QED BY <1>1, ChoiceIsOffers DEF OfferOk

(* Legs and rows stay covered, and so do the offers of other imports, while *)
(* rows are only added and legs only cancelled behind their rows.           *)
LEMMA OneImport ==
  ASSUME LossInv, NEW a \in Agents, NEW t, work' = [work EXCEPT ![a] = t],
         TaskOk(t), PaidFor(t, cleared'), cleared \subseteq cleared',
         Statuses(leg'), Covered(leg', cleared')
  PROVE  LossInv'
<1>1. DOMAIN work' = Agents
  BY DEF LossInv
<1>2. ASSUME NEW b \in Agents PROVE TaskOk(work'[b]) /\ PaidFor(work'[b], cleared')
  <2>1. CASE b = a
    BY <2>1 DEF LossInv
  <2>2. CASE b # a
    BY <2>2 DEF LossInv, PaidFor
  <2> QED BY <2>1, <2>2
<1> QED BY <1>1, <1>2 DEF LossInv

LEMMA AtPoint ==
  ASSUME NEW t, TaskOk(t)
  PROVE  /\ t.at \in Points \cup {"idle"}
         /\ t.at = "idle" => t = Idle
         /\ t.at \in {"existing", "fetch"} => \E i \in Lines : \E u : t = Working(t.at, i, {}, u)
         /\ t.at \in {"ref", "insert", "cancel"} =>
              \E i \in Lines : \E ps, u :
                t = Working(t.at, i, ps, u) /\ ps # {} /\ \A o \in ps : OfferOk(o)
BY TaskFields DEF TaskOk, Points

LEMMA LinesHaveCents == \A i \in Lines : Extract[i].cents \in Int
<1> DEFINE R == [cents : Int \ {0}, trade : Nat]
<1>1. Extract \in Seq(R)
  BY LineAssumption
<1>2. \A i \in Lines : Extract[i] \in R
  <2> HIDE DEF R
  <2> QED BY <1>1 DEF Lines
<1> QED BY <1>2

LEMMA FirstLine == 1 \in Lines
<1>1. Len(Extract) \in Nat /\ Len(Extract) # 0 /\ Lines = 1..Len(Extract)
  BY LineAssumption DEF Lines
<1> QED BY <1>1

(* Where NextLine leaves an import.                                         *)
Onward(t) == t = Idle \/ \E i \in Lines : \E u : t = Working("existing", i, {}, u)

LEMMA GoesOn ==
  ASSUME LossInv, NEW a \in Agents, ~IsAt(a, "idle"), NEW u, NextLine(a, u)
  PROVE  \E t : work' = [work EXCEPT ![a] = t] /\ Onward(t)
<1>1. TaskOk(work[a])
  BY DEF LossInv
<1>2. work[a].line \in Lines
  BY <1>1, TaskFields DEF TaskOk, IsAt
<1>3. CASE work[a].line < Len(Extract)
  <2>1. Lines = 1..Len(Extract) /\ Len(Extract) \in Nat
    BY LineAssumption DEF Lines
  <2>2. work[a].line + 1 \in Lines
    BY <1>2, <1>3, <2>1
  <2>3. work' = [work EXCEPT ![a] = Working("existing", work[a].line + 1, {}, u)]
    BY <1>3 DEF NextLine, Working
  <2> QED BY <2>2, <2>3 DEF Onward
<1>4. CASE ~(work[a].line < Len(Extract))
  BY <1>4 DEF NextLine, Onward
<1> QED BY <1>3, <1>4

LEMMA OnwardOk == ASSUME NEW t, Onward(t) PROVE TaskOk(t) /\ t.at \in {"idle", "existing"}
BY TaskFields DEF Onward, TaskOk

(* What each round trip of settle does to its request.                      *)
LEMMA CheckExistingShape ==
  ASSUME LossInv, NEW a \in Agents, CheckExisting(a)
  PROVE  \E t : /\ work' = [work EXCEPT ![a] = t]
                /\ Onward(t) \/ \E i \in Lines : \E u : t = Working("fetch", i, {}, u)
<1>1. TaskOk(work[a]) /\ work[a].at = "existing"
  BY DEF LossInv, CheckExisting, IsAt
<1>0. PICK i \in Lines : \E u : work[a] = Working("existing", i, {}, u)
  BY <1>1, AtPoint
<1>2. PICK u : work[a] = Working("existing", i, {}, u)
  BY <1>0
<1>3. CASE KnownSettlement(work[a].line)
  <2>1. NextLine(a, work[a].unresolved) /\ ~IsAt(a, "idle")
    BY <1>1, <1>3 DEF CheckExisting, IsAt
  <2> QED BY <2>1, GoesOn
<1>4. CASE ~KnownSettlement(work[a].line)
  <2>1. Moved(work, work', a, "fetch")
    BY <1>4 DEF CheckExisting, Goto, Moved
  <2>2. work' = [work EXCEPT ![a] = Working("fetch", i, {}, u)]
    BY <1>2, <2>1, MovesTo
  <2> QED BY <2>2
<1> QED BY <1>3, <1>4

LEMMA FetchShape ==
  ASSUME LossInv, NEW a \in Agents, Fetch(a)
  PROVE  \E t : /\ work' = [work EXCEPT ![a] = t]
                /\ \/ Onward(t)
                   \/ \E i \in Lines : \E ps, u :
                        /\ t = Working("ref", i, ps, u) /\ ps # {}
                        /\ ps = Choice(Candidates(Extract[i]), Extract[i].cents,
                                       Tolerance(Extract[i]))
<1>1. TaskOk(work[a]) /\ work[a].at = "fetch"
  BY DEF LossInv, Fetch, IsAt
<1>0. PICK i \in Lines : \E u : work[a] = Working("fetch", i, {}, u)
  BY <1>1, AtPoint
<1>2. PICK u : work[a] = Working("fetch", i, {}, u)
  BY <1>0
<1> DEFINE ps == Choice(Candidates(Line(a)), Line(a).cents, Tolerance(Line(a)))
<1>3. CASE ps = {}
  <2>1. NextLine(a, TRUE) /\ ~IsAt(a, "idle")
    BY <1>1, <1>3 DEF Fetch, IsAt
  <2> QED BY <2>1, GoesOn
<1>4. CASE ps # {}
  <2>1. Sent(work, work', a, "ref", ps)
    BY <1>4 DEF Fetch, Sent
  <2>3. work' = [work EXCEPT ![a] = Working("ref", i, ps, u)]
    <3> HIDE DEF ps
    <3> QED BY <1>2, <2>1, MovesAndTakes
  <2>4. Line(a) = Extract[i]
    BY <1>2, TaskFields DEF Line
  <2> QED BY <1>4, <2>3, <2>4
<1> QED BY <1>3, <1>4

LEMMA CheckRefShape ==
  ASSUME LossInv, NEW a \in Agents, CheckRef(a)
  PROVE  \E i \in Lines : \E ps, u, p :
           /\ work[a] = Working("ref", i, ps, u) /\ work' = [work EXCEPT ![a] = Working(p, i, ps, u)]
           /\ ps # {} /\ \A o \in ps : OfferOk(o)
           /\ IF \E r \in cleared : r.line = i /\ r.event = FirstOf(ps).event
              THEN p = "cancel" ELSE p = "insert"
<1>1. TaskOk(work[a]) /\ work[a].at = "ref"
  BY DEF LossInv, CheckRef, IsAt
<1>0. PICK i \in Lines : \E ps, u :
        work[a] = Working("ref", i, ps, u) /\ ps # {} /\ \A o \in ps : OfferOk(o)
  BY <1>1, AtPoint
<1>2. PICK ps, u :
        work[a] = Working("ref", i, ps, u) /\ ps # {} /\ \A o \in ps : OfferOk(o)
  BY <1>0
<1> DEFINE p == IF \E r \in cleared : r.line = i /\ r.event = FirstOf(ps).event
                THEN "cancel" ELSE "insert"
<1>3. work[a].line = i /\ Pick(a) = FirstOf(ps)
  BY <1>2, TaskFields, PickIsFirst
<1>4. Moved(work, work', a, p)
  BY <1>3 DEF CheckRef, Goto, Settled, Moved
<1>5. work' = [work EXCEPT ![a] = Working(p, i, ps, u)]
  <2> HIDE DEF p
  <2> QED BY <1>2, <1>4, MovesTo
<1> QED BY <1>2, <1>5

LEMMA InsertShape ==
  ASSUME LossInv, NEW a \in Agents, Insert(a)
  PROVE  \E i \in Lines : \E ps, u :
           /\ work[a] = Working("insert", i, ps, u)
           /\ work' = [work EXCEPT ![a] = Working("cancel", i, ps, u)]
           /\ ps # {} /\ \A o \in ps : OfferOk(o)
           /\ \E r : /\ cleared' = cleared \cup {r}
                     /\ r.event = FirstOf(ps).event /\ r.cents = FirstOf(ps).cents
<1>1. TaskOk(work[a]) /\ work[a].at = "insert"
  BY DEF LossInv, Insert, IsAt
<1>0. PICK i \in Lines : \E ps, u :
        work[a] = Working("insert", i, ps, u) /\ ps # {} /\ \A o \in ps : OfferOk(o)
  BY <1>1, AtPoint
<1>2. PICK ps, u :
        work[a] = Working("insert", i, ps, u) /\ ps # {} /\ \A o \in ps : OfferOk(o)
  BY <1>0
<1>3. Pick(a) = FirstOf(ps)
  BY <1>2, TaskFields, PickIsFirst
<1>4. Moved(work, work', a, "cancel") /\ cleared' = cleared \cup {Row(a)}
  BY DEF Insert, Goto, Moved
<1>5. work' = [work EXCEPT ![a] = Working("cancel", i, ps, u)]
  BY <1>2, <1>4, MovesTo
<1>6. Row(a).event = FirstOf(ps).event /\ Row(a).cents = FirstOf(ps).cents
  BY <1>3 DEF Row
<1> QED BY <1>2, <1>4, <1>5, <1>6

(* Offer [e, c, ls] of ps is the first, and its leg l is cancelled.         *)
Remaining(t, i, ps, u, o, ls) ==
  IF ls # {} THEN t = Working("cancel", i, (ps \ {o}) \cup {Offered(o.event, o.cents, ls)}, u)
  ELSE IF ps \ {o} # {} THEN t = Working("ref", i, ps \ {o}, u)
  ELSE Onward(t)

LEMMA CancelShape ==
  ASSUME LossInv, NEW a \in Agents, Cancel(a)
  PROVE  \E i \in Lines : \E ps, u, t :
           /\ work[a] = Working("cancel", i, ps, u) /\ work' = [work EXCEPT ![a] = t]
           /\ ps # {} /\ \A o \in ps : OfferOk(o)
           /\ \E l \in FirstOf(ps).legs :
                /\ leg' = [leg EXCEPT ![l] = "cancelled"]
                /\ Remaining(t, i, ps, u, FirstOf(ps), FirstOf(ps).legs \ {l})
<1>1. TaskOk(work[a]) /\ work[a].at = "cancel"
  BY DEF LossInv, Cancel, IsAt
<1>0. PICK i \in Lines : \E ps, u :
        work[a] = Working("cancel", i, ps, u) /\ ps # {} /\ \A o \in ps : OfferOk(o)
  BY <1>1, AtPoint
<1>2. PICK ps, u :
        work[a] = Working("cancel", i, ps, u) /\ ps # {} /\ \A o \in ps : OfferOk(o)
  BY <1>0
<1> DEFINE o == FirstOf(ps)
<1>3. Pick(a) = o /\ work[a].picks = ps
  BY <1>2, TaskFields, PickIsFirst
<1>4. PICK l \in o.legs :
        LET rest == [o EXCEPT !.legs = @ \ {l}]
            others == ps \ {o}
        IN  /\ leg' = [leg EXCEPT ![l] = "cancelled"]
            /\ IF rest.legs # {}
               THEN work' = [work EXCEPT ![a].picks = others \cup {rest}]
               ELSE IF others # {}
               THEN work' = [work EXCEPT ![a].at = "ref", ![a].picks = others]
               ELSE NextLine(a, work[a].unresolved)
  BY <1>3 DEF Cancel
<1>5. [o EXCEPT !.legs = @ \ {l}] = Offered(o.event, o.cents, o.legs \ {l})
  <2>1. OfferOk(o)
    BY <1>2, FirstOffer
  <2>2. PICK e, c, qs : o = Offered(e, c, qs)
    BY <2>1 DEF OfferOk
  <2> HIDE DEF o
  <2> QED BY <2>2 DEF Offered
<1> DEFINE ls == o.legs \ {l}
           rest == Offered(o.event, o.cents, ls)
           others == ps \ {o}
<1>6. /\ leg' = [leg EXCEPT ![l] = "cancelled"]
      /\ IF ls # {} THEN work' = [work EXCEPT ![a].picks = others \cup {rest}]
         ELSE IF others # {} THEN work' = [work EXCEPT ![a].at = "ref", ![a].picks = others]
         ELSE NextLine(a, work[a].unresolved)
  <2>1. rest.legs = ls
    BY OfferFields
  <2> HIDE DEF o
  <2> QED BY <1>4, <1>5, <2>1
<1>7. \E t : work' = [work EXCEPT ![a] = t] /\ Remaining(t, i, ps, u, o, ls)
  <2> HIDE DEF o, ls, rest, others
  <2>1. CASE ls # {}
    <3>1. work' = [work EXCEPT ![a] = Working("cancel", i, others \cup {rest}, u)]
      BY <1>2, <1>6, <2>1, Takes
    <3> QED BY <2>1, <3>1 DEF Remaining, others, rest
  <2>2. CASE ls = {} /\ others # {}
    <3>1. work' = [work EXCEPT ![a] = Working("ref", i, others, u)]
      BY <1>2, <1>6, <2>2, MovesAndTakes DEF Sent
    <3> QED BY <2>2, <3>1 DEF Remaining, others
  <2>3. CASE ls = {} /\ others = {}
    <3>1. NextLine(a, work[a].unresolved) /\ ~IsAt(a, "idle")
      BY <1>1, <1>6, <2>3 DEF IsAt
    <3> QED BY <2>3, <3>1, GoesOn DEF Remaining, others
  <2> QED BY <2>1, <2>2, <2>3
<1> QED BY <1>2, <1>6, <1>7
-----------------------------------------------------------------------------
(***************************************************************************)
(* No expectation is lost.                                                 *)
(***************************************************************************)

LEMMA InitLoss == Init => LossInv
<1> SUFFICES ASSUME Init PROVE LossInv
  OBVIOUS
<1>1. ASSUME NEW a \in Agents PROVE work[a] = Idle
  BY DEF Init
<1>2. ASSUME NEW l \in LegIds PROVE leg[l] # "cancelled"
  BY DEF Init
<1>3. Statuses(leg) /\ DOMAIN work = Agents
  BY DEF Init, Statuses
<1> QED BY <1>1, <1>2, <1>3, TaskFields DEF LossInv, TaskOk, PaidFor, Covered

LEMMA ExpectLoss == ASSUME LossInv, NEW l \in LegIds, Expect(l) PROVE LossInv'
<1>1. Statuses(leg') /\ UNCHANGED <<cleared, work>>
  BY DEF LossInv, Expect, Statuses
<1>2. \A k \in LegIds : leg'[k] = "cancelled" => leg[k] = "cancelled"
  BY DEF LossInv, Expect, Statuses
<1>3. Covered(leg', cleared')
  BY <1>1, <1>2 DEF LossInv, Covered
<1> QED BY <1>1, <1>3 DEF LossInv

LEMMA IdleLoss ==
  ASSUME LossInv, NEW a \in Agents, NEW t, work' = [work EXCEPT ![a] = t],
         TaskOk(t), t.at # "cancel", UNCHANGED <<leg, cleared>>
  PROVE  LossInv'
<1>1. PaidFor(t, cleared') /\ Statuses(leg') /\ Covered(leg', cleared') /\ cleared \subseteq cleared'
  BY DEF LossInv, PaidFor
<1> QED BY <1>1, OneImport

LEMMA BeginLoss == ASSUME LossInv, NEW a \in Agents, Begin(a) PROVE LossInv'
<1> DEFINE t == Working("existing", 1, {}, FALSE)
<1>1. work' = [work EXCEPT ![a] = t] /\ UNCHANGED <<leg, cleared>>
  BY DEF Begin, Working
<1>2. TaskOk(t) /\ t.at # "cancel"
  BY TaskFields, FirstLine DEF TaskOk
<1> HIDE DEF t
<1> QED BY <1>1, <1>2, IdleLoss

LEMMA CheckExistingLoss == ASSUME LossInv, NEW a \in Agents, CheckExisting(a) PROVE LossInv'
<1>1. PICK t : /\ work' = [work EXCEPT ![a] = t]
               /\ Onward(t) \/ \E i \in Lines : \E u : t = Working("fetch", i, {}, u)
  BY CheckExistingShape
<1>2. TaskOk(t) /\ t.at # "cancel"
  BY <1>1, OnwardOk, TaskFields DEF TaskOk
<1>3. UNCHANGED <<leg, cleared>>
  BY DEF CheckExisting
<1> QED BY <1>1, <1>2, <1>3, IdleLoss

LEMMA FetchLoss == ASSUME LossInv, NEW a \in Agents, Fetch(a) PROVE LossInv'
<1>1. PICK t :
        /\ work' = [work EXCEPT ![a] = t]
        /\ \/ Onward(t)
           \/ \E i \in Lines : \E ps, u :
                /\ t = Working("ref", i, ps, u) /\ ps # {}
                /\ ps = Choice(Candidates(Extract[i]), Extract[i].cents, Tolerance(Extract[i]))
  BY FetchShape
<1>2. TaskOk(t) /\ t.at # "cancel"
  <2>1. CASE Onward(t)
    BY <2>1, OnwardOk
  <2>2. ASSUME NEW i \in Lines, NEW ps, NEW u, t = Working("ref", i, ps, u), ps # {},
               ps = Choice(Candidates(Extract[i]), Extract[i].cents, Tolerance(Extract[i]))
        PROVE  TaskOk(t) /\ t.at # "cancel"
    <3>1. \A o \in ps : OfferOk(o)
      BY <2>2, LinesHaveCents, ChoiceOfferOk
    <3> QED BY <2>2, <3>1, TaskFields DEF TaskOk
  <2> QED BY <1>1, <2>1, <2>2
<1>3. UNCHANGED <<leg, cleared>>
  BY DEF Fetch
<1> QED BY <1>1, <1>2, <1>3, IdleLoss

LEMMA CheckRefLoss == ASSUME LossInv, NEW a \in Agents, CheckRef(a) PROVE LossInv'
<1>0. PICK i \in Lines : \E ps, u, p :
        /\ work[a] = Working("ref", i, ps, u) /\ work' = [work EXCEPT ![a] = Working(p, i, ps, u)]
        /\ ps # {} /\ \A o \in ps : OfferOk(o)
        /\ IF \E r \in cleared : r.line = i /\ r.event = FirstOf(ps).event
           THEN p = "cancel" ELSE p = "insert"
  BY CheckRefShape
<1>1. PICK ps, u, p :
        /\ work[a] = Working("ref", i, ps, u) /\ work' = [work EXCEPT ![a] = Working(p, i, ps, u)]
        /\ ps # {} /\ \A o \in ps : OfferOk(o)
        /\ IF \E r \in cleared : r.line = i /\ r.event = FirstOf(ps).event
           THEN p = "cancel" ELSE p = "insert"
  BY <1>0
<1> DEFINE t == Working(p, i, ps, u)
<1>2. TaskOk(t)
  BY <1>1 DEF TaskOk
<1>3. PaidFor(t, cleared')
  BY <1>1, TaskFields DEF PaidFor, CheckRef
<1>4. UNCHANGED <<leg, cleared>>
  BY DEF CheckRef
<1>5. Statuses(leg') /\ Covered(leg', cleared') /\ cleared \subseteq cleared'
  BY <1>4 DEF LossInv
<1> HIDE DEF t
<1>6. work' = [work EXCEPT ![a] = t]
  BY <1>1 DEF t
<1> QED BY <1>2, <1>3, <1>5, <1>6, OneImport

LEMMA InsertLoss == ASSUME LossInv, NEW a \in Agents, Insert(a) PROVE LossInv'
<1>0. PICK i \in Lines : \E ps, u :
        /\ work[a] = Working("insert", i, ps, u)
        /\ work' = [work EXCEPT ![a] = Working("cancel", i, ps, u)]
        /\ ps # {} /\ \A o \in ps : OfferOk(o)
        /\ \E r : /\ cleared' = cleared \cup {r}
                  /\ r.event = FirstOf(ps).event /\ r.cents = FirstOf(ps).cents
  BY InsertShape
<1>1. PICK ps, u :
        /\ work[a] = Working("insert", i, ps, u)
        /\ work' = [work EXCEPT ![a] = Working("cancel", i, ps, u)]
        /\ ps # {} /\ \A o \in ps : OfferOk(o)
        /\ \E r : /\ cleared' = cleared \cup {r}
                  /\ r.event = FirstOf(ps).event /\ r.cents = FirstOf(ps).cents
  BY <1>0
<1> DEFINE t == Working("cancel", i, ps, u)
<1>2. TaskOk(t)
  BY <1>1 DEF TaskOk
<1>3. PaidFor(t, cleared')
  BY <1>1, TaskFields DEF PaidFor
<1>4. cleared \subseteq cleared' /\ leg' = leg
  BY <1>1 DEF Insert
<1>5. Statuses(leg') /\ Covered(leg', cleared')
  BY <1>4 DEF LossInv, Covered
<1> HIDE DEF t
<1>6. work' = [work EXCEPT ![a] = t]
  BY <1>1 DEF t
<1> QED BY <1>2, <1>3, <1>4, <1>5, <1>6, OneImport

(* The rest of an offer is still the first of what is left.                 *)
LEMMA RestIsFirst ==
  ASSUME NEW ps, ps # {}, \A o \in ps : OfferOk(o), NEW ls \in SUBSET FirstOf(ps).legs
  PROVE  LET o == FirstOf(ps)
             qs == (ps \ {o}) \cup {Offered(o.event, o.cents, ls)}
         IN  /\ qs # {} /\ \A p \in qs : OfferOk(p)
             /\ FirstOf(qs).event = o.event
<1> DEFINE o == FirstOf(ps)
           rest == Offered(o.event, o.cents, ls)
           qs == (ps \ {o}) \cup {rest}
<1>1. o \in ps /\ \A p \in ps : o.event <= p.event
  BY FirstOffer
<1>2. OfferOk(o)
  BY <1>1
<1>3. OfferOk(rest) /\ rest.event = o.event /\ o.event \in Int
  <2>1. PICK e \in Events : \E c \in Int : \E ms \in SUBSET LegsOf(e) : o = Offered(e, c, ms)
    BY <1>2 DEF OfferOk
  <2>2. PICK c \in Int : \E ms \in SUBSET LegsOf(e) : o = Offered(e, c, ms)
    BY <2>1
  <2>3. PICK ms \in SUBSET LegsOf(e) : o = Offered(e, c, ms)
    BY <2>2
  <2>4. o.event = e /\ o.cents = c /\ o.legs = ms
    BY <2>3, OfferFields
  <2>5. ls \in SUBSET LegsOf(e)
    BY <2>4
  <2>6. e \in Int
    BY EventAssumption
  <2>7. OfferOk(Offered(e, c, ls))
    BY <2>5 DEF OfferOk
  <2>8. Offered(e, c, ls).event = e
    BY OfferFields
  <2> HIDE DEF o
  <2> QED BY <2>4, <2>6, <2>7, <2>8
<1>4. qs # {} /\ \A p \in qs : OfferOk(p)
  BY <1>3
<1> HIDE DEF o, rest, qs
<1>5. FirstOf(qs) \in qs /\ \A p \in qs : FirstOf(qs).event <= p.event
  BY <1>4, FirstOffer
<1>6. rest \in qs /\ \A p \in qs : p = rest \/ p \in ps
  BY DEF qs
<1>7. FirstOf(qs).event \in Int
  <2>1. \A p : OfferOk(p) => p.event \in Int
    BY EventAssumption, OfferFields DEF OfferOk
  <2> QED BY <1>4, <1>5, <2>1
<1>8. FirstOf(qs).event <= o.event /\ o.event <= FirstOf(qs).event
  BY <1>1, <1>3, <1>5, <1>6
<1>9. FirstOf(qs).event = o.event
  BY <1>3, <1>7, <1>8
<1> QED BY <1>4, <1>9 DEF o, rest, qs

LEMMA CancelLoss == ASSUME LossInv, NEW a \in Agents, Cancel(a) PROVE LossInv'
<1>0. PICK i \in Lines : \E ps, u, t :
        /\ work[a] = Working("cancel", i, ps, u) /\ work' = [work EXCEPT ![a] = t]
        /\ ps # {} /\ \A o \in ps : OfferOk(o)
        /\ \E l \in FirstOf(ps).legs :
             /\ leg' = [leg EXCEPT ![l] = "cancelled"]
             /\ Remaining(t, i, ps, u, FirstOf(ps), FirstOf(ps).legs \ {l})
  BY CancelShape
<1>1. PICK ps, u, t :
        /\ work[a] = Working("cancel", i, ps, u) /\ work' = [work EXCEPT ![a] = t]
        /\ ps # {} /\ \A o \in ps : OfferOk(o)
        /\ \E l \in FirstOf(ps).legs :
             /\ leg' = [leg EXCEPT ![l] = "cancelled"]
             /\ Remaining(t, i, ps, u, FirstOf(ps), FirstOf(ps).legs \ {l})
  BY <1>0
<1> DEFINE o == FirstOf(ps)
<1>2. PICK l \in o.legs : /\ leg' = [leg EXCEPT ![l] = "cancelled"]
                          /\ Remaining(t, i, ps, u, o, o.legs \ {l})
  BY <1>1
<1> DEFINE ls == o.legs \ {l}
           qs == (ps \ {o}) \cup {Offered(o.event, o.cents, ls)}
<1>3. \E r \in cleared : r.event = o.event
  <2>1. PaidFor(work[a], cleared)
    BY DEF LossInv
  <2> QED BY <1>1, <2>1, TaskFields DEF PaidFor
<1>4. l \in LegIds /\ Legs[l].event = o.event
  <2>1. OfferOk(o)
    BY <1>1, FirstOffer
  <2> HIDE DEF o
  <2> QED BY <1>2, <2>1, OfferFields DEF OfferOk, LegsOf
<1>5. cleared' = cleared
  BY DEF Cancel
<1>6. Statuses(leg') /\ Covered(leg', cleared')
  <2> HIDE DEF o
  <2>1. Statuses(leg')
    BY <1>2 DEF LossInv, Statuses
  <2>2. \A k \in LegIds : leg'[k] = "cancelled" => k = l \/ leg[k] = "cancelled"
    BY <1>2 DEF LossInv, Statuses
  <2> QED BY <1>3, <1>4, <1>5, <2>1, <2>2 DEF LossInv, Covered
<1>7. TaskOk(t) /\ PaidFor(t, cleared')
  <2>1. CASE ls # {}
    <3>1. t = Working("cancel", i, qs, u)
      BY <1>2, <2>1 DEF Remaining
    <3>2. qs # {} /\ (\A p \in qs : OfferOk(p)) /\ FirstOf(qs).event = o.event
      BY <1>1, RestIsFirst
    <3> HIDE DEF qs, o
    <3> QED BY <1>3, <1>5, <3>1, <3>2, TaskFields DEF TaskOk, PaidFor
  <2>2. CASE ls = {} /\ ps \ {o} # {}
    <3>1. t = Working("ref", i, ps \ {o}, u)
      BY <1>2, <2>2 DEF Remaining
    <3>2. \A p \in ps \ {o} : OfferOk(p)
      BY <1>1
    <3> HIDE DEF o
    <3> QED BY <2>2, <3>1, <3>2, TaskFields DEF TaskOk, PaidFor
  <2>3. CASE ls = {} /\ ps \ {o} = {}
    <3>1. Onward(t)
      BY <1>2, <2>3 DEF Remaining
    <3> QED BY <3>1, OnwardOk DEF PaidFor
  <2> QED BY <2>1, <2>2, <2>3
<1> QED BY <1>1, <1>5, <1>6, <1>7, OneImport

LEMMA CrashLoss == ASSUME LossInv, NEW a \in Agents, Crash(a) PROVE LossInv'
<1>1. work' = [work EXCEPT ![a] = Idle] /\ UNCHANGED <<leg, cleared>>
  BY DEF Crash
<1>2. TaskOk(Idle) /\ Idle.at # "cancel"
  BY TaskFields DEF TaskOk
<1> QED BY <1>1, <1>2, IdleLoss

LEMMA NextLoss == ASSUME LossInv, [Next]_vars PROVE LossInv'
<1>1. ASSUME NEW a \in Agents, Begin(a) \/ Work(a) \/ Crash(a) PROVE LossInv'
  BY <1>1, BeginLoss, CheckExistingLoss, FetchLoss, CheckRefLoss, InsertLoss, CancelLoss, CrashLoss
  DEF Work
<1>2. CASE UNCHANGED vars
  <2>1. UNCHANGED <<leg, cleared, work>>
    BY <1>2 DEF vars
  <2> QED BY <2>1 DEF LossInv
<1> QED BY <1>1, <1>2, ExpectLoss DEF Next

THEOREM LossInvariant == Spec => []LossInv
BY InitLoss, NextLoss, PTL DEF Spec

(* The cleared row is written before the expectation is cancelled:          *)
(* confirmSettlement inserts, or finds the row of this line and event, and  *)
(* only then cancels the legs it read, so a leg is never given up without   *)
(* cash in the books for its event, in every interleaving of imports and    *)
(* wherever they stop.                                                      *)
THEOREM NoExpectationIsLost == Spec => []NoExpectationLost
<1>1. LossInv => NoExpectationLost
  BY DEF LossInv, Covered, NoExpectationLost, CancelledLegs, RowsOf
<1> QED BY <1>1, LossInvariant, PTL
-----------------------------------------------------------------------------
(***************************************************************************)
(* Cash is counted once.                                                   *)
(***************************************************************************)

(* A settlement has taken the event, or has chosen to.                      *)
Taken(e) ==
  \/ RowsOf(e) # {}
  \/ \E a \in Agents : ~IsAt(a, "idle") /\ \E o \in work[a].picks : o.event = e

(* The legs of an event are all written before a line settles it.           *)
NotesFirst == \A l \in LegIds : Taken(Legs[l].event) => leg[l] # "none"

RowsIn(rows, e) == {r \in rows : r.event = e}
CancelledIn(ls, e) == {l \in LegIds : ls[l] = "cancelled" /\ Legs[l].event = e}

(* Nothing of event e is settled yet.                                       *)
Fresh(e, ls, rows) == RowsIn(rows, e) = {} /\ CancelledIn(ls, e) = {}

(* One row stands for all legs of e, which but for those left are cancelled. *)
SettledBut(e, left, ls, rows) ==
  /\ \E r : /\ RowsIn(rows, e) = {r} /\ r.cents \in Int
            /\ Abs(r.cents) = Abs(Sum(LegsOf(e)))
  /\ CancelledIn(ls, e) = LegsOf(e) \ left

(* Offer o is for all legs of its event.                                    *)
Whole(o) ==
  /\ o.legs = LegsOf(o.event) /\ o.cents \in Int
  /\ Abs(o.cents) = Abs(Sum(LegsOf(o.event)))

PickOk(o, due, ls, rows) ==
  IF due THEN SettledBut(o.event, o.legs, ls, rows)
  ELSE Whole(o) /\ Fresh(o.event, ls, rows)

OneEach(ps) == \A o, p \in ps : o.event = p.event => o = p

Due(t, o) == t.at = "cancel" /\ o = FirstOf(t.picks)

PicksOk(t, ls, rows) ==
  t.at # "idle" => OneEach(t.picks) /\ \A o \in t.picks : PickOk(o, Due(t, o), ls, rows)

Chosen(t) == IF t.at = "idle" THEN {} ELSE {o.event : o \in t.picks}

RestOk(e, ls, rows) == Fresh(e, ls, rows) \/ SettledBut(e, {}, ls, rows)

(* While imports do not overlap and none has stopped.                       *)
CountOk(w, ls, rows) ==
  /\ \A a, b \in Agents : a # b => w[a].at = "idle" \/ w[b].at = "idle"
  /\ \A a \in Agents : PicksOk(w[a], ls, rows)
  /\ \A e \in Events : (\A a \in Agents : e \notin Chosen(w[a])) => RestOk(e, ls, rows)

CountInv == Clean => CountOk(work, leg, cleared)

LEMMA InitCount == Init => CountInv
<1> SUFFICES ASSUME Init PROVE CountOk(work, leg, cleared)
  BY DEF CountInv
<1>1. \A a \in Agents : work[a] = Idle
  BY DEF Init
<1>2. \A e : Fresh(e, leg, cleared)
  BY DEF Init, Fresh, RowsIn, CancelledIn
<1> QED BY <1>1, <1>2, TaskFields DEF CountOk, PicksOk, Chosen, RestOk

(* One import moves, the others are idle: what is said of its own events,   *)
(* the old and the new, is enough.                                          *)
LEMMA LoneImport ==
  ASSUME LossInv, NEW a \in Agents, NEW t, work' = [work EXCEPT ![a] = t], ~IsAt(a, "idle"),
         CountOk(work, leg, cleared), PicksOk(t, leg', cleared'),
         \A e \in Events \ Chosen(t) :
           e \in Chosen(work[a]) \/ RestOk(e, leg, cleared) => RestOk(e, leg', cleared')
  PROVE  CountOk(work', leg', cleared')
<1>1. \A b \in Agents \ {a} : work[b].at = "idle" /\ work'[b] = work[b]
  BY DEF CountOk, IsAt
<1>2. work'[a] = t
  BY DEF LossInv
<1>3. \A b, c \in Agents : b # c => work'[b].at = "idle" \/ work'[c].at = "idle"
  BY <1>1
<1>4. \A b \in Agents : PicksOk(work'[b], leg', cleared')
  BY <1>1, <1>2 DEF PicksOk
<1>5. ASSUME NEW e \in Events, \A b \in Agents : e \notin Chosen(work'[b])
      PROVE  RestOk(e, leg', cleared')
  <2>1. e \in Events \ Chosen(t)
    BY <1>2, <1>5
  <2>2. CASE e \in Chosen(work[a])
    BY <2>1, <2>2
  <2>3. CASE e \notin Chosen(work[a])
    <3>1. \A b \in Agents : e \notin Chosen(work[b])
      BY <1>1, <2>3 DEF Chosen
    <3>2. RestOk(e, leg, cleared)
      BY <3>1 DEF CountOk
    <3> QED BY <2>1, <3>2
  <2> QED BY <2>2, <2>3
<1> QED BY <1>3, <1>4, <1>5 DEF CountOk

(* Nothing is chosen where settle has nothing in its hands.                 *)
LEMMA HoldsNothing ==
  ASSUME NEW t, t = Idle \/ \E p, i, u : t = Working(p, i, {}, u)
  PROVE  Chosen(t) = {} /\ \A ls, rows : PicksOk(t, ls, rows)
BY TaskFields DEF Chosen, PicksOk, OneEach

LEMMA OnwardHoldsNothing ==
  ASSUME NEW t, Onward(t) PROVE Chosen(t) = {} /\ \A ls, rows : PicksOk(t, ls, rows)
BY HoldsNothing DEF Onward

LEMMA ExpectCount == ASSUME LossInv, CountInv, NEW l \in LegIds, Expect(l) PROVE CountInv'
<1>1. UNCHANGED <<cleared, work, alone, crashes>> /\ leg' = [leg EXCEPT ![l] = "pending"]
      /\ leg[l] = "none"
  BY DEF Expect
<1>2. \A e : CancelledIn(leg', e) = CancelledIn(leg, e)
  <2>1. \A k \in LegIds : leg'[k] = "cancelled" <=> leg[k] = "cancelled"
    BY <1>1 DEF LossInv, Statuses
  <2> QED BY <2>1 DEF CancelledIn
<1>3. /\ \A e : Fresh(e, leg', cleared) <=> Fresh(e, leg, cleared)
      /\ \A e, left : SettledBut(e, left, leg', cleared) <=> SettledBut(e, left, leg, cleared)
  BY <1>2 DEF Fresh, SettledBut
<1>4. CountOk(work, leg, cleared) => CountOk(work, leg', cleared)
  <2> SUFFICES ASSUME CountOk(work, leg, cleared) PROVE CountOk(work, leg', cleared)
    OBVIOUS
  <2>1. \A t : PicksOk(t, leg, cleared) => PicksOk(t, leg', cleared)
    BY <1>3 DEF PicksOk, PickOk
  <2>2. \A e : RestOk(e, leg, cleared) => RestOk(e, leg', cleared)
    BY <1>3 DEF RestOk
  <2> QED BY <2>1, <2>2 DEF CountOk
<1>5. Clean' = Clean
  BY <1>1 DEF Clean
<1> QED BY <1>1, <1>4, <1>5 DEF CountInv

LEMMA BeginCount == ASSUME LossInv, CountInv, NEW a \in Agents, Begin(a) PROVE CountInv'
<1> SUFFICES ASSUME Clean' PROVE CountOk(work', leg', cleared')
  BY DEF CountInv
<1> DEFINE t == Working("existing", 1, {}, FALSE)
<1>1. /\ work' = [work EXCEPT ![a] = t] /\ UNCHANGED <<leg, cleared, crashes>>
      /\ alone' = (alone /\ \A b \in Agents \ {a} : IsAt(b, "idle")) /\ IsAt(a, "idle")
  BY DEF Begin, Working
<1>2. CountOk(work, leg, cleared) /\ \A b \in Agents \ {a} : work[b].at = "idle"
  BY <1>1 DEF CountInv, Clean, IsAt
<1>3. Chosen(t) = {} /\ PicksOk(t, leg, cleared)
  BY HoldsNothing
<1> HIDE DEF t
<1>4. work'[a] = t /\ \A b \in Agents \ {a} : work'[b] = work[b]
  BY <1>1 DEF LossInv
<1>5. \A b \in Agents : Chosen(work[b]) = {}
  BY <1>1, <1>2 DEF Chosen, IsAt
<1>6. \A b, c \in Agents : b # c => work'[b].at = "idle" \/ work'[c].at = "idle"
  BY <1>2, <1>4
<1>7. \A b \in Agents : PicksOk(work'[b], leg, cleared)
  BY <1>2, <1>3, <1>4 DEF CountOk
<1>8. \A e \in Events : RestOk(e, leg, cleared)
  BY <1>2, <1>5 DEF CountOk
<1> QED BY <1>1, <1>6, <1>7, <1>8 DEF CountOk

LEMMA CheckExistingCount ==
  ASSUME LossInv, CountInv, NEW a \in Agents, CheckExisting(a) PROVE CountInv'
<1> SUFFICES ASSUME Clean' PROVE CountOk(work', leg', cleared')
  BY DEF CountInv
<1>1. PICK t : /\ work' = [work EXCEPT ![a] = t]
               /\ Onward(t) \/ \E i \in Lines : \E u : t = Working("fetch", i, {}, u)
  BY CheckExistingShape
<1>2. UNCHANGED <<leg, cleared, alone, crashes>> /\ work[a].at = "existing"
  BY DEF CheckExisting, IsAt
<1>3. CountOk(work, leg, cleared)
  BY <1>2 DEF CountInv, Clean
<1>4. PicksOk(t, leg', cleared')
  BY <1>1, HoldsNothing DEF Onward
<1>5. Chosen(work[a]) = {}
  <2>1. TaskOk(work[a])
    BY DEF LossInv
  <2> QED BY <1>2, <2>1, AtPoint, HoldsNothing
<1>6. \A e : RestOk(e, leg', cleared') <=> RestOk(e, leg, cleared)
  BY <1>2
<1> QED BY <1>1, <1>2, <1>3, <1>4, <1>5, <1>6, LoneImport DEF IsAt

(* settle never takes an event twice.                                       *)
LEMMA ChoiceIsOneEach ==
  ASSUME NEW line, line.cents \in Int, NEW tol
  PROVE  OneEach(Choice(Candidates(line), line.cents, tol))
<1> DEFINE S == Candidates(line)
<1>1. PICK T \in SUBSET S : Choice(S, line.cents, tol) \in {T, Turned(T, line.cents)}
  BY CandidatesAreOffers, ChoiceChooses
<1>2. \A p, q \in T : p.event = q.event => p = q
  BY CandidatesAreOffers DEF OffersOk
<1>3. ASSUME NEW p \in T PROVE Aligned(p, line.cents).event = p.event
  <2>1. /\ p = Offered(p.event, Sum(PendingLegs(p.event)), PendingLegs(p.event))
        /\ Sum(PendingLegs(p.event)) \in Int
    BY CandidatesAreOffers, LegSumInt DEF PendingLegs
  <2> QED BY <2>1, TurnedOffer, OfferFields
<1>4. OneEach(T) /\ OneEach(Turned(T, line.cents))
  BY <1>2, <1>3 DEF OneEach, Turned
<1> QED BY <1>1, <1>4

LEMMA FetchCount ==
  ASSUME LossInv, CountInv, NotesFirst', NEW a \in Agents, Fetch(a) PROVE CountInv'
<1> SUFFICES ASSUME Clean' PROVE CountOk(work', leg', cleared')
  BY DEF CountInv
<1>1. PICK t :
        /\ work' = [work EXCEPT ![a] = t]
        /\ \/ Onward(t)
           \/ \E i \in Lines : \E ps, u :
                /\ t = Working("ref", i, ps, u) /\ ps # {}
                /\ ps = Choice(Candidates(Extract[i]), Extract[i].cents, Tolerance(Extract[i]))
  BY FetchShape
<1>2. UNCHANGED <<leg, cleared, alone, crashes>> /\ work[a].at = "fetch"
  BY DEF Fetch, IsAt
<1>3. CountOk(work, leg, cleared)
  BY <1>2 DEF CountInv, Clean
<1>4. \A b \in Agents : Chosen(work[b]) = {}
  <2>1. TaskOk(work[a])
    BY DEF LossInv
  <2>2. Chosen(work[a]) = {}
    BY <1>2, <2>1, AtPoint, HoldsNothing
  <2>3. \A b \in Agents \ {a} : work[b].at = "idle"
    BY <1>2, <1>3 DEF CountOk
  <2> QED BY <2>2, <2>3 DEF Chosen
<1>5. \A e \in Events : RestOk(e, leg, cleared)
  BY <1>3, <1>4 DEF CountOk
<1>6. PicksOk(t, leg, cleared)
  <2>1. CASE Onward(t)
    BY <2>1, OnwardHoldsNothing
  <2>2. ASSUME NEW i \in Lines, NEW ps, NEW u, t = Working("ref", i, ps, u), ps # {},
               ps = Choice(Candidates(Extract[i]), Extract[i].cents, Tolerance(Extract[i]))
        PROVE  PicksOk(t, leg, cleared)
    <3>1. OneEach(ps)
      BY <2>2, LinesHaveCents, ChoiceIsOneEach
    <3>2. ASSUME NEW o \in ps PROVE Whole(o) /\ Fresh(o.event, leg, cleared)
      <4> DEFINE e == o.event
      <4>1. /\ e \in Events /\ PendingLegs(e) # {}
            /\ \/ o = Offered(e, Sum(PendingLegs(e)), PendingLegs(e))
               \/ o = Offered(e, -Sum(PendingLegs(e)), PendingLegs(e))
        BY <2>2, LinesHaveCents, ChoiceIsOffers
      <4>2. Fresh(e, leg, cleared)
        <5>1. PICK l \in LegIds : leg[l] = "pending" /\ Legs[l].event = e
          BY <4>1 DEF PendingLegs
        <5>2. l \in LegsOf(e) /\ l \notin CancelledIn(leg, e)
          BY <5>1 DEF LegsOf, CancelledIn
        <5>3. ~SettledBut(e, {}, leg, cleared)
          BY <5>2 DEF SettledBut
        <5> QED BY <1>5, <4>1, <5>3 DEF RestOk
      <4>3. PendingLegs(e) = LegsOf(e)
        <5>1. ASSUME NEW l \in LegsOf(e) PROVE leg[l] = "pending"
          <6>1. l \in LegIds /\ Legs[l].event = e
            BY DEF LegsOf
          <6>2. Taken(e)'
            <7>1. work'[a] = t
              BY <1>1 DEF LossInv
            <7> QED BY <2>2, <7>1, TaskFields DEF Taken, IsAt
          <6>3. leg'[l] # "none"
            BY <6>1, <6>2 DEF NotesFirst
          <6>4. leg[l] # "cancelled"
            BY <4>2, <6>1 DEF Fresh, CancelledIn
          <6> QED BY <1>2, <6>1, <6>3, <6>4 DEF LossInv, Statuses
        <5> QED BY <5>1 DEF PendingLegs, LegsOf
      <4>4. Sum(LegsOf(e)) \in Int
        BY LegSumInt DEF LegsOf
      <4>5. o.legs = LegsOf(e) /\ (o.cents = Sum(LegsOf(e)) \/ o.cents = -Sum(LegsOf(e)))
        BY <4>1, <4>3, OfferFields
      <4>6. o.cents \in Int /\ Abs(o.cents) = Abs(Sum(LegsOf(e)))
        BY <4>4, <4>5 DEF Abs
      <4> QED BY <4>2, <4>5, <4>6 DEF Whole
    <3>3. \A o \in ps : ~Due(t, o)
      BY <2>2, TaskFields DEF Due
    <3> QED BY <2>2, <3>1, <3>2, <3>3, TaskFields DEF PicksOk, PickOk
  <2> QED BY <1>1, <2>1, <2>2
<1>7. ~IsAt(a, "idle")
  BY <1>2 DEF IsAt
<1> QED BY <1>1, <1>2, <1>3, <1>5, <1>6, <1>7, LoneImport

LEMMA CheckRefCount ==
  ASSUME LossInv, CountInv, NEW a \in Agents, CheckRef(a) PROVE CountInv'
<1> SUFFICES ASSUME Clean' PROVE CountOk(work', leg', cleared')
  BY DEF CountInv
<1>0. PICK i \in Lines : \E ps, u, p :
        /\ work[a] = Working("ref", i, ps, u) /\ work' = [work EXCEPT ![a] = Working(p, i, ps, u)]
        /\ ps # {} /\ \A o \in ps : OfferOk(o)
        /\ IF \E r \in cleared : r.line = i /\ r.event = FirstOf(ps).event
           THEN p = "cancel" ELSE p = "insert"
  BY CheckRefShape
<1>1. PICK ps, u, p :
        /\ work[a] = Working("ref", i, ps, u) /\ work' = [work EXCEPT ![a] = Working(p, i, ps, u)]
        /\ ps # {} /\ \A o \in ps : OfferOk(o)
        /\ IF \E r \in cleared : r.line = i /\ r.event = FirstOf(ps).event
           THEN p = "cancel" ELSE p = "insert"
  BY <1>0
<1> DEFINE w == Working("ref", i, ps, u)
           t == Working("insert", i, ps, u)
<1>2. UNCHANGED <<leg, cleared, alone, crashes>>
  BY DEF CheckRef
<1>3. CountOk(work, leg, cleared)
  BY <1>2 DEF CountInv, Clean
<1>4. PicksOk(w, leg, cleared) /\ w.at = "ref" /\ w.picks = ps /\ t.at = "insert" /\ t.picks = ps
  BY <1>1, <1>3, TaskFields DEF CountOk
<1> HIDE DEF w, t
<1>5. \A o \in ps : Whole(o) /\ Fresh(o.event, leg, cleared)
  BY <1>4 DEF PicksOk, PickOk, Due
<1>6. PicksOk(t, leg, cleared)
  BY <1>4, <1>5 DEF PicksOk, PickOk, Due
<1>7. p = "insert"
  <2>1. RowsIn(cleared, FirstOf(ps).event) = {}
    BY <1>1, <1>5, FirstOffer DEF Fresh
  <2> QED BY <1>1, <2>1 DEF RowsIn
<1>8. work' = [work EXCEPT ![a] = t] /\ work[a] = w
  BY <1>1, <1>7 DEF t, w
<1>9. Chosen(t) = Chosen(work[a]) /\ ~IsAt(a, "idle")
  BY <1>4, <1>8 DEF Chosen, IsAt
<1> QED BY <1>2, <1>3, <1>6, <1>8, <1>9, LoneImport

LEMMA InsertCount ==
  ASSUME LossInv, CountInv, NEW a \in Agents, Insert(a) PROVE CountInv'
<1> SUFFICES ASSUME Clean' PROVE CountOk(work', leg', cleared')
  BY DEF CountInv
<1>0. PICK i \in Lines : \E ps, u :
        /\ work[a] = Working("insert", i, ps, u)
        /\ work' = [work EXCEPT ![a] = Working("cancel", i, ps, u)]
        /\ ps # {} /\ \A o \in ps : OfferOk(o)
        /\ \E r : /\ cleared' = cleared \cup {r}
                  /\ r.event = FirstOf(ps).event /\ r.cents = FirstOf(ps).cents
  BY InsertShape
<1>1. PICK ps, u :
        /\ work[a] = Working("insert", i, ps, u)
        /\ work' = [work EXCEPT ![a] = Working("cancel", i, ps, u)]
        /\ ps # {} /\ \A o \in ps : OfferOk(o)
        /\ \E r : /\ cleared' = cleared \cup {r}
                  /\ r.event = FirstOf(ps).event /\ r.cents = FirstOf(ps).cents
  BY <1>0
<1>2. PICK r : /\ cleared' = cleared \cup {r}
               /\ r.event = FirstOf(ps).event /\ r.cents = FirstOf(ps).cents
  BY <1>1
<1> DEFINE w == Working("insert", i, ps, u)
           t == Working("cancel", i, ps, u)
           o == FirstOf(ps)
<1>3. UNCHANGED <<leg, alone, crashes>>
  BY DEF Insert
<1>4. CountOk(work, leg, cleared)
  BY <1>3 DEF CountInv, Clean
<1>5. PicksOk(w, leg, cleared) /\ w.at = "insert" /\ w.picks = ps /\ t.at = "cancel" /\ t.picks = ps
  BY <1>1, <1>4, TaskFields DEF CountOk
<1>6. o \in ps
  BY <1>1, FirstOffer
<1>7. work' = [work EXCEPT ![a] = t] /\ work[a] = w /\ \A p : Due(t, p) <=> p = o
  BY <1>1, <1>5 DEF Due
<1> HIDE DEF w, t
<1>8. OneEach(ps) /\ \A p \in ps : Whole(p) /\ Fresh(p.event, leg, cleared)
  BY <1>5 DEF PicksOk, PickOk, Due
<1> HIDE DEF o
<1>9. r.event = o.event /\ r.cents = o.cents
  BY <1>2 DEF o
<1>10. \A e : e # o.event => RowsIn(cleared', e) = RowsIn(cleared, e)
  BY <1>2, <1>9 DEF RowsIn
<1>11. SettledBut(o.event, o.legs, leg, cleared')
  <2>1. RowsIn(cleared', o.event) = {r}
    BY <1>2, <1>6, <1>8, <1>9 DEF RowsIn, Fresh
  <2>2. CancelledIn(leg, o.event) = LegsOf(o.event) \ o.legs
    BY <1>6, <1>8 DEF Fresh, Whole
  <2>3. r.cents \in Int /\ Abs(r.cents) = Abs(Sum(LegsOf(o.event)))
    BY <1>6, <1>8, <1>9 DEF Whole
  <2> QED BY <2>1, <2>2, <2>3 DEF SettledBut
<1>12. PicksOk(t, leg, cleared')
  <2>1. ASSUME NEW p \in ps, p # o PROVE Fresh(p.event, leg, cleared')
    BY <1>6, <1>8, <1>10, <2>1 DEF OneEach, Fresh
  <2> QED BY <1>5, <1>7, <1>8, <1>11, <2>1 DEF PicksOk, PickOk
<1>13. Chosen(t) = Chosen(work[a]) /\ o.event \in Chosen(t) /\ ~IsAt(a, "idle")
  BY <1>5, <1>6, <1>7 DEF Chosen, IsAt
<1>14. \A e \in Events \ Chosen(t) : RestOk(e, leg, cleared) => RestOk(e, leg, cleared')
  BY <1>10, <1>13 DEF RestOk, Fresh, SettledBut
<1> QED BY <1>3, <1>4, <1>7, <1>12, <1>13, <1>14, LoneImport

LEMMA CancelCount ==
  ASSUME LossInv, CountInv, NEW a \in Agents, Cancel(a) PROVE CountInv'
<1> SUFFICES ASSUME Clean' PROVE CountOk(work', leg', cleared')
  BY DEF CountInv
<1>0. PICK i \in Lines : \E ps, u, t :
        /\ work[a] = Working("cancel", i, ps, u) /\ work' = [work EXCEPT ![a] = t]
        /\ ps # {} /\ \A o \in ps : OfferOk(o)
        /\ \E l \in FirstOf(ps).legs :
             /\ leg' = [leg EXCEPT ![l] = "cancelled"]
             /\ Remaining(t, i, ps, u, FirstOf(ps), FirstOf(ps).legs \ {l})
  BY CancelShape
<1>1. PICK ps, u, t :
        /\ work[a] = Working("cancel", i, ps, u) /\ work' = [work EXCEPT ![a] = t]
        /\ ps # {} /\ \A o \in ps : OfferOk(o)
        /\ \E l \in FirstOf(ps).legs :
             /\ leg' = [leg EXCEPT ![l] = "cancelled"]
             /\ Remaining(t, i, ps, u, FirstOf(ps), FirstOf(ps).legs \ {l})
  BY <1>0
<1> DEFINE w == Working("cancel", i, ps, u)
           o == FirstOf(ps)
<1>2. PICK l \in o.legs : /\ leg' = [leg EXCEPT ![l] = "cancelled"]
                          /\ Remaining(t, i, ps, u, o, o.legs \ {l})
  BY <1>1
<1> DEFINE ls == o.legs \ {l}
           rest == Offered(o.event, o.cents, ls)
           qs == (ps \ {o}) \cup {rest}
<1>3. UNCHANGED <<cleared, alone, crashes>>
  BY DEF Cancel
<1>4. CountOk(work, leg, cleared)
  BY <1>3 DEF CountInv, Clean
<1>5. PicksOk(w, leg, cleared) /\ w.at = "cancel" /\ w.picks = ps /\ work[a] = w
  BY <1>1, <1>4, TaskFields DEF CountOk
<1>6. o \in ps /\ rest.event = o.event /\ rest.legs = ls
  BY <1>1, FirstOffer, OfferFields
<1>7. qs # {} => FirstOf(qs) \in qs /\ FirstOf(qs).event = o.event
  <2>1. qs # {} /\ (\A p \in qs : OfferOk(p)) /\ FirstOf(qs).event = o.event
    BY <1>1, RestIsFirst
  <2> HIDE DEF qs, o
  <2> QED BY <2>1, FirstOffer
<1>8. l \in LegIds /\ Legs[l].event = o.event
  <2>1. OfferOk(o)
    BY <1>1, FirstOffer
  <2> HIDE DEF o
  <2> QED BY <1>2, <2>1, OfferFields DEF OfferOk, LegsOf
<1>9. \A p : Due(w, p) <=> p = o
  BY <1>5 DEF Due
<1> HIDE DEF w, o, ls
<1>10. OneEach(ps) /\ \A p \in ps : PickOk(p, p = o, leg, cleared)
  BY <1>5, <1>9 DEF PicksOk, PickOk
<1>11. /\ CancelledIn(leg', o.event) = CancelledIn(leg, o.event) \cup {l}
       /\ \A e : e # o.event => CancelledIn(leg', e) = CancelledIn(leg, e)
  BY <1>2, <1>8 DEF CancelledIn, LossInv, Statuses
<1>12. SettledBut(o.event, ls, leg', cleared)
  <2>1. SettledBut(o.event, o.legs, leg, cleared)
    BY <1>6, <1>10 DEF PickOk
  <2>2. CancelledIn(leg', o.event) = LegsOf(o.event) \ ls
    BY <1>8, <1>11, <2>1 DEF SettledBut, LegsOf, ls
  <2> QED BY <2>1, <2>2 DEF SettledBut
<1>13. \A p \in ps \ {o} : p.event # o.event /\ Whole(p) /\ Fresh(p.event, leg', cleared)
  <2>1. ASSUME NEW p \in ps \ {o}
        PROVE  p.event # o.event /\ Whole(p) /\ Fresh(p.event, leg', cleared)
    <3>1. p.event # o.event
      BY <1>6, <1>10 DEF OneEach
    <3>2. Whole(p) /\ Fresh(p.event, leg, cleared)
      BY <1>10 DEF PickOk
    <3> QED BY <1>11, <3>1, <3>2 DEF Fresh
  <2> QED BY <2>1
<1>14. \A e \in Events : e # o.event /\ RestOk(e, leg, cleared) => RestOk(e, leg', cleared)
  BY <1>11 DEF RestOk, Fresh, SettledBut
<1>15. ~IsAt(a, "idle") /\ Chosen(work[a]) = {p.event : p \in ps}
  BY <1>5 DEF IsAt, Chosen
<1>16. /\ PicksOk(t, leg', cleared)
       /\ \A e \in Events \ Chosen(t) :
            e \in Chosen(work[a]) \/ RestOk(e, leg, cleared) => RestOk(e, leg', cleared)
  <2>1. CASE ls # {}
    <3>1. t = Working("cancel", i, qs, u)
      BY <1>2, <2>1 DEF Remaining, ls
    <3>2. t.at = "cancel" /\ t.picks = qs
      BY <3>1, TaskFields
    <3> HIDE DEF rest
    <3>3. FirstOf(qs) = rest
      BY <1>6, <1>7, <1>13
    <3>4. \A p \in qs : Due(t, p) <=> p = rest
      BY <3>2, <3>3 DEF Due
    <3>5. \A p \in qs : p = rest \/ (p \in ps \ {o} /\ p # rest)
      BY <1>6, <1>13
    <3>6. OneEach(qs)
      BY <1>6, <1>10, <1>13, <3>5 DEF OneEach
    <3>7. \A p \in qs : PickOk(p, Due(t, p), leg', cleared)
      <4>1. PickOk(rest, TRUE, leg', cleared)
        BY <1>6, <1>12 DEF PickOk
      <4>2. \A p \in ps \ {o} : PickOk(p, FALSE, leg', cleared)
        BY <1>13 DEF PickOk
      <4>3. ASSUME NEW p \in qs PROVE PickOk(p, Due(t, p), leg', cleared)
        <5>1. CASE p = rest
          <6>1. Due(t, p) = TRUE
            BY <3>4, <5>1 DEF Due
          <6> QED BY <4>1, <5>1, <6>1
        <5>2. CASE p # rest
          <6>1. Due(t, p) = FALSE /\ p \in ps \ {o}
            BY <3>4, <3>5, <5>2 DEF Due
          <6> QED BY <4>2, <6>1
        <5> QED BY <5>1, <5>2
      <4> QED BY <4>3
    <3>8. Chosen(t) = Chosen(work[a]) /\ o.event \in Chosen(t)
      <4>1. Chosen(t) = {p.event : p \in qs}
        BY <3>2 DEF Chosen
      <4> QED BY <1>6, <1>15, <4>1
    <3> QED BY <1>14, <3>2, <3>6, <3>7, <3>8 DEF PicksOk
  <2>2. CASE ls = {} /\ ps \ {o} # {}
    <3>1. t = Working("ref", i, ps \ {o}, u)
      BY <1>2, <2>2 DEF Remaining, ls
    <3>2. t.at = "ref" /\ t.picks = ps \ {o}
      BY <3>1, TaskFields
    <3>3. PicksOk(t, leg', cleared)
      BY <1>10, <1>13, <3>2 DEF PicksOk, PickOk, Due, OneEach
    <3>4. RestOk(o.event, leg', cleared)
      BY <1>12, <2>2 DEF RestOk
    <3>5. \A e : e \in Chosen(work[a]) => e \in Chosen(t) \/ e = o.event
      BY <1>15, <3>2 DEF Chosen
    <3> QED BY <1>14, <3>3, <3>4, <3>5
  <2>3. CASE ls = {} /\ ps \ {o} = {}
    <3>1. Onward(t)
      BY <1>2, <2>3 DEF Remaining, ls
    <3>2. PicksOk(t, leg', cleared)
      BY <3>1, OnwardHoldsNothing
    <3>3. RestOk(o.event, leg', cleared)
      BY <1>12, <2>3 DEF RestOk
    <3>4. \A e : e \in Chosen(work[a]) => e = o.event
      BY <1>15, <2>3
    <3> QED BY <1>14, <3>2, <3>3, <3>4
  <2> QED BY <2>1, <2>2, <2>3
<1> QED BY <1>1, <1>3, <1>4, <1>15, <1>16, LoneImport

LEMMA NextCount ==
  ASSUME LossInv, CountInv, crashes \in Nat, NotesFirst', [Next]_vars PROVE CountInv'
<1>1. ASSUME NEW a \in Agents, Crash(a) PROVE CountInv'
  <2>1. ~Clean'
    BY <1>1 DEF Crash, Clean
  <2> QED BY <2>1 DEF CountInv
<1>2. ASSUME NEW a \in Agents, Begin(a) \/ Work(a) PROVE CountInv'
  BY <1>2, BeginCount, CheckExistingCount, FetchCount, CheckRefCount, InsertCount, CancelCount
  DEF Work
<1>3. CASE UNCHANGED vars
  <2>1. UNCHANGED <<leg, cleared, work>> /\ Clean' = Clean
    BY <1>3 DEF vars, Clean
  <2> QED BY <2>1 DEF CountInv
<1> QED BY <1>1, <1>2, <1>3, ExpectCount DEF Next

Stops == crashes \in Nat

LEMMA StopsAreCounted == Spec => []Stops
<1>1. Init => Stops
  BY DEF Init, Stops
<1>2. Stops /\ [Next]_vars => Stops'
  <2> SUFFICES ASSUME crashes \in Nat, [Next]_vars PROVE crashes' \in Nat
    BY DEF Stops
  <2>1. ASSUME NEW a \in Agents, Begin(a) \/ Work(a) PROVE crashes' = crashes
    BY <2>1 DEF Begin, Work, CheckExisting, Fetch, CheckRef, Insert, Cancel
  <2>2. ASSUME NEW l \in LegIds, Expect(l) PROVE crashes' = crashes
    BY <2>2 DEF Expect
  <2>3. ASSUME NEW a \in Agents, Crash(a) PROVE crashes' = crashes + 1
    BY <2>3 DEF Crash
  <2>4. CASE UNCHANGED vars
    BY <2>4 DEF vars
  <2> QED BY <2>1, <2>2, <2>3, <2>4 DEF Next
<1> QED BY <1>1, <1>2, PTL DEF Spec

THEOREM CountInvariant == Spec /\ []NotesFirst => []CountInv
<1>1. Init => CountInv
  BY InitCount
<1>2. LossInv /\ CountInv /\ Stops /\ NotesFirst' /\ [Next]_vars => CountInv'
  BY NextCount DEF Stops
<1> QED BY <1>1, <1>2, LossInvariant, StopsAreCounted, PTL DEF Spec

(* confirmSettlement writes the cents of an event once and takes back all   *)
(* that was expected of it: imports that come one after the other, none     *)
(* stopped, leave for every event as much cash as was cancelled, provided   *)
(* the notes were complete when a line settled them.                        *)
THEOREM CashIsCountedOnce == Spec /\ []NotesFirst => []CashCountedOnce
<1>1. CountInv => CashCountedOnce
  <2> SUFFICES ASSUME CountInv, Clean, Quiet, NEW e \in Events
               PROVE  Abs(Total(RowsOf(e))) = Abs(Sum(CancelledLegs(e)))
    BY DEF CashCountedOnce
  <2>1. RestOk(e, leg, cleared)
    BY DEF CountInv, CountOk, Quiet, IsAt, Chosen
  <2>2. RowsOf(e) = RowsIn(cleared, e) /\ CancelledLegs(e) = CancelledIn(leg, e)
    BY DEF RowsOf, RowsIn, CancelledLegs, CancelledIn
  <2>3. CASE Fresh(e, leg, cleared)
    BY <2>2, <2>3, NothingAddsUp DEF Fresh
  <2>4. CASE SettledBut(e, {}, leg, cleared)
    <3>1. PICK r : RowsOf(e) = {r} /\ r.cents \in Int /\ Abs(r.cents) = Abs(Sum(LegsOf(e)))
      BY <2>2, <2>4 DEF SettledBut
    <3>2. CancelledLegs(e) = LegsOf(e)
      BY <2>2, <2>4 DEF SettledBut
    <3>3. Total(RowsOf(e)) = r.cents
      BY <3>1, TotalOne
    <3> QED BY <3>1, <3>2, <3>3
  <2> QED BY <2>1, <2>3, <2>4 DEF RestOk
<1> QED BY <1>1, CountInvariant, PTL
=============================================================================
