--------------------------- MODULE VerifierProofs ---------------------------
(* What holds of the Verifier for any accounts, requests, values, fees and   *)
(* any number of calls.  A ledger adds up over finite sets, and the sum of   *)
(* naturals over one is a cardinality: of the set of its units, which has as *)
(* many elements for x as x counts.  Induction is the choice of a minimal    *)
(* counterexample.                                                           *)

EXTENDS Verifier, FiniteSetTheorems, TLAPS

-----------------------------------------------------------------------------
(* Sums.                                                                     *)

\* The units of what f counts over s.
Units(f, s) == {p \in s \X Nat : 1 <= p[2] /\ p[2] <= f[p[1]]}

Chosen(s) == CHOOSE x \in s : TRUE

\* The equation of a sum over every part of D.
SumsUp(g, f, D) ==
    g = [s \in SUBSET D |-> IF s = {} THEN 0 ELSE f[Chosen(s)] + g[s \ {Chosen(s)}]]

\* The units of one element.
LEMMA UnitsOfOne ==
    ASSUME NEW f, NEW x, f[x] \in Nat
    PROVE  IsFiniteSet(Units(f, {x})) /\ Cardinality(Units(f, {x})) = f[x]
  <1> DEFINE U == Units(f, {x})
             b == [i \in 1..f[x] |-> <<x, i>>]
  <1>1. IsFiniteSet(1..f[x]) /\ Cardinality(1..f[x]) = f[x]
    BY FS_Interval
  <1>2. \A i \in 1..f[x] : b[i] \in U
    BY DEF Units
  <1>3. \A p \in U : p[2] \in 1..f[x] /\ b[p[2]] = p
    BY DEF Units
  <1>4. \A i, j \in 1..f[x] : b[i] = b[j] => i = j
    OBVIOUS
  <1>5. b \in Bijection(1..f[x], U)
    <2> HIDE DEF U
    <2>1. b \in [1..f[x] -> U]
      BY <1>2
    <2> HIDE DEF b
    <2>2. b \in Surjection(1..f[x], U)
      BY <1>3, <2>1 DEF Surjection
    <2>3. b \in Injection(1..f[x], U)
      BY <1>4, <2>1 DEF Injection, IsInjective
    <2> QED BY <2>2, <2>3 DEF Bijection
  <1>6. ExistsBijection(1..f[x], U)
    BY <1>5 DEF ExistsBijection
  <1> QED BY <1>1, <1>6, FS_Bijection

\* The units of a set are those of one element and those of the others.
LEMMA UnitsSplit ==
    ASSUME NEW f, NEW s, NEW x \in s
    PROVE  /\ Units(f, s) = Units(f, s \ {x}) \cup Units(f, {x})
           /\ Units(f, s \ {x}) \cap Units(f, {x}) = {}
  BY DEF Units

\* A finite set has finitely many units.
LEMMA UnitsFinite ==
    ASSUME NEW D, IsFiniteSet(D), NEW f, \A x \in D : f[x] \in Nat
    PROVE  \A s \in SUBSET D : IsFiniteSet(Units(f, s))
  <1> DEFINE Bad == {s \in SUBSET D : ~ IsFiniteSet(Units(f, s))}
  <1> SUFFICES ASSUME Bad # {} PROVE FALSE
    OBVIOUS
  <1>1. IsWellFoundedOn(StrictSubsetOrdering(D), SUBSET D)
    BY FS_StrictSubsetOrderingWellFounded, FS_FiniteSubsetsOfFinite
  <1>2. PICK s \in Bad : \A t \in Bad : ~ (<<t, s>> \in StrictSubsetOrdering(D))
    BY <1>1, WFMin
  <1>3. CASE s = {}
    <2>1. Units(f, s) = {}
      BY <1>3 DEF Units
    <2> QED BY <1>2, <2>1, FS_EmptySet
  <1>4. ASSUME NEW x \in s PROVE FALSE
    <2> DEFINE t == s \ {x}
    <2>1. t \in SUBSET D /\ x \in D
      BY <1>2
    <2>2. <<t, s>> \in StrictSubsetOrdering(D)
      BY <1>2, <2>1 DEF StrictSubsetOrdering
    <2>3. IsFiniteSet(Units(f, t))
      BY <1>2, <2>1, <2>2
    <2>4. IsFiniteSet(Units(f, {x}))
      BY <2>1, UnitsOfOne
    <2>5. Units(f, s) = Units(f, t) \cup Units(f, {x})
      BY UnitsSplit
    <2> QED BY <1>2, <2>3, <2>4, <2>5, FS_Union
  <1> QED BY <1>3, <1>4

\* A set counts what one element counts and what the others do.
LEMMA UnitsCount ==
    ASSUME NEW D, IsFiniteSet(D), NEW f, \A x \in D : f[x] \in Nat, NEW x \in D
    PROVE  /\ Cardinality(Units(f, D)) \in Nat /\ Cardinality(Units(f, D \ {x})) \in Nat
           /\ Cardinality(Units(f, D)) = f[x] + Cardinality(Units(f, D \ {x}))
  <1>1. IsFiniteSet(Units(f, D)) /\ IsFiniteSet(Units(f, D \ {x}))
    BY UnitsFinite
  <1>2. IsFiniteSet(Units(f, {x})) /\ Cardinality(Units(f, {x})) = f[x]
    BY UnitsOfOne
  <1>3. /\ Units(f, D) = Units(f, D \ {x}) \cup Units(f, {x})
        /\ Units(f, D \ {x}) \cap Units(f, {x}) = {}
    BY UnitsSplit
  <1>4. Cardinality(Units(f, D \ {x}) \cup Units(f, {x})) =
            Cardinality(Units(f, D \ {x})) + Cardinality(Units(f, {x}))
            - Cardinality(Units(f, D \ {x}) \cap Units(f, {x}))
    BY <1>1, <1>2, FS_Union
  <1>5. Cardinality(Units(f, D)) \in Nat /\ Cardinality(Units(f, D \ {x})) \in Nat
    BY <1>1, FS_CardinalityType
  <1>6. Cardinality(Units(f, D)) = Cardinality(Units(f, D \ {x})) + f[x] - Cardinality({})
    BY <1>2, <1>3, <1>4
  <1>7. Cardinality({}) = 0 /\ f[x] \in Nat
    BY FS_EmptySet
  <1> QED BY <1>5, <1>6, <1>7

\* The number of units satisfies the equation.
LEMMA CountSumsUp ==
    ASSUME NEW D, IsFiniteSet(D), NEW f, \A x \in D : f[x] \in Nat
    PROVE  SumsUp([s \in SUBSET D |-> Cardinality(Units(f, s))], f, D)
  <1> DEFINE g == [s \in SUBSET D |-> Cardinality(Units(f, s))]
             h == [s \in SUBSET D |-> IF s = {} THEN 0 ELSE f[Chosen(s)] + g[s \ {Chosen(s)}]]
  <1>1. ASSUME NEW s \in SUBSET D PROVE g[s] = h[s]
    <2>1. CASE s = {}
      <3>1. Units(f, s) = {}
        BY <2>1 DEF Units
      <3> QED BY <2>1, <3>1, FS_EmptySet
    <2>2. CASE s # {}
      <3> DEFINE x == Chosen(s)
      <3>1. x \in s
        BY <2>2 DEF Chosen
      <3>2. IsFiniteSet(s) /\ \A y \in s : f[y] \in Nat
        BY FS_Subset
      <3> HIDE DEF x
      <3>3. Cardinality(Units(f, s)) = f[x] + Cardinality(Units(f, s \ {x}))
        BY <3>1, <3>2, UnitsCount
      <3>4. s \ {x} \in SUBSET D
        OBVIOUS
      <3>5. g[s] = f[x] + g[s \ {x}]
        BY <3>3, <3>4
      <3> QED BY <2>2, <3>5 DEF x
    <2> QED BY <2>1, <2>2
  <1>2. g = h
    BY <1>1
  <1> QED BY <1>2 DEF SumsUp

\* Only one function does.
LEMMA SumsUpOnce ==
    ASSUME NEW D, IsFiniteSet(D), NEW f, NEW g, NEW h, SumsUp(g, f, D), SumsUp(h, f, D)
    PROVE  g[D] = h[D]
  <1> DEFINE Bad == {s \in SUBSET D : g[s] # h[s]}
  <1> SUFFICES ASSUME Bad # {} PROVE FALSE
    OBVIOUS
  <1>1. IsWellFoundedOn(StrictSubsetOrdering(D), SUBSET D)
    BY FS_StrictSubsetOrderingWellFounded, FS_FiniteSubsetsOfFinite
  <1>2. PICK s \in Bad : \A t \in Bad : ~ (<<t, s>> \in StrictSubsetOrdering(D))
    BY <1>1, WFMin
  <1>3. /\ g[s] = IF s = {} THEN 0 ELSE f[Chosen(s)] + g[s \ {Chosen(s)}]
        /\ h[s] = IF s = {} THEN 0 ELSE f[Chosen(s)] + h[s \ {Chosen(s)}]
    BY <1>2 DEF SumsUp
  <1>4. s # {} /\ g[s \ {Chosen(s)}] # h[s \ {Chosen(s)}]
    BY <1>2, <1>3
  <1>5. Chosen(s) \in s
    BY <1>4 DEF Chosen
  <1>6. s \ {Chosen(s)} \in Bad /\ <<s \ {Chosen(s)}, s>> \in StrictSubsetOrdering(D)
    BY <1>2, <1>4, <1>5 DEF StrictSubsetOrdering
  <1> QED BY <1>2, <1>6

\* A total is the number of units.
LEMMA TotalCounts ==
    ASSUME NEW f, IsFiniteSet(DOMAIN f), \A x \in DOMAIN f : f[x] \in Nat
    PROVE  Total(f) = Cardinality(Units(f, DOMAIN f))
  <1> DEFINE D == DOMAIN f
             g == [s \in SUBSET D |-> Cardinality(Units(f, s))]
             iter == CHOOSE it : it = [s \in SUBSET D |->
                       IF s = {} THEN 0 ELSE f[CHOOSE x \in s : TRUE] + it[s \ {CHOOSE x \in s : TRUE}]]
  <1>1. Total(f) = iter[D]
    BY DEF Total, MapThenSumSet, MapThenFoldSet
  <1>2. iter = CHOOSE it : SumsUp(it, f, D)
    BY DEF SumsUp, Chosen
  <1>3. SumsUp(g, f, D)
    BY CountSumsUp
  <1> HIDE DEF iter, g
  <1>4. SumsUp(iter, f, D)
    BY <1>2, <1>3
  <1>5. iter[D] = g[D]
    BY <1>3, <1>4, SumsUpOnce
  <1> QED BY <1>1, <1>5 DEF g

LEMMA TotalType ==
    ASSUME NEW f, IsFiniteSet(DOMAIN f), \A x \in DOMAIN f : f[x] \in Nat
    PROVE  Total(f) \in Nat
  <1>1. Total(f) = Cardinality(Units(f, DOMAIN f)) /\ IsFiniteSet(Units(f, DOMAIN f))
    BY TotalCounts, UnitsFinite
  <1> QED BY <1>1, FS_CardinalityType

Without(f, x) == [y \in DOMAIN f \ {x} |-> f[y]]

\* A total is made of one element's part and the total of the others.
LEMMA TotalSplit ==
    ASSUME NEW f, IsFiniteSet(DOMAIN f), \A y \in DOMAIN f : f[y] \in Nat, NEW x \in DOMAIN f
    PROVE  /\ Total(Without(f, x)) \in Nat
           /\ Total(f) = f[x] + Total(Without(f, x))
  <1> DEFINE D == DOMAIN f
             g == Without(f, x)
  <1>1. DOMAIN g = D \ {x} /\ \A y \in D \ {x} : g[y] = f[y]
    BY DEF Without
  <1> HIDE DEF g
  <1>2. IsFiniteSet(DOMAIN g) /\ \A y \in DOMAIN g : g[y] \in Nat
    BY <1>1, FS_Subset
  <1>3. Units(g, DOMAIN g) = Units(f, D \ {x})
    <2>1. \A p \in (D \ {x}) \X Nat : g[p[1]] = f[p[1]]
      BY <1>1
    <2> QED BY <1>1, <2>1 DEF Units
  <1>4. Total(f) = Cardinality(Units(f, D)) /\ Total(g) = Cardinality(Units(f, D \ {x}))
    BY <1>2, <1>3, TotalCounts
  <1>5. Total(g) \in Nat
    BY <1>2, TotalType
  <1>6. Cardinality(Units(f, D)) = f[x] + Cardinality(Units(f, D \ {x}))
    BY UnitsCount
  <1> QED BY <1>4, <1>5, <1>6 DEF g

Part(f, x) == IF x \in DOMAIN f THEN f[x] ELSE 0

\* Functions that differ at one element differ in total by what it counts.
LEMMA TotalDiffers ==
    ASSUME NEW f, IsFiniteSet(DOMAIN f), \A y \in DOMAIN f : f[y] \in Nat, f = [y \in DOMAIN f |-> f[y]],
           NEW g, IsFiniteSet(DOMAIN g), \A y \in DOMAIN g : g[y] \in Nat, g = [y \in DOMAIN g |-> g[y]],
           NEW x, DOMAIN f \ {x} = DOMAIN g \ {x}, \A y \in DOMAIN f \ {x} : f[y] = g[y]
    PROVE  Total(f) + Part(g, x) = Total(g) + Part(f, x)
  <1>1. Without(f, x) = Without(g, x)
    BY DEF Without
  <1>2. Total(f) = Part(f, x) + Total(Without(f, x)) /\ Total(Without(f, x)) \in Nat
    <2>1. CASE x \in DOMAIN f
      BY <2>1, TotalSplit DEF Part
    <2>2. CASE x \notin DOMAIN f
      <3>1. Without(f, x) = f
        BY <2>2 DEF Without
      <3> QED BY <2>2, <3>1, TotalType DEF Part
    <2> QED BY <2>1, <2>2
  <1>3. Total(g) = Part(g, x) + Total(Without(g, x))
    <2>1. CASE x \in DOMAIN g
      BY <2>1, TotalSplit DEF Part
    <2>2. CASE x \notin DOMAIN g
      <3>1. Without(g, x) = g
        BY <2>2 DEF Without
      <3> QED BY <2>2, <3>1, TotalType DEF Part
    <2> QED BY <2>1, <2>2
  <1>4. Part(f, x) \in Nat /\ Part(g, x) \in Nat
    BY DEF Part
  <1> QED BY <1>1, <1>2, <1>3, <1>4

-----------------------------------------------------------------------------
(* Messages in flight.                                                       *)

\* A finite bag of messages.
Messages(B) == IsABag(B) /\ IsFiniteSet(DOMAIN B) /\ DOMAIN B \subseteq Message

LEMMA BagAdded ==
    ASSUME NEW B, Messages(B), NEW m \in Message
    PROVE  LET C == B (+) SetToBag({m}) IN
           /\ Messages(C) /\ DOMAIN C = DOMAIN B \cup {m}
           /\ C[m] = Part(B, m) + 1 /\ \A n \in DOMAIN B \ {m} : C[n] = B[n]
  <1> DEFINE C == B (+) SetToBag({m})
  <1>1. DOMAIN C = DOMAIN B \cup {m} /\ C = [n \in DOMAIN C |-> C[n]]
    BY DEF (+), SetToBag
  <1>2. \A n \in DOMAIN B : B[n] \in Nat /\ B[n] > 0
    BY DEF Messages, IsABag
  <1>3. C[m] = Part(B, m) + 1 /\ \A n \in DOMAIN B \ {m} : C[n] = B[n]
    BY <1>2 DEF (+), SetToBag, Part
  <1>4. Part(B, m) \in Nat
    BY <1>2 DEF Part
  <1> HIDE DEF C
  <1>5. IsABag(C)
    BY <1>1, <1>2, <1>3, <1>4 DEF IsABag
  <1>6. IsFiniteSet(DOMAIN C)
    BY <1>1, FS_AddElement DEF Messages
  <1> QED BY <1>1, <1>3, <1>5, <1>6 DEF C, Messages

LEMMA BagRemoved ==
    ASSUME NEW B, Messages(B), NEW m \in DOMAIN B
    PROVE  LET C == B (-) SetToBag({m}) IN
           /\ Messages(C) /\ DOMAIN C \ {m} = DOMAIN B \ {m}
           /\ Part(C, m) + 1 = B[m] /\ \A n \in DOMAIN B \ {m} : C[n] = B[n]
  <1> DEFINE C == B (-) SetToBag({m})
             L == [n \in DOMAIN B |-> IF n = m THEN B[n] - 1 ELSE B[n]]
  <1>1. \A n \in DOMAIN B : B[n] \in Nat /\ B[n] > 0
    BY DEF Messages, IsABag
  <1>2. C = [n \in {o \in DOMAIN B : L[o] > 0} |-> L[n]]
    BY DEF (-), SetToBag
  <1> HIDE DEF C
  <1>3. DOMAIN C \ {m} = DOMAIN B \ {m} /\ \A n \in DOMAIN B \ {m} : C[n] = B[n]
    BY <1>1, <1>2
  <1>4. Part(C, m) + 1 = B[m]
    BY <1>1, <1>2 DEF Part
  <1>5. DOMAIN C \subseteq DOMAIN B /\ IsABag(C)
    BY <1>1, <1>2 DEF IsABag
  <1>6. IsFiniteSet(DOMAIN C)
    BY <1>5, FS_Subset DEF Messages
  <1> QED BY <1>3, <1>4, <1>5, <1>6 DEF C, Messages

Held(P, B) == [m \in DOMAIN B \cap P |-> m.value * B[m]]

LEMMA HeldType ==
    ASSUME NEW B, Messages(B), NEW P
    PROVE  /\ IsFiniteSet(DOMAIN Held(P, B)) /\ \A m \in DOMAIN Held(P, B) : Held(P, B)[m] \in Nat
           /\ Held(P, B) = [m \in DOMAIN Held(P, B) |-> Held(P, B)[m]]
           /\ Total(Held(P, B)) \in Nat
  <1>1. IsFiniteSet(DOMAIN Held(P, B))
    BY FS_Subset DEF Held, Messages
  <1>2. \A m \in DOMAIN Held(P, B) : Held(P, B)[m] \in Nat
    <2> SUFFICES ASSUME NEW m \in DOMAIN B \cap P PROVE m.value * B[m] \in Nat
      BY DEF Held
    <2>1. m.value \in Nat /\ B[m] \in Nat
      BY DEF Messages, IsABag, Message
    <2> QED BY <2>1
  <1>3. Held(P, B) = [m \in DOMAIN Held(P, B) |-> Held(P, B)[m]]
    BY DEF Held
  <1> QED BY <1>1, <1>2, <1>3, TotalType

\* A message more is its value more, where it is counted.
LEMMA HeldAdded ==
    ASSUME NEW B, Messages(B), NEW m \in Message, NEW P
    PROVE  Total(Held(P, B (+) SetToBag({m}))) = Total(Held(P, B)) + IF m \in P THEN m.value ELSE 0
  <1> DEFINE C == B (+) SetToBag({m})
             f == Held(P, B)
             g == Held(P, C)
  <1>1. /\ Messages(C) /\ DOMAIN C = DOMAIN B \cup {m}
        /\ C[m] = Part(B, m) + 1 /\ \A n \in DOMAIN B \ {m} : C[n] = B[n]
    BY BagAdded
  <1> HIDE DEF C
  <1>2. /\ IsFiniteSet(DOMAIN f) /\ (\A n \in DOMAIN f : f[n] \in Nat) /\ f = [n \in DOMAIN f |-> f[n]]
        /\ IsFiniteSet(DOMAIN g) /\ (\A n \in DOMAIN g : g[n] \in Nat) /\ g = [n \in DOMAIN g |-> g[n]]
        /\ Total(f) \in Nat /\ Total(g) \in Nat
    BY <1>1, HeldType
  <1>3. DOMAIN f \ {m} = DOMAIN g \ {m} /\ \A n \in DOMAIN f \ {m} : f[n] = g[n]
    BY <1>1 DEF Held
  <1>4. Part(f, m) \in Nat /\ Part(g, m) = Part(f, m) + IF m \in P THEN m.value ELSE 0
    <2>1. m.value \in Nat /\ (m \in DOMAIN B => B[m] \in Nat)
      BY DEF Message, Messages, IsABag
    <2>2. CASE m \in P /\ m \in DOMAIN B
      <3>1. C[m] = B[m] + 1
        BY <1>1, <2>2 DEF Part
      <3>2. m.value * (B[m] + 1) = m.value * B[m] + m.value
        BY <2>1, <2>2
      <3>3. Part(f, m) = m.value * B[m] /\ Part(g, m) = m.value * C[m]
        BY <1>1, <2>2 DEF Part, Held
      <3> QED BY <1>2, <2>1, <2>2, <3>1, <3>2, <3>3
    <2>3. CASE m \in P /\ m \notin DOMAIN B
      <3>1. C[m] = 1
        BY <1>1, <2>3 DEF Part
      <3>2. Part(f, m) = 0 /\ Part(g, m) = m.value * C[m]
        BY <1>1, <2>3 DEF Part, Held
      <3> QED BY <2>1, <2>3, <3>1, <3>2
    <2>4. CASE m \notin P
      BY <2>4 DEF Part, Held
    <2> QED BY <2>2, <2>3, <2>4
  <1> HIDE DEF f, g
  <1>5. Total(f) + Part(g, m) = Total(g) + Part(f, m)
    BY <1>2, <1>3, TotalDiffers
  <1>6. m.value \in Nat
    BY DEF Message
  <1>7. Total(g) = Total(f) + IF m \in P THEN m.value ELSE 0
    BY <1>2, <1>4, <1>5, <1>6
  <1> QED BY <1>7 DEF f, g, C

\* A message less is its value less.
LEMMA HeldRemoved ==
    ASSUME NEW B, Messages(B), NEW m \in DOMAIN B, NEW P
    PROVE  Total(Held(P, B)) =
               Total(Held(P, B (-) SetToBag({m}))) + IF m \in P THEN m.value ELSE 0
  <1> DEFINE C == B (-) SetToBag({m})
             f == Held(P, B)
             g == Held(P, C)
  <1>1. /\ Messages(C) /\ DOMAIN C \ {m} = DOMAIN B \ {m}
        /\ Part(C, m) + 1 = B[m] /\ \A n \in DOMAIN B \ {m} : C[n] = B[n]
    BY BagRemoved
  <1> HIDE DEF C
  <1>2. /\ IsFiniteSet(DOMAIN f) /\ (\A n \in DOMAIN f : f[n] \in Nat) /\ f = [n \in DOMAIN f |-> f[n]]
        /\ IsFiniteSet(DOMAIN g) /\ (\A n \in DOMAIN g : g[n] \in Nat) /\ g = [n \in DOMAIN g |-> g[n]]
        /\ Total(f) \in Nat /\ Total(g) \in Nat
    BY <1>1, HeldType
  <1>3. DOMAIN f \ {m} = DOMAIN g \ {m}
    BY <1>1 DEF Held
  <1>4. \A n \in DOMAIN f \ {m} : f[n] = g[n]
    BY <1>1 DEF Held
  <1>5. Part(g, m) \in Nat /\ Part(f, m) = Part(g, m) + IF m \in P THEN m.value ELSE 0
    <2>1. m.value \in Nat /\ B[m] \in Nat /\ (m \in DOMAIN C => C[m] \in Nat)
      BY <1>1 DEF Message, Messages, IsABag
    <2>2. CASE m \in P /\ m \in DOMAIN C
      <3>1. B[m] = C[m] + 1
        BY <1>1, <2>1, <2>2 DEF Part
      <3>2. m.value * (C[m] + 1) = m.value * C[m] + m.value
        BY <2>1, <2>2
      <3>3. Part(f, m) = m.value * B[m] /\ Part(g, m) = m.value * C[m]
        BY <2>2 DEF Part, Held
      <3> QED BY <1>2, <2>1, <2>2, <3>1, <3>2, <3>3
    <2>3. CASE m \in P /\ m \notin DOMAIN C
      <3>1. B[m] = 1
        BY <1>1, <2>1, <2>3 DEF Part
      <3>2. Part(g, m) = 0 /\ Part(f, m) = m.value * B[m]
        BY <2>3 DEF Part, Held
      <3> QED BY <2>1, <2>3, <3>1, <3>2
    <2>4. CASE m \notin P
      BY <2>4 DEF Part, Held
    <2> QED BY <2>2, <2>3, <2>4
  <1> HIDE DEF f, g
  <1>6. Total(f) + Part(g, m) = Total(g) + Part(f, m)
    BY <1>2, <1>3, <1>4, TotalDiffers
  <1>7. m.value \in Nat
    BY DEF Message, Messages
  <1>8. Total(f) = Total(g) + IF m \in P THEN m.value ELSE 0
    BY <1>2, <1>5, <1>6, <1>7
  <1> QED BY <1>8 DEF f, g, C

-----------------------------------------------------------------------------
(* Types.                                                                    *)

Typed == TypeOK /\ Messages(in_flight)

\* What emit_transfer sends is one message more.
LEMMA Emitted ==
    ASSUME Messages(in_flight), NEW kind \in {"refund", "payout"}, NEW to \in Accounts,
           NEW value \in Nat, emit_transfer(kind, to, value)
    PROVE  /\ Messages(in_flight')
           /\ \A P : Total(Held(P, in_flight')) = Total(Held(P, in_flight)) +
                 IF [kind |-> kind, to |-> to, value |-> value] \in P THEN value ELSE 0
  <1> DEFINE m == [kind |-> kind, to |-> to, value |-> value]
  <1>1. m \in Message /\ m.value = value
    BY DEF Message
  <1>2. in_flight' = in_flight (+) SetToBag({m})
    BY DEF emit_transfer
  <1> HIDE DEF m
  <1>3. Messages(in_flight')
    BY <1>1, <1>2, BagAdded
  <1>4. \A P : Total(Held(P, in_flight')) = Total(Held(P, in_flight)) + IF m \in P THEN value ELSE 0
    BY <1>1, <1>2, HeldAdded
  <1> QED BY <1>3, <1>4 DEF m

\* The value of a call is of its sender's type.
LEMMA Received ==
    ASSUME Typed, NEW sender \in Accounts, NEW paid \in Nat, Receive(sender, paid)
    PROVE  /\ balance' \in Nat /\ calls' \in 0..MaxCalls /\ paid_out' \in Nat
           /\ received' \in [Accounts -> Nat] /\ returned' \in [Accounts -> Nat]
           /\ prudent' \in BOOLEAN
  <1>1. balance \in Nat /\ calls \in 0..MaxCalls /\ received \in [Accounts -> Nat] /\ MaxCalls \in Nat
    BY VerifierAssumption DEF Typed, TypeOK
  <1>2. received' \in [Accounts -> Nat]
    BY <1>1 DEF Receive
  <1>3. balance' \in Nat /\ calls' \in 0..MaxCalls
    BY <1>1 DEF Receive
  <1> QED BY <1>2, <1>3 DEF Receive, Typed, TypeOK

LEMMA Refused ==
    ASSUME Typed, NEW sender \in Accounts, NEW paid \in Nat, NEW reason \in Reasons,
           _refuse(sender, paid, reason)
    PROVE  /\ Messages(in_flight')
           /\ DOMAIN refusals' \subseteq Accounts /\ refusals' \in [DOMAIN refusals' -> Reasons]
           /\ UNCHANGED <<records, record_count, ids_of>>
  <1>1. refusals' = Put(refusals, sender, reason) /\ UNCHANGED <<records, record_count, ids_of>>
    BY DEF _refuse
  <1>2. DOMAIN refusals' \subseteq Accounts /\ refusals' \in [DOMAIN refusals' -> Reasons]
    BY <1>1 DEF Put, Typed, TypeOK
  <1>3. Messages(in_flight')
    BY Emitted DEF _refuse, Typed
  <1> QED BY <1>1, <1>2, <1>3

LEMMA Stored ==
    ASSUME Typed, NEW sender \in Accounts, NEW record \in Attestation, Store(sender, record)
    PROVE  /\ record_count' \in Nat
           /\ DOMAIN records' \subseteq Nat /\ records' \in [DOMAIN records' -> Attestation]
           /\ DOMAIN ids_of' \subseteq Accounts /\ ids_of' \in [DOMAIN ids_of' -> Seq(Nat)]
           /\ UNCHANGED <<refusals, in_flight>>
  <1>1. GetOr(ids_of, sender, <<>>) \in Seq(Nat)
    BY DEF GetOr, Has, Typed, TypeOK
  <1>2. record_count \in Nat /\ Append(GetOr(ids_of, sender, <<>>), record_count) \in Seq(Nat)
    BY <1>1 DEF Typed, TypeOK
  <1>3. DOMAIN ids_of' \subseteq Accounts /\ ids_of' \in [DOMAIN ids_of' -> Seq(Nat)]
    BY <1>2 DEF Store, Put, Typed, TypeOK
  <1>4. DOMAIN records' \subseteq Nat /\ records' \in [DOMAIN records' -> Attestation]
    BY <1>2 DEF Store, Put, Typed, TypeOK
  <1> QED BY <1>2, <1>3, <1>4 DEF Store

LEMMA AttestTyped ==
    ASSUME Typed, NEW sender \in Accounts, NEW paid \in Nat, NEW request \in AllRequests,
           attest(sender, paid, request)
    PROVE  Typed'
  <1> DEFINE reason == Reason(paid, request)
             record == [valid |-> request.verdict = VALID, requester |-> sender, fee_paid |-> paid]
  <1>1. /\ Receive(sender, paid)
        /\ \/ reason # NO_REASON /\ _refuse(sender, paid, reason)
           \/ reason = NO_REASON /\ Store(sender, record)
        /\ UNCHANGED <<ownershipVars, treasuryVars, fee_wei>>
    BY DEF attest
  <1>2. reason \in Reasons \cup {NO_REASON} /\ record \in Attestation
    BY DEF Reason, Reasons, Attestation
  <1> HIDE DEF reason, record
  <1>3. /\ balance' \in Nat /\ calls' \in 0..MaxCalls /\ paid_out' \in Nat
        /\ received' \in [Accounts -> Nat] /\ returned' \in [Accounts -> Nat]
        /\ prudent' \in BOOLEAN
    BY <1>1, Received
  <1>4. /\ Messages(in_flight') /\ record_count' \in Nat
        /\ DOMAIN records' \subseteq Nat /\ records' \in [DOMAIN records' -> Attestation]
        /\ DOMAIN ids_of' \subseteq Accounts /\ ids_of' \in [DOMAIN ids_of' -> Seq(Nat)]
        /\ DOMAIN refusals' \subseteq Accounts /\ refusals' \in [DOMAIN refusals' -> Reasons]
    <2>1. CASE reason # NO_REASON /\ _refuse(sender, paid, reason)
      <3>1. reason \in Reasons
        BY <1>2, <2>1
      <3>2. /\ Messages(in_flight')
            /\ DOMAIN refusals' \subseteq Accounts /\ refusals' \in [DOMAIN refusals' -> Reasons]
            /\ UNCHANGED <<records, record_count, ids_of>>
        BY <2>1, <3>1, Refused
      <3> QED BY <3>2 DEF Typed, TypeOK
    <2>2. CASE reason = NO_REASON /\ Store(sender, record)
      <3>1. /\ record_count' \in Nat
            /\ DOMAIN records' \subseteq Nat /\ records' \in [DOMAIN records' -> Attestation]
            /\ DOMAIN ids_of' \subseteq Accounts /\ ids_of' \in [DOMAIN ids_of' -> Seq(Nat)]
            /\ UNCHANGED <<refusals, in_flight>>
        BY <1>2, <2>2, Stored
      <3> QED BY <3>1 DEF Typed, TypeOK
    <2> QED BY <1>1, <2>1, <2>2
  <1>5. UNCHANGED <<owner_address, pending_owner_address, proposed_by,
                    treasury_address, pending_treasury_address, fee_wei>>
    BY <1>1 DEF ownershipVars, treasuryVars
  <1>6. IsABag(in_flight') /\ BagToSet(in_flight') \subseteq Message
    BY <1>4 DEF Messages, BagToSet
  <1> QED BY <1>3, <1>4, <1>5, <1>6 DEF Typed, TypeOK, OwnershipTypeOK

\* A message that leaves, whatever else the balance and the history become.
LEMMA EmissionTyped ==
    ASSUME Typed, NEW kind \in {"refund", "payout"}, NEW to \in Accounts, NEW value \in Nat,
           emit_transfer(kind, to, value), UNCHANGED <<ownershipVars, treasuryVars, fee_wei, storeVars>>,
           balance' \in Nat, calls' \in 0..MaxCalls, paid_out' \in Nat,
           received' \in [Accounts -> Nat], returned' \in [Accounts -> Nat], prudent' \in BOOLEAN
    PROVE  Typed'
  <1>1. Messages(in_flight')
    BY Emitted DEF Typed
  <1>2. IsABag(in_flight') /\ BagToSet(in_flight') \subseteq Message
    BY <1>1 DEF Messages, BagToSet
  <1>3. UNCHANGED <<owner_address, pending_owner_address, proposed_by,
                    treasury_address, pending_treasury_address, fee_wei,
                    records, record_count, ids_of, refusals>>
    BY DEF ownershipVars, treasuryVars, storeVars
  <1> QED BY <1>1, <1>2, <1>3 DEF Typed, TypeOK, OwnershipTypeOK

LEMMA SettleTyped ==
    ASSUME Typed, NEW message \in BagToSet(in_flight), Settle(message)
    PROVE  Typed'
  <1>1. message \in DOMAIN in_flight /\ message \in Message /\ balance \in Nat /\ paid_out \in Nat
    BY DEF Typed, TypeOK, BagToSet
  <1>2. message.value \in Nat /\ message.to \in Accounts
    BY <1>1 DEF Message
  <1>3. Messages(in_flight')
    BY <1>1, BagRemoved DEF Settle, Typed
  <1>4. IsABag(in_flight') /\ BagToSet(in_flight') \subseteq Message
    BY <1>3 DEF Messages, BagToSet
  <1>5. balance' \in Nat
    BY <1>1, <1>2 DEF Settle
  <1>6. paid_out' \in Nat
    BY <1>1, <1>2 DEF Settle
  <1>7. returned' \in [Accounts -> Nat]
    <2>1. returned \in [Accounts -> Nat] /\ returned[message.to] + message.value \in Nat
      BY <1>2 DEF Typed, TypeOK
    <2>2. \/ returned' = [returned EXCEPT ![message.to] = returned[message.to] + message.value]
          \/ returned' = returned
      BY DEF Settle
    <2> QED BY <2>1, <2>2
  <1>8. UNCHANGED <<owner_address, pending_owner_address, proposed_by,
                    treasury_address, pending_treasury_address, fee_wei,
                    records, record_count, ids_of, refusals, received, calls, prudent>>
    BY DEF Settle, ownershipVars, treasuryVars, storeVars
  <1> QED BY <1>3, <1>4, <1>5, <1>6, <1>7, <1>8 DEF Typed, TypeOK, OwnershipTypeOK

\* The owner's and the treasury's calls but withdraw.
Governance ==
    \E sender \in Accounts :
        \/ \E new_fee \in Fees : set_fee(sender, new_fee)
        \/ \E candidate \in Accounts \cup {ZERO_ADDRESS} :
             propose_treasury(sender, candidate) \/ propose_owner(sender, candidate)
        \/ accept_treasury(sender)
        \/ accept_owner(sender)

LEMMA GovernanceTyped ==
    ASSUME Typed, Governance
    PROVE  Typed' /\ UNCHANGED <<storeVars, moneyVars>>
  <1>1. UNCHANGED <<storeVars, moneyVars>>
    BY DEF Governance, set_fee, propose_treasury, propose_owner, accept_treasury, accept_owner
  <1>2. OwnershipTypeOK'
    BY DEF Governance, set_fee, propose_treasury, propose_owner, accept_treasury, accept_owner,
           ProposeOwner, AcceptOwner, OwnershipTypeOK, ownershipVars, Typed, TypeOK
  <1>3. treasury_address' \in Accounts /\ pending_treasury_address' \in Accounts \cup {ZERO_ADDRESS}
    BY DEF Governance, set_fee, propose_treasury, propose_owner, accept_treasury, accept_owner,
           IsPendingTreasury, treasuryVars, Typed, TypeOK
  <1>4. fee_wei' \in Nat
    BY VerifierAssumption
    DEF Governance, set_fee, propose_treasury, propose_owner, accept_treasury, accept_owner,
        Typed, TypeOK
  <1>5. UNCHANGED <<records, record_count, ids_of, refusals, balance, in_flight, received, returned,
                    paid_out, calls, prudent>>
    BY <1>1 DEF storeVars, moneyVars
  <1>6. Typed'
    BY <1>2, <1>3, <1>4, <1>5 DEF Typed, TypeOK, Messages, BagToSet
  <1> QED BY <1>1, <1>6

\* The ways of a step.
LEMMA Steps ==
    ASSUME [Next]_vars
    PROVE  \/ \E sender \in Accounts, paid \in Nat, request \in AllRequests : attest(sender, paid, request)
           \/ \E sender \in Accounts, paid \in Nat : Unexecuted(sender, paid)
           \/ \E sender \in Accounts, amount \in Nat : withdraw(sender, amount)
           \/ \E message \in BagToSet(in_flight) : Settle(message)
           \/ Governance
           \/ UNCHANGED vars
  <1>1. Values \subseteq Nat /\ Amounts \subseteq Nat /\ Requests \subseteq AllRequests
    BY VerifierAssumption
  <1> QED BY <1>1 DEF Next, CallButWithdraw, Finalize, Governance

LEMMA TypedInitially == Init => Typed
  <1> SUFFICES ASSUME Init PROVE Typed
    OBVIOUS
  <1>1. IsABag(in_flight) /\ DOMAIN in_flight = {}
    BY DEF Init, EmptyBag, SetToBag, IsABag
  <1>2. Messages(in_flight) /\ BagToSet(in_flight) \subseteq Message
    BY <1>1, FS_EmptySet DEF Messages, BagToSet
  <1>3. OwnershipTypeOK
    BY OwnershipAssumption DEF Init, OwnershipInit, OwnershipTypeOK
  <1>4. calls \in 0..MaxCalls
    BY VerifierAssumption DEF Init
  <1> QED BY <1>1, <1>2, <1>3, <1>4, OwnershipAssumption DEF Init, Typed, TypeOK, EmptyMap

LEMMA TypedSteps == Typed /\ [Next]_vars => Typed'
  <1> SUFFICES ASSUME Typed, [Next]_vars PROVE Typed'
    OBVIOUS
  <1>1. ASSUME NEW sender \in Accounts, NEW paid \in Nat, NEW request \in AllRequests,
               attest(sender, paid, request)
        PROVE  Typed'
    BY <1>1, AttestTyped
  <1>2. ASSUME NEW sender \in Accounts, NEW paid \in Nat, Unexecuted(sender, paid)
        PROVE  Typed'
    BY <1>2, Received, EmissionTyped DEF Unexecuted
  <1>3. ASSUME NEW sender \in Accounts, NEW amount \in Nat, withdraw(sender, amount)
        PROVE  Typed'
    <2>1. /\ treasury_address \in Accounts /\ emit_transfer("payout", treasury_address, amount)
          /\ UNCHANGED <<ownershipVars, treasuryVars, fee_wei, storeVars>>
      BY <1>3 DEF withdraw, Typed, TypeOK
    <2>2. /\ balance' \in Nat /\ calls' \in 0..MaxCalls /\ paid_out' \in Nat
          /\ received' \in [Accounts -> Nat] /\ returned' \in [Accounts -> Nat]
          /\ prudent' \in BOOLEAN
      BY <1>3 DEF withdraw, Typed, TypeOK
    <2> QED BY <2>1, <2>2, EmissionTyped
  <1>4. ASSUME NEW message \in BagToSet(in_flight), Settle(message)
        PROVE  Typed'
    BY <1>4, SettleTyped
  <1>5. ASSUME Governance PROVE Typed'
    BY <1>5, GovernanceTyped
  <1>6. ASSUME UNCHANGED vars PROVE Typed'
    BY <1>6 DEF vars, ownershipVars, treasuryVars, storeVars, moneyVars, Typed, TypeOK,
                OwnershipTypeOK, Messages, BagToSet
  <1> QED BY <1>1, <1>2, <1>3, <1>4, <1>5, <1>6, Steps

\* Every variable keeps its type, and what is in flight stays a finite bag.
THEOREM VerifierIsTyped == Spec => []Typed
  BY TypedInitially, TypedSteps, PTL DEF Spec

\* The Verifier's type invariant, for any number of accounts, calls and
\* messages: in particular the balance of Settle never goes below zero.
THEOREM VerifierTypeOK == Spec => []TypeOK
  <1>1. Typed => TypeOK
    BY DEF Typed
  <1> QED BY <1>1, VerifierIsTyped, PTL

-----------------------------------------------------------------------------
(* Records and ids.                                                          *)

LEMMA StoreKeepsIds ==
    ASSUME Typed, IdsAgree, NEW sender \in Accounts, NEW record \in Attestation,
           record.requester = sender, Store(sender, record)
    PROVE  IdsAgree'
  <1> DEFINE n == record_count
             ids == GetOr(ids_of, sender, <<>>)
  <1>1. n \in Nat /\ DOMAIN records = 0..(n - 1) /\ ids_of \in [DOMAIN ids_of -> Seq(Nat)]
    BY DEF Typed, TypeOK, IdsAgree
  <1>2. ids \in Seq(Nat) /\ (sender \in DOMAIN ids_of => ids = ids_of[sender])
        /\ (sender \notin DOMAIN ids_of => ids = <<>>)
    BY <1>1 DEF GetOr, Has
  <1>3. /\ DOMAIN records' = DOMAIN records \cup {n} /\ records'[n] = record
        /\ \A id \in DOMAIN records : records'[id] = records[id] /\ id # n
    BY <1>1 DEF Store, Put
  <1>4. /\ DOMAIN ids_of' = DOMAIN ids_of \cup {sender} /\ ids_of'[sender] = Append(ids, n)
        /\ \A a \in DOMAIN ids_of \ {sender} : ids_of'[a] = ids_of[a]
    BY DEF Store, Put
  <1>5. /\ DOMAIN Append(ids, n) = 1..(Len(ids) + 1) /\ DOMAIN ids = 1..Len(ids) /\ Len(ids) \in Nat
        /\ Append(ids, n)[Len(ids) + 1] = n /\ \A i \in 1..Len(ids) : Append(ids, n)[i] = ids[i]
    BY <1>1, <1>2
  <1>6. \A i \in DOMAIN ids :
            /\ ids[i] \in DOMAIN records /\ records[ids[i]].requester = sender
            /\ \A j \in DOMAIN ids : i < j => ids[i] < ids[j]
    BY <1>2, <1>5 DEF IdsAgree
  <1>7. DOMAIN records' = 0..(record_count' - 1)
    <2>1. record_count' = n + 1
      BY DEF Store
    <2> QED BY <1>1, <1>3, <2>1
  <1>8. ASSUME NEW id \in DOMAIN records'
        PROVE  id \in Range(GetOr(ids_of', records'[id].requester, <<>>))
    <2>1. CASE id = n
      <3>1. id = ids_of'[sender][Len(ids) + 1] /\ Len(ids) + 1 \in DOMAIN ids_of'[sender]
        BY <1>4, <1>5, <2>1
      <3>2. GetOr(ids_of', records'[id].requester, <<>>) = ids_of'[sender]
        BY <1>3, <1>4, <2>1 DEF GetOr, Has
      <3> QED BY <3>1, <3>2 DEF Range
    <2>2. CASE id \in DOMAIN records /\ records[id].requester = sender
      <3>1. PICK i \in DOMAIN ids : id = ids[i]
        BY <2>2 DEF IdsAgree, Range
      <3>2. id = ids_of'[sender][i] /\ i \in DOMAIN ids_of'[sender]
        BY <1>4, <1>5, <3>1
      <3>3. GetOr(ids_of', records'[id].requester, <<>>) = ids_of'[sender]
        BY <1>3, <1>4, <2>2 DEF GetOr, Has
      <3> QED BY <3>2, <3>3 DEF Range
    <2>3. CASE id \in DOMAIN records /\ records[id].requester # sender
      <3>1. GetOr(ids_of', records'[id].requester, <<>>) = GetOr(ids_of, records[id].requester, <<>>)
        BY <1>3, <1>4, <2>3 DEF GetOr, Has
      <3> QED BY <2>3, <3>1 DEF IdsAgree
    <2> QED BY <1>3, <2>1, <2>2, <2>3
  <1>9. ASSUME NEW a \in DOMAIN ids_of', NEW i \in DOMAIN ids_of'[a]
        PROVE  /\ ids_of'[a][i] \in DOMAIN records' /\ records'[ids_of'[a][i]].requester = a
               /\ \A j \in DOMAIN ids_of'[a] : i < j => ids_of'[a][i] < ids_of'[a][j]
    <2>1. CASE a # sender
      <3>1. a \in DOMAIN ids_of /\ ids_of'[a] = ids_of[a]
        BY <1>4, <2>1
      <3>2. /\ ids_of[a][i] \in DOMAIN records /\ records[ids_of[a][i]].requester = a
            /\ \A j \in DOMAIN ids_of[a] : i < j => ids_of[a][i] < ids_of[a][j]
        BY <3>1 DEF IdsAgree
      <3> QED BY <1>3, <3>1, <3>2
    <2>2. CASE a = sender /\ i = Len(ids) + 1
      <3>1. ids_of'[a][i] = n /\ \A j \in DOMAIN ids_of'[a] : ~ (i < j)
        BY <1>4, <1>5, <2>2
      <3> QED BY <1>3, <2>2, <3>1
    <2>3. CASE a = sender /\ i # Len(ids) + 1
      <3>1. i \in DOMAIN ids /\ ids_of'[a][i] = ids[i]
        BY <1>4, <1>5, <2>3
      <3>2. ASSUME NEW j \in DOMAIN ids_of'[a], i < j PROVE ids_of'[a][i] < ids_of'[a][j]
        <4>1. CASE j \in DOMAIN ids
          <5>1. ids_of'[a][j] = ids[j]
            BY <1>4, <1>5, <2>3, <4>1
          <5> QED BY <1>6, <3>1, <3>2, <4>1, <5>1
        <4>2. CASE j = Len(ids) + 1
          <5>1. ids_of'[a][j] = n
            BY <1>4, <1>5, <2>3, <4>2
          <5>2. ids[i] < n
            BY <1>1, <1>6, <3>1
          <5> QED BY <3>1, <5>1, <5>2
        <4> QED BY <1>4, <1>5, <2>3, <4>1, <4>2
      <3> QED BY <1>3, <1>6, <2>3, <3>1, <3>2
    <2> QED BY <2>1, <2>2, <2>3
  <1> QED BY <1>7, <1>8, <1>9 DEF IdsAgree

\* However many calls there were: the ids are those below the count, each is
\* in its requester's list once, and each list is in the order of the calls.
THEOREM VerifierIdsAgree == Spec => []IdsAgree
  <1>1. Init => IdsAgree
    BY DEF Init, IdsAgree, EmptyMap
  <1>2. ASSUME Typed, IdsAgree, [Next]_vars PROVE IdsAgree'
    <2>1. ASSUME NEW sender \in Accounts, NEW paid \in Nat, NEW request \in AllRequests,
                 attest(sender, paid, request)
          PROVE  IdsAgree'
      <3> DEFINE record == [valid |-> request.verdict = VALID, requester |-> sender, fee_paid |-> paid]
      <3>1. CASE UNCHANGED <<records, record_count, ids_of>>
        BY <1>2, <3>1 DEF IdsAgree
      <3>2. CASE Store(sender, record)
        <4>1. record \in Attestation /\ record.requester = sender
          BY DEF Attestation
        <4> QED BY <1>2, <3>2, <4>1, StoreKeepsIds
      <3> QED BY <2>1, <3>1, <3>2 DEF attest, _refuse
    <2>2. CASE UNCHANGED <<records, record_count, ids_of>>
      BY <1>2, <2>2 DEF IdsAgree
    <2>3. ASSUME Governance \/ UNCHANGED vars PROVE UNCHANGED <<records, record_count, ids_of>>
      BY <1>2, <2>3, GovernanceTyped DEF vars, storeVars
    <2> QED BY <1>2, <2>1, <2>2, <2>3, Steps DEF Unexecuted, withdraw, Settle, storeVars
  <1> QED BY <1>1, <1>2, VerifierIsTyped, PTL DEF Spec

-----------------------------------------------------------------------------
(* What each account sent.                                                   *)

\* What goes back to a.
RefundsTo(a) == {m \in Message : m.kind = "refund" /\ m.to = a}

\* The records a made, in the store recs, and what each kept.
FeesIn(recs, a) == [id \in {id \in DOMAIN recs : recs[id].requester = a} |-> recs[id].fee_paid]

\* NoThirdOutcome over what the steps change.
Accounted(sent, recs, came, flying) ==
    \A a \in Accounts : sent[a] = Total(FeesIn(recs, a)) + came[a] + Total(Held(RefundsTo(a), flying))

\* The books: what the steps keep in balance.
Books == Accounted(received, records, returned, in_flight)

\* The two say the same.
LEMMA BooksAreNoThirdOutcome ==
    ASSUME Messages(in_flight)
    PROVE  Books <=> NoThirdOutcome
  <1>1. ASSUME NEW a \in Accounts PROVE Total(FeesIn(records, a)) = FeesKept(a)
    BY DEF FeesIn, FeesKept, RecordsOf
  <1>2. ASSUME NEW a \in Accounts PROVE Total(Held(RefundsTo(a), in_flight)) = SumOf(OwedTo(a))
    <2>1. DOMAIN in_flight \cap RefundsTo(a) = OwedTo(a)
      BY DEF Messages, RefundsTo, OwedTo, InFlight, BagToSet
    <2> QED BY <2>1 DEF Held, SumOf
  <1> QED BY <1>1, <1>2 DEF Books, Accounted, NoThirdOutcome

LEMMA FeesInType ==
    ASSUME Typed, IdsAgree, NEW a
    PROVE  /\ IsFiniteSet(DOMAIN FeesIn(records, a))
           /\ \A id \in DOMAIN FeesIn(records, a) : FeesIn(records, a)[id] \in Nat
           /\ FeesIn(records, a) = [id \in DOMAIN FeesIn(records, a) |-> FeesIn(records, a)[id]]
           /\ Total(FeesIn(records, a)) \in Nat
  <1>1. IsFiniteSet(0..(record_count - 1))
    <2>1. record_count - 1 \in Int
      BY DEF Typed, TypeOK
    <2> QED BY <2>1, FS_Interval
  <1>2. IsFiniteSet(DOMAIN FeesIn(records, a))
    <2>1. DOMAIN FeesIn(records, a) \subseteq 0..(record_count - 1)
      BY DEF IdsAgree, FeesIn
    <2> QED BY <1>1, <2>1, FS_Subset
  <1>3. \A id \in DOMAIN FeesIn(records, a) : FeesIn(records, a)[id] \in Nat
    <2>1. \A id \in DOMAIN records : records[id].fee_paid \in Nat
      BY DEF Typed, TypeOK, Attestation
    <2> QED BY <2>1 DEF FeesIn
  <1>4. FeesIn(records, a) = [id \in DOMAIN FeesIn(records, a) |-> FeesIn(records, a)[id]]
    BY DEF FeesIn
  <1> QED BY <1>2, <1>3, <1>4, TotalType

\* A record adds what its call carried to its requester's fees.
LEMMA StoreKeepsFees ==
    ASSUME Typed, IdsAgree, Typed', IdsAgree', NEW sender \in Accounts, NEW record \in Attestation,
           record.requester = sender, Store(sender, record), NEW a \in Accounts
    PROVE  Total(FeesIn(records', a)) =
               Total(FeesIn(records, a)) + IF a = sender THEN record.fee_paid ELSE 0
  <1> DEFINE n == record_count
             f == FeesIn(records, a)
             g == FeesIn(records', a)
  <1>1. n \notin DOMAIN records
    BY DEF IdsAgree, Typed, TypeOK
  <1>2. /\ DOMAIN records' = DOMAIN records \cup {n} /\ records'[n] = record
        /\ \A id \in DOMAIN records : records'[id] = records[id]
    BY <1>1 DEF Store, Put
  <1>3. /\ IsFiniteSet(DOMAIN f) /\ (\A id \in DOMAIN f : f[id] \in Nat) /\ f = [id \in DOMAIN f |-> f[id]]
        /\ Total(f) \in Nat
    BY FeesInType
  <1>4. /\ IsFiniteSet(DOMAIN g) /\ (\A id \in DOMAIN g : g[id] \in Nat) /\ g = [id \in DOMAIN g |-> g[id]]
        /\ Total(g) \in Nat
    <2>1. IsFiniteSet(0..(record_count' - 1))
      <3>1. record_count' - 1 \in Int
        BY DEF Typed, TypeOK
      <3> QED BY <3>1, FS_Interval
    <2>2. IsFiniteSet(DOMAIN g)
      <3>1. DOMAIN g \subseteq 0..(record_count' - 1)
        BY DEF IdsAgree, FeesIn
      <3> QED BY <2>1, <3>1, FS_Subset
    <2>3. \A id \in DOMAIN g : g[id] \in Nat
      <3>1. \A id \in DOMAIN records' : records'[id].fee_paid \in Nat
        BY DEF Typed, TypeOK, Attestation
      <3> QED BY <3>1 DEF FeesIn
    <2>4. g = [id \in DOMAIN g |-> g[id]]
      BY DEF FeesIn
    <2> QED BY <2>2, <2>3, <2>4, TotalType
  <1>5. DOMAIN f \ {n} = DOMAIN g \ {n} /\ \A id \in DOMAIN f \ {n} : f[id] = g[id]
    BY <1>2 DEF FeesIn
  <1>6. Part(f, n) = 0 /\ Part(g, n) = IF a = sender THEN record.fee_paid ELSE 0
    BY <1>1, <1>2 DEF FeesIn, Part
  <1>7. record.fee_paid \in Nat
    BY DEF Attestation
  <1> HIDE DEF f, g
  <1>8. Total(f) + Part(g, n) = Total(g) + Part(f, n)
    BY <1>3, <1>4, <1>5, TotalDiffers
  <1>9. Total(g) = Total(f) + IF a = sender THEN record.fee_paid ELSE 0
    BY <1>3, <1>4, <1>6, <1>7, <1>8
  <1> QED BY <1>9 DEF f, g

LEMMA BooksInitially == Init => Books
  <1> SUFFICES ASSUME Init, NEW a \in Accounts
               PROVE  received[a] = Total(FeesIn(records, a)) + returned[a] + Total(Held(RefundsTo(a), in_flight))
    BY DEF Books, Accounted
  <1>1. DOMAIN FeesIn(records, a) = {} /\ DOMAIN Held(RefundsTo(a), in_flight) = {}
    BY DEF Init, EmptyMap, EmptyBag, SetToBag, FeesIn, Held
  <1>2. ASSUME NEW f, DOMAIN f = {} PROVE Total(f) = 0
    <2>1. Units(f, DOMAIN f) = {} /\ IsFiniteSet(DOMAIN f)
      BY <1>2, FS_EmptySet DEF Units
    <2> QED BY <1>2, <2>1, TotalCounts, FS_EmptySet
  <1>3. Total(FeesIn(records, a)) = 0 /\ Total(Held(RefundsTo(a), in_flight)) = 0
    BY <1>1, <1>2
  <1> QED BY <1>3 DEF Init

\* A message that goes back is what its receiver was not kept.
LEMMA EmissionBooked ==
    ASSUME Typed, IdsAgree, Books, NEW sender \in Accounts, NEW paid \in Nat,
           emit_transfer("refund", sender, paid), Receive(sender, paid), UNCHANGED records
    PROVE  Books'
  <1> SUFFICES ASSUME NEW a \in Accounts
               PROVE  received'[a] = Total(FeesIn(records', a)) + returned'[a]
                                     + Total(Held(RefundsTo(a), in_flight'))
    BY DEF Books, Accounted
  <1> DEFINE m == [kind |-> "refund", to |-> sender, value |-> paid]
  <1>1. Total(Held(RefundsTo(a), in_flight')) =
            Total(Held(RefundsTo(a), in_flight)) + IF m \in RefundsTo(a) THEN paid ELSE 0
    BY Emitted DEF Typed
  <1>2. m \in RefundsTo(a) <=> a = sender
    BY DEF RefundsTo, Message
  <1>3. received'[a] = received[a] + IF a = sender THEN paid ELSE 0
    BY DEF Receive, Typed, TypeOK
  <1>4. returned' = returned /\ records' = records
    BY DEF Receive
  <1>5. /\ received[a] \in Nat /\ returned[a] \in Nat
        /\ Total(FeesIn(records, a)) \in Nat /\ Total(Held(RefundsTo(a), in_flight)) \in Nat
    BY FeesInType, HeldType DEF Typed, TypeOK
  <1>6. received[a] = Total(FeesIn(records, a)) + returned[a] + Total(Held(RefundsTo(a), in_flight))
    BY DEF Books, Accounted
  <1> HIDE DEF m
  <1> QED BY <1>1, <1>2, <1>3, <1>4, <1>5, <1>6

LEMMA AttestBooked ==
    ASSUME Typed, IdsAgree, Books, Typed', IdsAgree', NEW sender \in Accounts, NEW paid \in Nat,
           NEW request \in AllRequests, attest(sender, paid, request)
    PROVE  Books'
  <1> DEFINE record == [valid |-> request.verdict = VALID, requester |-> sender, fee_paid |-> paid]
  <1>1. Receive(sender, paid)
    BY DEF attest
  <1>2. CASE emit_transfer("refund", sender, paid) /\ UNCHANGED records
    BY <1>1, <1>2, EmissionBooked
  <1>3. CASE paid = 0 /\ UNCHANGED <<records, in_flight>>
    <2>1. received' = received /\ returned' = returned
      BY <1>1, <1>3 DEF Receive, Typed, TypeOK
    <2> QED BY <1>3, <2>1 DEF Books, Accounted
  <1>4. CASE Store(sender, record)
    <2> SUFFICES ASSUME NEW a \in Accounts
                 PROVE  received'[a] = Total(FeesIn(records', a)) + returned'[a]
                                       + Total(Held(RefundsTo(a), in_flight'))
      BY DEF Books, Accounted
    <2>1. record \in Attestation /\ record.requester = sender /\ record.fee_paid = paid
      BY DEF Attestation
    <2>2. in_flight' = in_flight /\ returned' = returned
      BY <1>1, <1>4 DEF Store, Receive
    <2> HIDE DEF record
    <2>3. Total(FeesIn(records', a)) = Total(FeesIn(records, a)) + IF a = sender THEN paid ELSE 0
      BY <1>4, <2>1, StoreKeepsFees
    <2>4. received'[a] = received[a] + IF a = sender THEN paid ELSE 0
      <3>1. received \in [Accounts -> Nat] /\ received' = [received EXCEPT ![sender] = @ + paid]
        BY <1>1 DEF Receive, Typed, TypeOK
      <3> QED BY <3>1
    <2>5. /\ received[a] \in Nat /\ returned[a] \in Nat
          /\ Total(FeesIn(records, a)) \in Nat /\ Total(Held(RefundsTo(a), in_flight)) \in Nat
      BY FeesInType, HeldType DEF Typed, TypeOK
    <2>6. received[a] = Total(FeesIn(records, a)) + returned[a] + Total(Held(RefundsTo(a), in_flight))
      BY DEF Books, Accounted
    <2> QED BY <2>2, <2>3, <2>4, <2>5, <2>6
  <1> QED BY <1>2, <1>3, <1>4 DEF attest, _refuse

LEMMA SettleBooked ==
    ASSUME Typed, IdsAgree, Books, NEW message \in BagToSet(in_flight), Settle(message)
    PROVE  Books'
  <1> SUFFICES ASSUME NEW a \in Accounts
               PROVE  received'[a] = Total(FeesIn(records', a)) + returned'[a]
                                     + Total(Held(RefundsTo(a), in_flight'))
    BY DEF Books, Accounted
  <1> DEFINE back == IF message \in RefundsTo(a) THEN message.value ELSE 0
  <1>1. message \in DOMAIN in_flight /\ message \in Message /\ message.value \in Nat
    BY DEF Typed, TypeOK, BagToSet, Message
  <1>2. Total(Held(RefundsTo(a), in_flight)) = Total(Held(RefundsTo(a), in_flight')) + back
    BY <1>1, HeldRemoved DEF Typed, Settle
  <1>3. returned'[a] = returned[a] + back
    <2>1. returned[a] \in Nat /\ returned \in [Accounts -> Nat]
      BY DEF Typed, TypeOK
    <2>2. CASE message.kind = "refund" /\ message.to = a
      <3>1. message \in RefundsTo(a)
        BY <1>1, <2>2 DEF RefundsTo
      <3>2. returned' = [returned EXCEPT ![message.to] = returned[message.to] + message.value]
        BY <2>2 DEF Settle
      <3> QED BY <2>1, <2>2, <3>1, <3>2
    <2>3. CASE message.kind = "refund" /\ message.to # a
      <3>1. message \notin RefundsTo(a)
        BY <2>3 DEF RefundsTo
      <3>2. returned' = [returned EXCEPT ![message.to] = returned[message.to] + message.value]
        BY <2>3 DEF Settle
      <3> QED BY <2>1, <2>3, <3>1, <3>2
    <2>4. CASE message.kind # "refund"
      <3>1. message \notin RefundsTo(a)
        BY <2>4 DEF RefundsTo
      <3>2. returned' = returned
        BY <2>4 DEF Settle
      <3> QED BY <2>1, <3>1, <3>2
    <2> QED BY <2>2, <2>3, <2>4
  <1>4. received' = received /\ records' = records
    BY DEF Settle, storeVars
  <1>5. Messages(in_flight')
    BY SettleTyped DEF Typed
  <1>6. /\ received[a] \in Nat /\ returned[a] \in Nat /\ Total(Held(RefundsTo(a), in_flight')) \in Nat
        /\ Total(FeesIn(records, a)) \in Nat /\ Total(Held(RefundsTo(a), in_flight)) \in Nat
    BY <1>5, FeesInType, HeldType DEF Typed, TypeOK
  <1>7. received[a] = Total(FeesIn(records, a)) + returned[a] + Total(Held(RefundsTo(a), in_flight))
    BY DEF Books, Accounted
  <1>8. back \in Nat
    BY <1>1
  <1> HIDE DEF back
  <1> QED BY <1>2, <1>3, <1>4, <1>6, <1>7, <1>8

\* A payout is no refund.
LEMMA WithdrawBooked ==
    ASSUME Typed, Books, NEW sender \in Accounts, NEW amount \in Nat, withdraw(sender, amount)
    PROVE  Books'
  <1> SUFFICES ASSUME NEW a \in Accounts
               PROVE  received'[a] = Total(FeesIn(records', a)) + returned'[a]
                                     + Total(Held(RefundsTo(a), in_flight'))
    BY DEF Books, Accounted
  <1>1. treasury_address \in Accounts /\ emit_transfer("payout", treasury_address, amount)
    BY DEF withdraw, Typed, TypeOK
  <1>2. Messages(in_flight) /\ Total(Held(RefundsTo(a), in_flight)) \in Nat
    BY HeldType DEF Typed
  <1>3. [kind |-> "payout", to |-> treasury_address, value |-> amount] \notin RefundsTo(a)
    BY DEF RefundsTo
  <1>4. Total(Held(RefundsTo(a), in_flight')) = Total(Held(RefundsTo(a), in_flight))
    BY <1>1, <1>2, <1>3, Emitted
  <1>5. received' = received /\ returned' = returned /\ records' = records
    BY DEF withdraw, storeVars
  <1> QED BY <1>4, <1>5 DEF Books, Accounted

\* To the unit, for any fees and any order of calls and settlements: what an
\* account sent is kept with its own records, came back, or is on its way back.
THEOREM VerifierNoThirdOutcome == Spec => []NoThirdOutcome
  <1>1. ASSUME Typed, IdsAgree, Books, [Next]_vars, Typed', IdsAgree' PROVE Books'
    <2>1. ASSUME NEW sender \in Accounts, NEW paid \in Nat, NEW request \in AllRequests,
                 attest(sender, paid, request)
          PROVE  Books'
      BY <1>1, <2>1, AttestBooked
    <2>2. ASSUME NEW sender \in Accounts, NEW paid \in Nat, Unexecuted(sender, paid) PROVE Books'
      BY <1>1, <2>2, EmissionBooked DEF Unexecuted, storeVars
    <2>3. ASSUME NEW sender \in Accounts, NEW amount \in Nat, withdraw(sender, amount) PROVE Books'
      BY <1>1, <2>3, WithdrawBooked
    <2>4. ASSUME NEW message \in BagToSet(in_flight), Settle(message) PROVE Books'
      BY <1>1, <2>4, SettleBooked
    <2>5. ASSUME Governance \/ UNCHANGED vars PROVE Books'
      <3>1. UNCHANGED <<storeVars, moneyVars>>
        BY <1>1, <2>5, GovernanceTyped DEF vars
      <3> QED BY <1>1, <3>1 DEF storeVars, moneyVars, Books
    <2> QED BY <1>1, <2>1, <2>2, <2>3, <2>4, <2>5, Steps
  <1>2. Typed /\ Books => NoThirdOutcome
    BY BooksAreNoThirdOutcome DEF Typed
  <1> QED BY <1>1, <1>2, BooksInitially, VerifierIsTyped, VerifierIdsAgree, PTL DEF Spec

-----------------------------------------------------------------------------
(* What withdrawals leave behind.                                            *)

\* As long as each withdrawal found nothing in flight, the balance covers all
\* the messages in flight together.
Solvent == prudent => Total(Held(Message, in_flight)) <= balance

\* Then no message waits for money: whichever comes next, Settle can take it,
\* and takes it without leaving too little for the others.
NothingIsStranded ==
    prudent => /\ SumOf(BagToSet(in_flight)) <= balance
               /\ \A m \in BagToSet(in_flight) : m.value <= balance

LEMMA SolventInitially == Init => Solvent
  <1> SUFFICES ASSUME Init PROVE Total(Held(Message, in_flight)) <= balance
    BY DEF Solvent
  <1> DEFINE f == Held(Message, in_flight)
  <1>1. DOMAIN f = {}
    BY DEF Init, EmptyBag, SetToBag, Held
  <1> HIDE DEF f
  <1>2. Units(f, DOMAIN f) = {} /\ IsFiniteSet(DOMAIN f)
    BY <1>1, FS_EmptySet DEF Units
  <1>3. Total(f) = 0
    BY <1>1, <1>2, TotalCounts, FS_EmptySet
  <1> QED BY <1>3 DEF Init, f

\* A call that is sent back adds as much to the balance as to what is in flight.
LEMMA EmissionCovered ==
    ASSUME Typed, Solvent, NEW sender \in Accounts, NEW paid \in Nat,
           emit_transfer("refund", sender, paid), Receive(sender, paid)
    PROVE  Solvent'
  <1>1. [kind |-> "refund", to |-> sender, value |-> paid] \in Message
    BY DEF Message
  <1>2. Total(Held(Message, in_flight')) = Total(Held(Message, in_flight)) + paid
    BY <1>1, Emitted DEF Typed
  <1>3. balance \in Nat /\ balance' = balance + paid /\ prudent' = prudent
    BY DEF Receive, Typed, TypeOK
  <1>4. Total(Held(Message, in_flight)) \in Nat
    BY HeldType DEF Typed
  <1> QED BY <1>2, <1>3, <1>4 DEF Solvent

LEMMA WithdrawCovered ==
    ASSUME Typed, Solvent, NEW sender \in Accounts, NEW amount \in Nat, withdraw(sender, amount)
    PROVE  Solvent'
  <1> SUFFICES ASSUME prudent' PROVE Total(Held(Message, in_flight')) <= balance'
    BY DEF Solvent
  <1>1. prudent /\ in_flight = EmptyBag /\ amount <= balance /\ balance' = balance
    BY DEF withdraw, Typed, TypeOK
  <1>2. treasury_address \in Accounts /\ emit_transfer("payout", treasury_address, amount)
    BY DEF withdraw, Typed, TypeOK
  <1>3. [kind |-> "payout", to |-> treasury_address, value |-> amount] \in Message
    BY <1>2 DEF Message
  <1>4. Total(Held(Message, in_flight')) = Total(Held(Message, in_flight)) + amount
    BY <1>2, <1>3, Emitted DEF Typed
  <1>5. Total(Held(Message, in_flight)) = 0
    <2> DEFINE f == Held(Message, in_flight)
    <2>1. DOMAIN f = {}
      BY <1>1 DEF EmptyBag, SetToBag, Held
    <2> HIDE DEF f
    <2>2. Units(f, DOMAIN f) = {} /\ IsFiniteSet(DOMAIN f)
      BY <2>1, FS_EmptySet DEF Units
    <2>3. Total(f) = 0
      BY <2>1, <2>2, TotalCounts, FS_EmptySet
    <2> QED BY <2>3 DEF f
  <1> QED BY <1>1, <1>4, <1>5

LEMMA SettleCovered ==
    ASSUME Typed, Solvent, NEW message \in BagToSet(in_flight), Settle(message)
    PROVE  Solvent'
  <1>1. message \in DOMAIN in_flight /\ message \in Message /\ message.value \in Nat
    BY DEF Typed, TypeOK, BagToSet, Message
  <1>2. Total(Held(Message, in_flight)) = Total(Held(Message, in_flight')) + message.value
    BY <1>1, HeldRemoved DEF Typed, Settle
  <1>3. balance \in Nat /\ balance' = balance - message.value /\ prudent' = prudent
    BY DEF Settle, Typed, TypeOK
  <1>4. Messages(in_flight')
    BY SettleTyped DEF Typed
  <1>5. Total(Held(Message, in_flight)) \in Nat /\ Total(Held(Message, in_flight')) \in Nat
    BY <1>4, HeldType DEF Typed
  <1> QED BY <1>1, <1>2, <1>3, <1>5 DEF Solvent

LEMMA SolventSteps == Typed /\ Solvent /\ [Next]_vars => Solvent'
  <1> SUFFICES ASSUME Typed, Solvent, [Next]_vars PROVE Solvent'
    OBVIOUS
  <1>1. ASSUME NEW sender \in Accounts, NEW paid \in Nat, NEW request \in AllRequests,
               attest(sender, paid, request)
        PROVE  Solvent'
    <2>1. Receive(sender, paid)
      BY <1>1 DEF attest
    <2>2. CASE emit_transfer("refund", sender, paid)
      BY <2>1, <2>2, EmissionCovered
    <2>3. CASE in_flight' = in_flight
      <3>1. balance \in Nat /\ balance' = balance + paid /\ prudent' = prudent
        BY <2>1 DEF Receive, Typed, TypeOK
      <3>2. Total(Held(Message, in_flight)) \in Nat
        BY HeldType DEF Typed
      <3> QED BY <2>3, <3>1, <3>2 DEF Solvent
    <2> QED BY <1>1, <2>2, <2>3 DEF attest, _refuse, Store
  <1>2. ASSUME NEW sender \in Accounts, NEW paid \in Nat, Unexecuted(sender, paid) PROVE Solvent'
    BY <1>2, EmissionCovered DEF Unexecuted
  <1>3. ASSUME NEW sender \in Accounts, NEW amount \in Nat, withdraw(sender, amount) PROVE Solvent'
    BY <1>3, WithdrawCovered
  <1>4. ASSUME NEW message \in BagToSet(in_flight), Settle(message) PROVE Solvent'
    BY <1>4, SettleCovered
  <1>5. ASSUME Governance \/ UNCHANGED vars PROVE Solvent'
    <2>1. UNCHANGED <<storeVars, moneyVars>>
      BY <1>5, GovernanceTyped DEF vars
    <2> QED BY <2>1 DEF moneyVars, Solvent
  <1> QED BY <1>1, <1>2, <1>3, <1>4, <1>5, Steps

\* One message takes no more than all of them together.
LEMMA SolventCoversEach ==
    ASSUME Typed, Solvent
    PROVE  NothingIsStranded
  <1> SUFFICES ASSUME prudent
               PROVE  /\ SumOf(BagToSet(in_flight)) <= balance
                      /\ \A m \in BagToSet(in_flight) : m.value <= balance
    BY DEF NothingIsStranded
  <1> DEFINE f == Held(Message, in_flight)
  <1>1. DOMAIN f = BagToSet(in_flight) /\ \A m \in DOMAIN f : f[m] = m.value * in_flight[m]
    BY DEF Held, BagToSet, Typed, Messages
  <1>2. Total(f) = SumOf(BagToSet(in_flight))
    BY <1>1 DEF Held, SumOf
  <1>3. IsFiniteSet(DOMAIN f) /\ (\A m \in DOMAIN f : f[m] \in Nat) /\ Total(f) \in Nat
    BY HeldType DEF Typed
  <1>4. Total(f) <= balance /\ balance \in Nat
    BY DEF Solvent, Typed, TypeOK
  <1>5. ASSUME NEW m \in BagToSet(in_flight) PROVE m.value <= f[m]
    <2>1. m.value \in Nat /\ in_flight[m] \in Nat /\ in_flight[m] > 0
      BY DEF BagToSet, Typed, Messages, IsABag, Message
    <2>2. PICK k \in Nat : in_flight[m] = k + 1
      <3>1. in_flight[m] - 1 \in Nat /\ in_flight[m] = (in_flight[m] - 1) + 1
        BY <2>1
      <3> QED BY <3>1
    <2>3. m.value * (k + 1) = m.value * k + m.value /\ m.value * k \in Nat
      BY <2>1
    <2> HIDE DEF f
    <2> QED BY <1>1, <2>1, <2>2, <2>3
  <1> HIDE DEF f
  <1>6. ASSUME NEW m \in BagToSet(in_flight) PROVE m.value <= balance
    <2>1. Total(f) = f[m] + Total(Without(f, m)) /\ Total(Without(f, m)) \in Nat /\ f[m] \in Nat
      BY <1>1, <1>3, TotalSplit
    <2>2. m.value <= f[m] /\ m.value \in Nat
      BY <1>5 DEF BagToSet, Typed, Messages, Message
    <2> QED BY <1>4, <2>1, <2>2
  <1> QED BY <1>2, <1>4, <1>6

\* The safety that RefundsArrive needs: an owner who withdraws only when nothing
\* is in flight strands no refund, whatever the amounts: the guard of Settle
\* never holds a message back.
THEOREM VerifierStrandsNothing == Spec => []NothingIsStranded
  <1>1. Typed /\ Solvent => NothingIsStranded
    BY SolventCoversEach
  <1> QED BY <1>1, SolventInitially, SolventSteps, VerifierIsTyped, PTL DEF Spec
=============================================================================
