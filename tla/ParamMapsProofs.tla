--------------------------- MODULE ParamMapsProofs ---------------------------
(* Theorems about ParamMaps, for any set of paths and answers of any length. *)
EXTENDS ParamMaps, SequenceTheorems, TLAPS

\* What paths, and the paths that are looked up, are made of.
Word == Segment \union Tenant \union {Root, Env}

\* A later parameter lies above the i-th one: its value has replaced what was there.
Shadowed(i) == \E j \in DOMAIN input : i < j /\ IsStrictPrefix(input[j], input[i])

Collision ==
    \/ \E p \in Range(input) : Range(p) \intersect Dangerous # {}
    \/ \E i, j \in DOMAIN input : i < j /\ IsStrictPrefix(input[i], input[j])

\* The tree is that of the parameters no later one shadows, and one of these lies at
\* or above every parameter.
TreeOK ==
    /\ ~Collision
    /\ tree.leaves = {input[i] : i \in {k \in DOMAIN input : ~Shadowed(k)}}
    /\ tree.inner = UNION {ParentsOf(q) : q \in tree.leaves}
    /\ tree.inner \intersect tree.leaves = {}
    /\ \A i \in DOMAIN input :
          \E q \in tree.leaves : q = input[i] \/ IsStrictPrefix(q, input[i])

\* The i-th parameter has been put in the group of service s.
OfService(i, s) == Len(input[i]) >= 4 /\ input[i][4] = s

\* The first pair of group s with the i-th parameter's name is of a parameter that
\* did not come after it.
FirstPair(i, s) ==
    \E n \in DOMAIN groups[s] :
        /\ \A m \in DOMAIN groups[s] : m < n => groups[s][m].key # Last(input[i])
        /\ groups[s][n].key = Last(input[i])
        /\ \E j \in 1 .. i : OfService(j, s) /\ groups[s][n] = Pair(input[j])

GroupsOK ==
    /\ \A s \in DOMAIN groups : \A n \in DOMAIN groups[s] :
          \E j \in DOMAIN input : OfService(j, s) /\ groups[s][n] = Pair(input[j])
    /\ \A i \in DOMAIN input : \A s : OfService(i, s) =>
          s \notin Inherited /\ s \in DOMAIN groups /\ FirstPair(i, s)

ShapeOK ==
    /\ input \in Seq(Path)
    /\ thrown \in [groups : BOOLEAN, tree : BOOLEAN]
    /\ \A s \in DOMAIN groups : groups[s] \in Seq([key : Segment, value : Path])
    /\ tree.inner \intersect tree.leaves = {}
    /\ \A p \in tree.inner \union tree.leaves : ParentsOf(p) \subseteq tree.inner

\* The inductive invariant: what holds whether or not a loop has thrown, and what
\* each has built if it has not.
MInv ==
    /\ ShapeOK
    /\ IF thrown.tree THEN Collision ELSE TreeOK
    /\ ~thrown.groups => GroupsOK

-----------------------------------------------------------------------------
(* Prefixes.                                                                *)

\* A sequence lies strictly above another if it is shorter and agrees with it.
LEMMA Above ==
    ASSUME NEW S, NEW p \in Seq(S), NEW q \in Seq(S)
    PROVE  IsStrictPrefix(p, q) <=>
               Len(p) < Len(q) /\ \A k \in 1 .. Len(p) : p[k] = q[k]
<1> Len(p) \in Nat /\ Len(q) \in Nat
    OBVIOUS
<1>1. SubSeq(p, 1, Len(p)) = p
    BY SubSeqFull
<1>2. Len(p) <= Len(q) =>
        /\ SubSeq(q, 1, Len(p)) \in Seq(S)
        /\ Len(SubSeq(q, 1, Len(p))) = Len(p)
        /\ \A k \in 1 .. Len(p) : SubSeq(q, 1, Len(p))[k] = q[k]
    <2> SUFFICES ASSUME Len(p) <= Len(q)
                 PROVE  /\ SubSeq(q, 1, Len(p)) \in Seq(S)
                        /\ Len(SubSeq(q, 1, Len(p))) = Len(p)
                        /\ \A k \in 1 .. Len(p) : SubSeq(q, 1, Len(p))[k] = q[k]
        OBVIOUS
    <2>1. \A i \in 1 .. Len(p) : q[i] \in S
        OBVIOUS
    <2>. QED  BY <2>1, SubSeqProperties
<1>3. CASE IsStrictPrefix(p, q)
    <2>1. Len(p) <= Len(q) /\ p = SubSeq(q, 1, Len(p)) /\ p # q
        BY <1>1, <1>3 DEF IsStrictPrefix, IsPrefix
    <2>2. Len(p) # Len(q)
        BY <2>1, SubSeqFull
    <2>3. \A k \in 1 .. Len(p) : p[k] = q[k]
        BY <2>1, <1>2
    <2>. QED  BY <1>3, <2>1, <2>2, <2>3
<1>4. CASE Len(p) < Len(q) /\ \A k \in 1 .. Len(p) : p[k] = q[k]
    <2>1. p = SubSeq(q, 1, Len(p))
        BY <1>2, <1>4
    <2>. QED  BY <1>1, <1>4, <2>1 DEF IsStrictPrefix, IsPrefix
<1>. QED  BY <1>3, <1>4

\* ParentsOf: the objects on the way to a value are the paths strictly above it.
LEMMA Parents ==
    ASSUME NEW S, NEW q \in Seq(S), NEW x
    PROVE  x \in ParentsOf(q) <=> x \in Seq(S) /\ x # <<>> /\ IsStrictPrefix(x, q)
<1> Len(q) \in Nat
    OBVIOUS
<1>1. ASSUME NEW n \in 1 .. Len(q) - 1
      PROVE  /\ SubSeq(q, 1, n) \in Seq(S) /\ SubSeq(q, 1, n) # <<>>
             /\ IsStrictPrefix(SubSeq(q, 1, n), q)
    <2>1. /\ SubSeq(q, 1, n) \in Seq(S)
          /\ Len(SubSeq(q, 1, n)) = n
          /\ \A k \in 1 .. n : SubSeq(q, 1, n)[k] = q[k]
        <3>1. \A i \in 1 .. n : q[i] \in S
            OBVIOUS
        <3>. QED  BY <3>1, SubSeqProperties
    <2>2. SubSeq(q, 1, n) # <<>>
        BY <2>1
    <2>3. PICK x0 : x0 = SubSeq(q, 1, n)
        OBVIOUS
    <2>4. x0 \in Seq(S) /\ Len(x0) < Len(q) /\ \A k \in 1 .. Len(x0) : x0[k] = q[k]
        BY <2>1, <2>3
    <2>5. IsStrictPrefix(x0, q)
        BY <2>4, Above
    <2>. QED  BY <2>1, <2>2, <2>3, <2>5
<1>2. ASSUME x \in Seq(S), x # <<>>, IsStrictPrefix(x, q)
      PROVE  Len(x) \in 1 .. Len(q) - 1 /\ x = SubSeq(q, 1, Len(x))
    <2>1. Len(x) < Len(q)
        BY <1>2, Above
    <2>2. SubSeq(x, 1, Len(x)) = x
        BY <1>2, SubSeqFull
    <2>. QED  BY <1>2, <2>1, <2>2 DEF IsStrictPrefix, IsPrefix
<1>. QED  BY <1>1, <1>2 DEF ParentsOf

\* What lies above one path above another lies above that one.
LEMMA AboveAbove ==
    ASSUME NEW S, NEW p \in Seq(S), NEW q \in Seq(S), NEW r \in Seq(S),
           IsStrictPrefix(p, q), IsStrictPrefix(q, r)
    PROVE  IsStrictPrefix(p, r)
<1>1. Len(p) < Len(q) /\ \A k \in 1 .. Len(p) : p[k] = q[k]
    BY Above
<1>2. Len(q) < Len(r) /\ \A k \in 1 .. Len(q) : q[k] = r[k]
    BY Above
<1>3. Len(p) < Len(r) /\ \A k \in 1 .. Len(p) : p[k] = r[k]
    BY <1>1, <1>2
<1>. QED  BY <1>3, Above

\* No path lies above one that lies above it.
LEMMA NotBoth ==
    ASSUME NEW S, NEW p \in Seq(S), NEW q \in Seq(S), IsStrictPrefix(p, q)
    PROVE  ~IsStrictPrefix(q, p) /\ p # q
<1>1. Len(p) < Len(q)
    BY Above
<1>2. ~(Len(q) < Len(p))
    BY <1>1
<1>. QED  BY <1>1, <1>2, Above

\* Of two paths above a third one lies above the other.
LEMMA OneLine ==
    ASSUME NEW S, NEW p \in Seq(S), NEW q \in Seq(S), NEW r \in Seq(S),
           IsStrictPrefix(p, r), IsStrictPrefix(q, r), p # q
    PROVE  IsStrictPrefix(p, q) \/ IsStrictPrefix(q, p)
<1>1. Len(p) < Len(r) /\ \A k \in 1 .. Len(p) : p[k] = r[k]
    BY Above
<1>2. Len(q) < Len(r) /\ \A k \in 1 .. Len(q) : q[k] = r[k]
    BY Above
<1>3. Len(p) < Len(q) => IsStrictPrefix(p, q)
    BY <1>1, <1>2, Above
<1>4. Len(q) < Len(p) => IsStrictPrefix(q, p)
    BY <1>1, <1>2, Above
<1>5. Len(p) # Len(q)
    BY <1>1, <1>2
<1>. QED  BY <1>3, <1>4, <1>5

\* A prefix is the path itself or lies above it.
LEMMA PrefixIs ==
    ASSUME NEW S, NEW p \in Seq(S), NEW q \in Seq(S)
    PROVE  IsPrefix(p, q) <=> p = q \/ IsStrictPrefix(p, q)
BY DEF IsPrefix, IsStrictPrefix

\* Every path is a sequence of words, and not empty.
LEMMA PathsAreWords ==
    \A p \in Path : p \in Seq(Word) /\ p # <<>> /\ p \in Seq(Segment)
<1> SUFFICES ASSUME NEW p \in Path
             PROVE  p \in Seq(Word) /\ p # <<>> /\ p \in Seq(Segment)
    OBVIOUS
<1>1. p \in Seq(Range(p)) /\ p # <<>>
    BY PathAssumption
<1>2. Range(p) \subseteq Segment
    BY DEF Segment
<1>3. Len(p) \in Nat /\ DOMAIN p = 1 .. Len(p) /\ \A k \in 1 .. Len(p) : p[k] \in Segment
    BY <1>1, <1>2
<1>4. p = [k \in 1 .. Len(p) |-> p[k]]
    BY <1>1
<1>5. p \in [1 .. Len(p) -> Segment] /\ p \in [1 .. Len(p) -> Word]
    BY <1>3, <1>4 DEF Word
<1>. QED  BY <1>1, <1>3, <1>5

-----------------------------------------------------------------------------
(* The invariant.                                                           *)

\* The answer so far and the next parameter.
LEMMA Answered ==
    ASSUME ShapeOK, NEW p \in Path
    PROVE  /\ Len(input) \in Nat /\ DOMAIN input = 1 .. Len(input)
           /\ Append(input, p) \in Seq(Path)
           /\ DOMAIN Append(input, p) = 1 .. Len(input) + 1
           /\ \A i \in DOMAIN input : input[i] \in Path /\ Append(input, p)[i] = input[i]
           /\ Append(input, p)[Len(input) + 1] = p
BY DEF ShapeOK

\* Everything in the tree is a path, or leads to one.
LEMMA TreeOfWords ==
    ASSUME ShapeOK, TreeOK
    PROVE  /\ tree.leaves \subseteq Path /\ tree.leaves \subseteq Range(input)
           /\ \A q \in tree.leaves : q \in Seq(Word) /\ q # <<>>
           /\ \A x : x \in tree.inner <=>
                  /\ x \in Seq(Word) /\ x # <<>>
                  /\ \E q \in tree.leaves : IsStrictPrefix(x, q)
<1>1. tree.leaves \subseteq Path /\ tree.leaves \subseteq Range(input)
    BY DEF ShapeOK, TreeOK, Range
<1>2. \A q \in tree.leaves : q \in Seq(Word) /\ q # <<>>
    BY <1>1, PathsAreWords
<1>3. \A q \in tree.leaves : \A x :
          x \in ParentsOf(q) <=> x \in Seq(Word) /\ x # <<>> /\ IsStrictPrefix(x, q)
    BY <1>2, Parents
<1>4. \A x : x \in tree.inner <=> \E q \in tree.leaves : x \in ParentsOf(q)
    BY DEF TreeOK
<1>. QED  BY <1>1, <1>2, <1>3, <1>4

\* A parameter is planted without a throw if and only if no earlier one lies above it and
\* no segment of it is refused.
LEMMA Throws ==
    ASSUME ShapeOK, TreeOK, NEW p \in Path
    PROVE  PlantThrows(p) <=>
               \/ Range(p) \intersect Dangerous # {}
               \/ \E i \in DOMAIN input : IsStrictPrefix(input[i], p)
<1>1. p \in Seq(Word)
    BY PathsAreWords
<1>2. \A i \in DOMAIN input : input[i] \in Seq(Word)
    BY PathsAreWords, Answered
<1>3. ASSUME NEW q \in ParentsOf(p), q \in tree.leaves
      PROVE  \E i \in DOMAIN input : IsStrictPrefix(input[i], p)
    <2>1. IsStrictPrefix(q, p)
        BY <1>1, <1>3, Parents
    <2>2. q \in Range(input)
        BY <1>3, TreeOfWords
    <2>. QED  BY <2>1, <2>2 DEF Range
<1>4. ASSUME NEW i \in DOMAIN input, IsStrictPrefix(input[i], p)
      PROVE  ParentsOf(p) \intersect tree.leaves # {}
    <2>1. PICK q \in tree.leaves : q = input[i] \/ IsStrictPrefix(q, input[i])
        BY DEF TreeOK
    <2>2. q \in Seq(Word) /\ q # <<>>
        BY TreeOfWords
    <2>3. PICK r : r = input[i]
        OBVIOUS
    <2>4. r \in Seq(Word) /\ IsStrictPrefix(r, p) /\ (q = r \/ IsStrictPrefix(q, r))
        BY <1>2, <1>4, <2>1, <2>3
    <2>5. IsStrictPrefix(q, p)
        BY <1>1, <2>2, <2>4, AboveAbove
    <2>6. q \in ParentsOf(p)
        BY <1>1, <2>2, <2>5, Parents
    <2>. QED  BY <2>6
<1>5. PlantThrows(p) <=> \/ Range(p) \intersect Dangerous # {}
                         \/ ParentsOf(p) \intersect tree.leaves # {}
    BY DEF PlantThrows
<1>. QED  BY <1>3, <1>4, <1>5

-----------------------------------------------------------------------------
(* newParamMapper.                                                          *)

\* The last parameter of an answer is not shadowed, and shadows what it lies above.
LEMMA Shadows ==
    ASSUME ShapeOK, NEW p \in Path, input' = Append(input, p)
    PROVE  /\ \A i \in DOMAIN input :
                  Shadowed(i)' <=> Shadowed(i) \/ IsStrictPrefix(p, input[i])
           /\ \A i : i = Len(input) + 1 => ~Shadowed(i)'
<1> DEFINE a == Append(input, p)
<1>1. /\ Len(input) \in Nat /\ DOMAIN input = 1 .. Len(input)
      /\ DOMAIN a = 1 .. Len(input) + 1
      /\ \A i \in DOMAIN input : a[i] = input[i]
      /\ a[Len(input) + 1] = p
    BY Answered
<1>2. \A i : Shadowed(i)' <=> \E j \in DOMAIN a : i < j /\ IsStrictPrefix(a[j], a[i])
    BY DEF Shadowed
<1> HIDE DEF a
<1>3. ASSUME NEW i \in DOMAIN input
      PROVE  Shadowed(i)' <=> Shadowed(i) \/ IsStrictPrefix(p, input[i])
    <2>1. ASSUME NEW j \in DOMAIN a, i < j, IsStrictPrefix(a[j], a[i])
          PROVE  Shadowed(i) \/ IsStrictPrefix(p, input[i])
        BY <1>1, <1>3, <2>1 DEF Shadowed
    <2>2. ASSUME NEW j \in DOMAIN input, i < j, IsStrictPrefix(input[j], input[i])
          PROVE  \E k \in DOMAIN a : i < k /\ IsStrictPrefix(a[k], a[i])
        BY <1>1, <1>3, <2>2
    <2>3. ASSUME IsStrictPrefix(p, input[i])
          PROVE  \E k \in DOMAIN a : i < k /\ IsStrictPrefix(a[k], a[i])
        BY <1>1, <1>3, <2>3
    <2>. QED  BY <1>2, <2>1, <2>2, <2>3 DEF Shadowed
<1>4. ASSUME NEW i, i = Len(input) + 1
      PROVE  ~Shadowed(i)'
    BY <1>1, <1>2, <1>4
<1>. QED  BY <1>3, <1>4

\* What the next parameter can collide with.
LEMMA Collides ==
    ASSUME ShapeOK, NEW p \in Path, input' = Append(input, p)
    PROVE  Collision' <=> \/ Collision
                          \/ Range(p) \intersect Dangerous # {}
                          \/ \E i \in DOMAIN input : IsStrictPrefix(input[i], p)
<1> DEFINE a == Append(input, p)
           n == Len(input) + 1
<1>1. /\ Len(input) \in Nat /\ DOMAIN input = 1 .. Len(input)
      /\ DOMAIN a = 1 .. n
      /\ \A i \in DOMAIN input : a[i] = input[i]
      /\ a[n] = p
    BY Answered
<1>2. Collision' <=> \/ \E i \in DOMAIN a : Range(a[i]) \intersect Dangerous # {}
                     \/ \E i, j \in DOMAIN a : i < j /\ IsStrictPrefix(a[i], a[j])
    BY DEF Collision, Range
<1>3. Collision <=> \/ \E i \in DOMAIN input : Range(input[i]) \intersect Dangerous # {}
                    \/ \E i, j \in DOMAIN input : i < j /\ IsStrictPrefix(input[i], input[j])
    BY DEF Collision, Range
<1>4. /\ n \in DOMAIN a /\ DOMAIN input \subseteq DOMAIN a
      /\ \A i \in DOMAIN a : i \in DOMAIN input \/ i = n
      /\ \A i \in DOMAIN input : i < n
      /\ \A i \in DOMAIN a : ~(n < i)
    BY <1>1
<1> HIDE DEF a, n
<1>5. (\E i \in DOMAIN a : Range(a[i]) \intersect Dangerous # {}) <=>
          \/ \E i \in DOMAIN input : Range(input[i]) \intersect Dangerous # {}
          \/ Range(p) \intersect Dangerous # {}
    BY <1>1, <1>4
<1>6. (\E i, j \in DOMAIN a : i < j /\ IsStrictPrefix(a[i], a[j])) <=>
          \/ \E i, j \in DOMAIN input : i < j /\ IsStrictPrefix(input[i], input[j])
          \/ \E i \in DOMAIN input : IsStrictPrefix(input[i], p)
    <2>1. ASSUME NEW i \in DOMAIN a, NEW j \in DOMAIN a, i < j, IsStrictPrefix(a[i], a[j])
          PROVE  \/ \E k, l \in DOMAIN input : k < l /\ IsStrictPrefix(input[k], input[l])
                 \/ \E k \in DOMAIN input : IsStrictPrefix(input[k], p)
        <3>1. i \in DOMAIN input
            BY <1>4, <2>1
        <3>2. CASE j \in DOMAIN input
            BY <1>1, <2>1, <3>1, <3>2
        <3>3. CASE j = n
            BY <1>1, <2>1, <3>1, <3>3
        <3>. QED  BY <1>4, <3>2, <3>3
    <2>2. ASSUME NEW i \in DOMAIN input, NEW j \in DOMAIN input,
                 i < j, IsStrictPrefix(input[i], input[j])
          PROVE  \E k, l \in DOMAIN a : k < l /\ IsStrictPrefix(a[k], a[l])
        BY <1>1, <1>4, <2>2
    <2>3. ASSUME NEW i \in DOMAIN input, IsStrictPrefix(input[i], p)
          PROVE  \E k, l \in DOMAIN a : k < l /\ IsStrictPrefix(a[k], a[l])
        BY <1>1, <1>4, <2>3
    <2>. QED  BY <2>1, <2>2, <2>3
<1>. QED  BY <1>2, <1>3, <1>5, <1>6

\* newParamMapper: a parameter that is planted leaves the tree of what is not
\* shadowed; what it lies above goes, leaves and inner objects.
LEMMA Planted ==
    ASSUME ShapeOK, TreeOK, NEW p \in Path, p \notin Range(input),
           input' = Append(input, p), tree' = Plant(p), ~PlantThrows(p)
    PROVE  TreeOK'
<1>0. p \in Seq(Word) /\ p # <<>>
    BY PathsAreWords
<1>1. ~Collision'
    BY Collides, Throws DEF TreeOK
<1>2. /\ tree'.leaves = {q \in tree.leaves : ~IsStrictPrefix(p, q)} \union {p}
      /\ tree'.inner = {q \in tree.inner \union ParentsOf(p) : q # p /\ ~IsStrictPrefix(p, q)}
    BY DEF Plant
<1>3. tree'.leaves = {input'[i] : i \in {k \in DOMAIN input' : ~Shadowed(k)'}}
    <2> DEFINE a == Append(input, p)
    <2>0. PICK n : n = Len(input) + 1
        OBVIOUS
    <2>1. /\ DOMAIN a = DOMAIN input \union {n} /\ n \notin DOMAIN input
          /\ \A i \in DOMAIN input : a[i] = input[i]
          /\ a[n] = p
        BY <2>0, Answered
    <2>2. /\ \A i \in DOMAIN input :
                  Shadowed(i)' <=> Shadowed(i) \/ IsStrictPrefix(p, input[i])
          /\ ~Shadowed(n)'
        BY <2>0, Shadows
    <2> HIDE DEF a
    <2>3. tree.leaves = {input[i] : i \in {k \in DOMAIN input : ~Shadowed(k)}}
        BY DEF TreeOK
    <2>4. ASSUME NEW q \in tree'.leaves
          PROVE  \E i \in DOMAIN a : ~Shadowed(i)' /\ q = a[i]
        BY <1>2, <2>1, <2>2, <2>3
    <2>5. ASSUME NEW i \in DOMAIN a, ~Shadowed(i)'
          PROVE  a[i] \in tree'.leaves
        BY <1>2, <2>1, <2>2, <2>3, <2>5
    <2>6. input' = a
        BY DEF a
    <2>. QED  BY <2>4, <2>5, <2>6
<1>4. tree'.leaves \subseteq Seq(Word)
    BY <1>0, <1>2, TreeOfWords
<1>5. \A q \in tree'.leaves : \A x :
          x \in ParentsOf(q) <=> x \in Seq(Word) /\ x # <<>> /\ IsStrictPrefix(x, q)
    BY <1>4, Parents
<1>6. \A x : x \in ParentsOf(p) <=> x \in Seq(Word) /\ x # <<>> /\ IsStrictPrefix(x, p)
    BY <1>0, Parents
<1>7. tree'.inner = UNION {ParentsOf(q) : q \in tree'.leaves}
    <2>1. ASSUME NEW x \in tree'.inner
          PROVE  \E q \in tree'.leaves : x \in ParentsOf(q)
        <3>1. CASE x \in ParentsOf(p)
            BY <1>2, <3>1
        <3>2. CASE x \in tree.inner /\ x \notin ParentsOf(p)
            <4>1. PICK q \in tree.leaves : IsStrictPrefix(x, q)
                BY <3>2, TreeOfWords
            <4>2. x \in Seq(Word) /\ x # <<>> /\ q \in Seq(Word)
                BY <3>2, TreeOfWords
            <4>3. ~IsStrictPrefix(p, q)
                BY <1>0, <1>2, <1>6, <2>1, <3>2, <4>1, <4>2, OneLine
            <4>. QED  BY <1>2, <1>5, <4>1, <4>2, <4>3
        <3>. QED  BY <1>2, <2>1, <3>1, <3>2
    <2>2. ASSUME NEW q \in tree'.leaves, NEW x \in ParentsOf(q)
          PROVE  x \in tree'.inner
        <3>1. x \in Seq(Word) /\ x # <<>> /\ IsStrictPrefix(x, q) /\ q \in Seq(Word)
            BY <1>4, <1>5, <2>2
        <3>2. x \in tree.inner \union ParentsOf(p)
            BY <1>2, <2>2, <3>1, TreeOfWords
        <3>3. ~IsStrictPrefix(p, q)
            <4>1. ~IsStrictPrefix(p, p)
                BY DEF IsStrictPrefix
            <4>. QED  BY <1>2, <2>2, <4>1
        <3>4. x # p
            BY <3>1, <3>3
        <3>5. ~IsStrictPrefix(p, x)
            BY <1>0, <3>1, <3>3, AboveAbove
        <3>. QED  BY <1>2, <3>2, <3>4, <3>5
    <2>. QED  BY <2>1, <2>2
<1>8. tree'.inner \intersect tree'.leaves = {}
    <2>1. tree.inner \intersect tree.leaves = {} /\ ParentsOf(p) \intersect tree.leaves = {}
        BY DEF TreeOK, PlantThrows
    <2>. QED  BY <1>2, <2>1
<1>9. \A i \in DOMAIN input' :
          \E q \in tree'.leaves : q = input'[i] \/ IsStrictPrefix(q, input'[i])
    <2>1. ASSUME NEW i \in DOMAIN input
          PROVE  \E q \in tree'.leaves : q = input[i] \/ IsStrictPrefix(q, input[i])
        <3>1. PICK q \in tree.leaves : q = input[i] \/ IsStrictPrefix(q, input[i])
            BY DEF TreeOK
        <3>2. PICK r : r = input[i]
            OBVIOUS
        <3>3. q \in Seq(Word) /\ r \in Seq(Word)
            BY <3>2, Answered, PathsAreWords, TreeOfWords
        <3>4. CASE IsStrictPrefix(p, q)
            BY <1>0, <1>2, <3>1, <3>2, <3>3, <3>4, AboveAbove
        <3>5. CASE ~IsStrictPrefix(p, q)
            BY <1>2, <3>1, <3>5
        <3>. QED  BY <3>4, <3>5
    <2>2. \A i \in DOMAIN input' :
              \/ i \in DOMAIN input /\ input'[i] = input[i]
              \/ input'[i] = p
        BY Answered
    <2>3. p \in tree'.leaves
        BY <1>2
    <2>. QED  BY <2>1, <2>2, <2>3
<1>. QED  BY <1>1, <1>3, <1>7, <1>8, <1>9 DEF TreeOK

\* A parameter that is refused, or planted, keeps what the tree promises.
LEMMA TreeTaken ==
    ASSUME MInv, NEW p \in Path, Take(p)
    PROVE  IF thrown'.tree THEN Collision' ELSE TreeOK'
<1>1. /\ ShapeOK /\ input' = Append(input, p) /\ p \notin Range(input)
      /\ thrown'.tree = (thrown.tree \/ PlantThrows(p))
    BY DEF MInv, Take
<1>2. CASE thrown.tree
    <2>1. Collision
        BY <1>2 DEF MInv
    <2>2. Collision'
        BY <1>1, <2>1, Collides
    <2>. QED  BY <1>1, <1>2, <2>2
<1>3. CASE ~thrown.tree /\ PlantThrows(p)
    <2>1. TreeOK
        BY <1>3 DEF MInv
    <2>2. Collision'
        BY <1>1, <1>3, <2>1, Collides, Throws
    <2>. QED  BY <1>1, <1>3, <2>2
<1>4. CASE ~thrown.tree /\ ~PlantThrows(p)
    <2>1. TreeOK
        BY <1>4 DEF MInv
    <2>2. ~thrown'.tree
        BY <1>1, <1>4
    <2>3. tree' = Plant(p)
        BY <2>2 DEF Take
    <2>4. TreeOK'
        BY <1>1, <1>4, <2>1, <2>3, Planted
    <2>. QED  BY <2>2, <2>4
<1>. QED  BY <1>2, <1>3, <1>4

-----------------------------------------------------------------------------
(* paramMapper.                                                             *)

\* The pairs of a group after a parameter of its service.
LEMMA Paired ==
    ASSUME ShapeOK, NEW p \in Path, groups' = Group(p), Len(p) >= 4
    PROVE  /\ DOMAIN groups' = DOMAIN groups \union {p[4]}
           /\ \A s \in DOMAIN groups : s # p[4] => groups'[s] = groups[s]
           /\ p[4] \in DOMAIN groups => groups'[p[4]] = Append(groups[p[4]], Pair(p))
           /\ p[4] \notin DOMAIN groups => groups'[p[4]] = <<Pair(p)>>
           /\ Pair(p) \in [key : Segment, value : Path]
<1>1. p \in Seq(Segment) /\ p # <<>>
    BY PathsAreWords
<1>2. Last(p) \in Segment
    BY <1>1 DEF Last
<1>3. Pair(p) \in [key : Segment, value : Path]
    BY <1>2 DEF Pair
<1>. QED  BY <1>3 DEF Group

\* paramMapper: a pair that is appended keeps the first pair of every name.
LEMMA Grouped ==
    ASSUME ShapeOK, GroupsOK, NEW p \in Path,
           input' = Append(input, p), groups' = Group(p), ~GroupThrows(p)
    PROVE  GroupsOK'
<1>0. PICK n : n = Len(input) + 1
    OBVIOUS
<1>1. /\ DOMAIN input' = DOMAIN input \union {n} /\ n \notin DOMAIN input
      /\ DOMAIN input = 1 .. n - 1 /\ n \in Nat \ {0}
      /\ \A i \in DOMAIN input : input'[i] = input[i]
      /\ input'[n] = p
    BY <1>0, Answered
<1>2. /\ \A i \in DOMAIN input : \A s : OfService(i, s)' <=> OfService(i, s)
      /\ \A s : OfService(n, s)' <=> Len(p) >= 4 /\ p[4] = s
    BY <1>1 DEF OfService
<1>3. /\ \A s \in DOMAIN groups : \A m \in DOMAIN groups[s] :
            \E j \in DOMAIN input : OfService(j, s) /\ groups[s][m] = Pair(input[j])
      /\ \A i \in DOMAIN input : \A s : OfService(i, s) =>
            s \notin Inherited /\ s \in DOMAIN groups /\ FirstPair(i, s)
    BY DEF GroupsOK
<1>4. \A s \in DOMAIN groups : groups[s] \in Seq([key : Segment, value : Path])
    BY DEF ShapeOK
<1>5. \* A first pair stays the first while the group grows.
      ASSUME NEW i \in DOMAIN input, NEW s, OfService(i, s),
             s \in DOMAIN groups',
             DOMAIN groups[s] \subseteq DOMAIN groups'[s],
             \A m \in DOMAIN groups[s] : groups'[s][m] = groups[s][m],
             \A m \in DOMAIN groups[s] : \A l \in DOMAIN groups'[s] :
                 l < m => l \in DOMAIN groups[s]
      PROVE  FirstPair(i, s)'
    <2>1. PICK m \in DOMAIN groups[s] :
              /\ \A l \in DOMAIN groups[s] : l < m => groups[s][l].key # Last(input[i])
              /\ groups[s][m].key = Last(input[i])
              /\ \E j \in 1 .. i : OfService(j, s) /\ groups[s][m] = Pair(input[j])
        BY <1>3, <1>5 DEF FirstPair
    <2>2. PICK j \in 1 .. i : OfService(j, s) /\ groups[s][m] = Pair(input[j])
        BY <2>1
    <2>3. j \in DOMAIN input
        BY <1>1
    <2>4. OfService(j, s)' /\ groups'[s][m] = Pair(input'[j])
        BY <1>1, <1>2, <1>5, <2>2, <2>3
    <2>5. /\ m \in DOMAIN groups'[s] /\ groups'[s][m].key = Last(input'[i])
          /\ \A l \in DOMAIN groups'[s] : l < m => groups'[s][l].key # Last(input'[i])
        BY <1>1, <1>5, <2>1
    <2>. QED  BY <2>4, <2>5 DEF FirstPair, Pair
<1>6. CASE Len(p) < 4
    <2>1. groups' = groups
        BY <1>6 DEF Group
    <2>2. ~(Len(p) >= 4)
        BY <1>6, PathsAreWords
    <2>3. \A s \in DOMAIN groups' : \A m \in DOMAIN groups'[s] :
              \E j \in DOMAIN input' : OfService(j, s)' /\ groups'[s][m] = Pair(input'[j])
        BY <1>1, <1>2, <1>3, <2>1 DEF Pair
    <2>4. ASSUME NEW i \in DOMAIN input', NEW s, OfService(i, s)'
          PROVE  s \notin Inherited /\ s \in DOMAIN groups' /\ FirstPair(i, s)'
        <3>1. i \in DOMAIN input /\ OfService(i, s)
            BY <1>1, <1>2, <2>2, <2>4
        <3>. QED  BY <1>3, <1>5, <2>1, <3>1
    <2>. QED  BY <2>3, <2>4 DEF GroupsOK, Pair
<1>7. CASE Len(p) >= 4
    <2> DEFINE g == p[4]
    <2>1. g \notin Inherited
        BY <1>7 DEF GroupThrows
    <2>2. /\ DOMAIN groups' = DOMAIN groups \union {g}
          /\ \A s \in DOMAIN groups : s # g => groups'[s] = groups[s]
          /\ g \in DOMAIN groups => groups'[g] = Append(groups[g], Pair(p))
          /\ g \notin DOMAIN groups => groups'[g] = <<Pair(p)>>
          /\ Pair(p) \in [key : Segment, value : Path]
        BY <1>7, Paired
    <2> HIDE DEF g
    <2>3. \* The pair is the last of its group, after what was there.
          PICK k \in Nat :
              /\ DOMAIN groups'[g] = 1 .. k + 1 /\ groups'[g][k + 1] = Pair(p)
              /\ g \in DOMAIN groups =>
                    DOMAIN groups[g] = 1 .. k /\ \A m \in 1 .. k : groups'[g][m] = groups[g][m]
              /\ g \notin DOMAIN groups => k = 0
        <3>1. CASE g \in DOMAIN groups
            <4>1. groups[g] \in Seq([key : Segment, value : Path])
                BY <1>4, <3>1
            <4>2. Len(groups[g]) \in Nat /\ DOMAIN groups[g] = 1 .. Len(groups[g])
                BY <4>1
            <4>3. PICK k \in Nat : k = Len(groups[g])
                BY <4>2
            <4>4. DOMAIN groups'[g] = 1 .. k + 1 /\ groups'[g][k + 1] = Pair(p)
                  /\ \A m \in 1 .. k : groups'[g][m] = groups[g][m]
                BY <2>2, <3>1, <4>1, <4>3
            <4>. QED  BY <3>1, <4>2, <4>3, <4>4
        <3>2. CASE g \notin DOMAIN groups
            <4>1. groups'[g] = <<Pair(p)>>
                BY <2>2, <3>2
            <4>2. DOMAIN groups'[g] = 1 .. 0 + 1 /\ groups'[g][0 + 1] = Pair(p) /\ 0 \in Nat
                BY <4>1
            <4>. QED  BY <3>2, <4>2
        <3>. QED  BY <3>1, <3>2
    <2>4. ASSUME NEW s \in DOMAIN groups', NEW m \in DOMAIN groups'[s]
          PROVE  \E j \in DOMAIN input' : OfService(j, s)' /\ groups'[s][m] = Pair(input'[j])
        <3>1. CASE s # g
            BY <1>1, <1>2, <1>3, <2>2, <3>1 DEF Pair
        <3>2. CASE s = g /\ m = k + 1
            BY <1>1, <1>2, <1>7, <2>3, <3>2 DEF Pair, g
        <3>3. CASE s = g /\ m # k + 1
            <4>1. m \in 1 .. k /\ g \in DOMAIN groups
                BY <2>3, <3>3
            <4>. QED  BY <1>1, <1>2, <1>3, <2>3, <3>3, <4>1 DEF Pair
        <3>. QED  BY <3>1, <3>2, <3>3
    <2>5. ASSUME NEW i \in DOMAIN input', NEW s, OfService(i, s)'
          PROVE  s \notin Inherited /\ s \in DOMAIN groups' /\ FirstPair(i, s)'
        <3>1. CASE i \in DOMAIN input
            <4>1. OfService(i, s) /\ s \notin Inherited /\ s \in DOMAIN groups
                BY <1>2, <1>3, <2>5, <3>1
            <4>2. CASE s # g
                BY <1>5, <2>2, <3>1, <4>1, <4>2
            <4>3. CASE s = g
                <5>1. DOMAIN groups[s] = 1 .. k /\ DOMAIN groups'[s] = 1 .. k + 1
                      /\ \A m \in 1 .. k : groups'[s][m] = groups[s][m]
                    BY <2>3, <4>1, <4>3
                <5>2. \A m \in 1 .. k : \A l \in 1 .. k + 1 : l < m => l \in 1 .. k
                    OBVIOUS
                <5>. QED  BY <1>5, <2>2, <3>1, <4>1, <5>1, <5>2
            <4>. QED  BY <4>2, <4>3, <4>1, <2>2
        <3>2. CASE i = n
            <4>1. s = g /\ s \in DOMAIN groups' /\ s \notin Inherited
                BY <1>2, <2>1, <2>2, <2>5, <3>2 DEF g
            <4>2. CASE \E m \in 1 .. k : g \in DOMAIN groups /\ groups[g][m].key = Last(p)
                <5>1. PICK m \in 1 .. k : g \in DOMAIN groups /\ groups[g][m].key = Last(p)
                    BY <4>2
                <5>2. PICK h \in DOMAIN input : OfService(h, g) /\ groups[g][m] = Pair(input[h])
                    BY <1>3, <2>3, <5>1
                <5>3. Last(input[h]) = Last(p)
                    BY <5>1, <5>2 DEF Pair
                <5>4. FirstPair(h, g)'
                    <6>1. DOMAIN groups[g] = 1 .. k /\ DOMAIN groups'[g] = 1 .. k + 1
                          /\ \A l \in 1 .. k : groups'[g][l] = groups[g][l]
                        BY <2>3, <5>1
                    <6>2. \A l \in 1 .. k : \A o \in 1 .. k + 1 : o < l => o \in 1 .. k
                        OBVIOUS
                    <6>. QED  BY <1>5, <2>2, <5>1, <5>2, <6>1, <6>2
                <5>5. PICK f \in DOMAIN groups'[g] :
                          /\ \A l \in DOMAIN groups'[g] : l < f => groups'[g][l].key # Last(input'[h])
                          /\ groups'[g][f].key = Last(input'[h])
                          /\ \E j \in 1 .. h : OfService(j, g)' /\ groups'[g][f] = Pair(input'[j])
                    BY <5>4 DEF FirstPair, Pair
                <5>6. 1 .. h \subseteq 1 .. n
                    BY <1>1
                <5>7. Last(input'[h]) = Last(input'[n])
                    BY <1>1, <5>3
                <5>. QED  BY <3>2, <4>1, <5>5, <5>6, <5>7 DEF FirstPair, Pair
            <4>3. CASE ~\E m \in 1 .. k : g \in DOMAIN groups /\ groups[g][m].key = Last(p)
                <5>1. \A m \in DOMAIN groups'[g] : m < k + 1 => groups'[g][m].key # Last(input'[n])
                    <6>1. CASE g \in DOMAIN groups
                        BY <1>1, <2>3, <4>3, <6>1
                    <6>2. CASE g \notin DOMAIN groups
                        BY <2>3, <6>2
                    <6>. QED  BY <6>1, <6>2
                <5>2. /\ k + 1 \in DOMAIN groups'[g] /\ groups'[g][k + 1].key = Last(input'[n])
                      /\ groups'[g][k + 1] = Pair(input'[n])
                    BY <1>1, <2>3 DEF Pair
                <5>3. n \in 1 .. n
                    BY <1>1
                <5>. QED  BY <2>5, <3>2, <4>1, <5>1, <5>2, <5>3 DEF FirstPair, Pair
            <4>. QED  BY <4>1, <4>2, <4>3
        <3>. QED  BY <1>1, <3>1, <3>2
    <2>. QED  BY <2>4, <2>5 DEF GroupsOK, Pair
<1>8. Len(p) < 4 \/ Len(p) >= 4
    BY PathsAreWords
<1>. QED  BY <1>6, <1>7, <1>8

\* A parameter that is put in its group, or throws, keeps what the groups promise.
LEMMA GroupsTaken ==
    ASSUME MInv, NEW p \in Path, Take(p)
    PROVE  ~thrown'.groups => GroupsOK'
<1>1. /\ ShapeOK /\ input' = Append(input, p)
      /\ thrown'.groups = (thrown.groups \/ GroupThrows(p))
    BY DEF MInv, Take
<1>2. CASE thrown'.groups
    BY <1>2
<1>3. CASE ~thrown'.groups
    <2>1. ~thrown.groups /\ ~GroupThrows(p)
        BY <1>1, <1>3
    <2>2. GroupsOK
        BY <2>1 DEF MInv
    <2>3. groups' = Group(p)
        BY <1>3 DEF Take
    <2>. QED  BY <1>1, <2>1, <2>2, <2>3, Grouped
<1>. QED  BY <1>2, <1>3

-----------------------------------------------------------------------------
(* Both loops.                                                              *)

\* The objects on the way to the values of some paths are on the way to each other.
LEMMA OnTheWay ==
    ASSUME NEW leaves \in SUBSET Path, NEW inner, inner = UNION {ParentsOf(q) : q \in leaves}
    PROVE  \A p \in inner \union leaves : ParentsOf(p) \subseteq inner
<1>1. ASSUME NEW p \in leaves
      PROVE  ParentsOf(p) \subseteq inner
    BY <1>1
<1>2. ASSUME NEW p \in inner
      PROVE  ParentsOf(p) \subseteq inner
    <2>1. PICK q \in leaves : p \in ParentsOf(q)
        BY <1>2
    <2>2. q \in Seq(Word)
        BY PathsAreWords
    <2>3. p \in Seq(Word) /\ IsStrictPrefix(p, q)
        BY <2>1, <2>2, Parents
    <2>4. SUFFICES ASSUME NEW x \in ParentsOf(p)
                   PROVE  x \in ParentsOf(q)
        BY <1>1, <2>1
    <2>5. x \in Seq(Word) /\ x # <<>> /\ IsStrictPrefix(x, p)
        BY <2>3, Parents
    <2>6. IsStrictPrefix(x, q)
        BY <2>2, <2>3, <2>5, AboveAbove
    <2>. QED  BY <2>2, <2>5, <2>6, Parents
<1>. QED  BY <1>1, <1>2

\* The next parameter keeps the form of both maps.
LEMMA ShapeTaken ==
    ASSUME MInv, NEW p \in Path, Take(p)
    PROVE  ShapeOK'
<1>1. ShapeOK /\ input' = Append(input, p)
    BY DEF MInv, Take
<1>2. input' \in Seq(Path)
    BY <1>1, Answered
<1>3. thrown' \in [groups : BOOLEAN, tree : BOOLEAN]
    BY DEF MInv, ShapeOK, Take, GroupThrows, PlantThrows
<1>4. \A s \in DOMAIN groups' : groups'[s] \in Seq([key : Segment, value : Path])
    <2>1. \A s \in DOMAIN groups : groups[s] \in Seq([key : Segment, value : Path])
        BY <1>1 DEF ShapeOK
    <2>2. CASE groups' = groups
        BY <2>1, <2>2
    <2>3. CASE groups' = Group(p) /\ Len(p) >= 4
        <3>1. /\ DOMAIN groups' = DOMAIN groups \union {p[4]}
              /\ \A s \in DOMAIN groups : s # p[4] => groups'[s] = groups[s]
              /\ p[4] \in DOMAIN groups => groups'[p[4]] = Append(groups[p[4]], Pair(p))
              /\ p[4] \notin DOMAIN groups => groups'[p[4]] = <<Pair(p)>>
              /\ Pair(p) \in [key : Segment, value : Path]
            BY <1>1, <2>3, Paired
        <3>2. groups'[p[4]] \in Seq([key : Segment, value : Path])
            <4>1. PICK x, P : x = Pair(p) /\ P = [key : Segment, value : Path]
                OBVIOUS
            <4>2. x \in P /\ <<x>> \in Seq(P) /\ \A w \in Seq(P) : Append(w, x) \in Seq(P)
                BY <3>1, <4>1
            <4>3. CASE p[4] \in DOMAIN groups
                BY <2>1, <3>1, <4>1, <4>2, <4>3
            <4>4. CASE p[4] \notin DOMAIN groups
                BY <3>1, <4>1, <4>2, <4>4
            <4>. QED  BY <4>3, <4>4
        <3>. QED  BY <2>1, <3>1, <3>2
    <2>4. CASE groups' = Group(p) /\ Len(p) < 4
        BY <2>2, <2>4 DEF Group
    <2>5. Len(p) < 4 \/ Len(p) >= 4
        BY PathsAreWords
    <2>6. groups' = groups \/ groups' = Group(p)
        BY DEF Take
    <2>. QED  BY <2>2, <2>3, <2>4, <2>5, <2>6
<1>5. /\ tree'.inner \intersect tree'.leaves = {}
      /\ \A q \in tree'.inner \union tree'.leaves : ParentsOf(q) \subseteq tree'.inner
    <2>1. CASE thrown'.tree
        <3>1. tree' = tree
            BY <2>1 DEF Take
        <3>. QED  BY <1>1, <3>1 DEF ShapeOK
    <2>2. CASE ~thrown'.tree
        <3>1. TreeOK'
            BY <2>2, TreeTaken
        <3>2. /\ tree'.leaves \in SUBSET Path
              /\ tree'.inner = UNION {ParentsOf(q) : q \in tree'.leaves}
            BY <1>2, <3>1 DEF TreeOK, ParentsOf
        <3>3. PICK leaves, inner : leaves = tree'.leaves /\ inner = tree'.inner
            OBVIOUS
        <3>4. leaves \in SUBSET Path /\ inner = UNION {ParentsOf(q) : q \in leaves}
            BY <3>2, <3>3
        <3>5. \A q \in inner \union leaves : ParentsOf(q) \subseteq inner
            BY <3>4, OnTheWay
        <3>. QED  BY <3>1, <3>3, <3>5 DEF TreeOK
    <2>. QED  BY <2>1, <2>2
<1>. QED  BY <1>2, <1>3, <1>4, <1>5 DEF ShapeOK, ParentsOf

LEMMA InitMInv == Init => MInv
<1> SUFFICES ASSUME Init PROVE MInv
    OBVIOUS
<1>1. /\ input = <<>> /\ DOMAIN input = {} /\ input \in Seq(Path)
      /\ groups = <<>> /\ DOMAIN groups = {}
      /\ tree.inner = {} /\ tree.leaves = {} /\ ~thrown.tree /\ ~thrown.groups
    BY DEF Init
<1>2. ShapeOK
    BY <1>1 DEF Init, ShapeOK
<1>3. TreeOK
    BY <1>1 DEF TreeOK, Collision, Range
<1>4. GroupsOK
    BY <1>1 DEF GroupsOK
<1>. QED  BY <1>1, <1>2, <1>3, <1>4 DEF MInv

LEMMA NextMInv == MInv /\ [Next]_mvars => MInv'
<1> SUFFICES ASSUME MInv, [Next]_mvars PROVE MInv'
    OBVIOUS
<1>1. ASSUME NEW p \in Path, Take(p)
      PROVE  MInv'
    BY <1>1, ShapeTaken, TreeTaken, GroupsTaken DEF MInv
<1>2. CASE UNCHANGED mvars
    <2>1. input' = input /\ groups' = groups /\ tree' = tree /\ thrown' = thrown
        BY <1>2 DEF mvars
    <2>2. ShapeOK' = ShapeOK
        BY <2>1 DEF ShapeOK, ParentsOf
    <2>3. TreeOK' = TreeOK /\ Collision' = Collision
        BY <2>1 DEF TreeOK, Collision, Shadowed, ParentsOf
    <2>4. GroupsOK' = GroupsOK
        BY <2>1 DEF GroupsOK, FirstPair, OfService, Pair
    <2>. QED  BY <2>1, <2>2, <2>3, <2>4 DEF MInv
<1>. QED  BY <1>1, <1>2 DEF Next

LEMMA Invariance == Spec => []MInv
BY InitMInv, NextMInv, PTL DEF Spec

-----------------------------------------------------------------------------
(* The lookups.                                                             *)

\* getConfigs: the full path of a key that is looked up for a tenant is a sequence of
\* words, of which the first three are not the key's.
LEMMA FullPath ==
    ASSUME NEW q \in Path, NEW t \in Tenant, NEW n \in Nat, n <= Len(q)
    PROVE  /\ <<Root, t, Env>> \o SubSeq(q, 4, n) \in Seq(Word)
           /\ Len(<<Root, t, Env>> \o SubSeq(q, 4, n)) >= 3
<1>1. q \in Seq(Word) /\ Len(q) \in Nat
    BY PathsAreWords
<1>2. SubSeq(q, 4, n) \in Seq(Word) /\ Len(SubSeq(q, 4, n)) \in Nat
    <2>1. \A i \in 4 .. n : q[i] \in Word
        BY <1>1
    <2>2. SubSeq(q, 4, n) \in Seq(Word)
        BY <2>1, SubSeqProperties
    <2>. QED  BY <2>2
<1>3. <<Root, t, Env>> \in Seq(Word) /\ Len(<<Root, t, Env>>) = 3
    BY DEF Word
<1>4. PICK a, b : a = <<Root, t, Env>> /\ b = SubSeq(q, 4, n)
    OBVIOUS
<1>5. a \o b \in Seq(Word) /\ Len(a \o b) >= 3
    <2>1. a \in Seq(Word) /\ Len(a) = 3 /\ b \in Seq(Word) /\ Len(b) \in Nat
        BY <1>2, <1>3, <1>4
    <2>2. a \o b \in Seq(Word) /\ Len(a \o b) = Len(a) + Len(b)
        BY <2>1, ConcatProperties
    <2>. QED  BY <2>1, <2>2
<1>. QED  BY <1>4, <1>5

\* getValueFromMap: a path is followed to its end if and only if each of its prefixes is
\* in the tree and none of its segments is refused; else the answer is no path.
LEMMA Followed ==
    ASSUME NEW p \in Seq(Word), Len(p) >= 3
    PROVE  /\ getValueFromMap(p) = p <=>
                  \A n \in 1 .. Len(p) : Known(SubSeq(p, 1, n)) /\ p[n] \notin Dangerous
           /\ getValueFromMap(p) \in {p, Missing, Refused}
           /\ p # Missing /\ p # Refused
<1> DEFINE unknown == {n \in 1 .. Len(p) : ~Known(SubSeq(p, 1, n))}
           refused == {n \in 1 .. Len(p) : p[n] \in Dangerous}
<1>1. getValueFromMap(p) =
          IF \E n \in refused : \A m \in unknown : n <= m THEN Refused
          ELSE IF unknown # {} THEN Missing
          ELSE p
    BY DEF getValueFromMap
<1>2. p # Missing /\ p # Refused
    <2>1. Len(Missing) = 1 /\ Len(Refused) = 1
        BY DEF Missing, Refused
    <2>2. Len(p) # 1
        <3>1. Len(p) \in Nat
            OBVIOUS
        <3>2. \A l \in Nat : l >= 3 => l # 1
            OBVIOUS
        <3>. QED  BY <3>1, <3>2
    <2>. QED  BY <2>1, <2>2, Zenon
<1>3. (\A n \in 1 .. Len(p) : Known(SubSeq(p, 1, n)) /\ p[n] \notin Dangerous)
          <=> unknown = {} /\ refused = {}
    OBVIOUS
<1> HIDE DEF unknown, refused
<1>. QED  BY <1>1, <1>2, <1>3

\* What is in the tree: a parameter that is not shadowed, or what lies above one.
LEMMA InTheTree ==
    ASSUME ShapeOK, TreeOK, NEW p \in Seq(Word), p # <<>>
    PROVE  Known(p) <=> \E q \in tree.leaves : p = q \/ IsStrictPrefix(p, q)
BY TreeOfWords DEF Known

\* A path is followed to its end if and only if a parameter that is not shadowed lies
\* there or below.
LEMMA Reached ==
    ASSUME ShapeOK, TreeOK, NEW p \in Seq(Word), Len(p) >= 3
    PROVE  getValueFromMap(p) = p <=> \E q \in tree.leaves : p = q \/ IsStrictPrefix(p, q)
<1>0. Len(p) \in Nat /\ p # <<>>
    OBVIOUS
<1>1. ASSUME getValueFromMap(p) = p
      PROVE  \E q \in tree.leaves : p = q \/ IsStrictPrefix(p, q)
    <2>1. Known(SubSeq(p, 1, Len(p)))
        BY <1>0, <1>1, Followed
    <2>2. SubSeq(p, 1, Len(p)) = p
        BY SubSeqFull
    <2>. QED  BY <1>0, <2>1, <2>2, InTheTree
<1>2. ASSUME NEW q \in tree.leaves, p = q \/ IsStrictPrefix(p, q)
      PROVE  getValueFromMap(p) = p
    <2>1. q \in Seq(Word) /\ q \in Range(input)
        BY TreeOfWords
    <2>2. Range(q) \intersect Dangerous = {}
        BY <2>1 DEF TreeOK, Collision
    <2>3. ASSUME NEW n \in 1 .. Len(p)
          PROVE  Known(SubSeq(p, 1, n)) /\ p[n] \notin Dangerous
        <3>1. p[n] \in Range(q)
            <4>1. CASE p = q
                BY <2>1, <4>1 DEF Range
            <4>2. CASE IsStrictPrefix(p, q)
                <5>1. Len(p) < Len(q) /\ p[n] = q[n]
                    BY <2>1, <4>2, Above
                <5>2. n \in DOMAIN q
                    BY <1>0, <2>1, <5>1
                <5>. QED  BY <5>1, <5>2 DEF Range
            <4>. QED  BY <1>2, <4>1, <4>2
        <3>2. CASE n = Len(p)
            <4>1. SubSeq(p, 1, n) = p
                BY <3>2, SubSeqFull
            <4>2. Known(p)
                BY <1>0, <1>2, InTheTree
            <4>. QED  BY <2>2, <3>1, <4>1, <4>2
        <3>3. CASE n # Len(p)
            <4>1. PICK x : x = SubSeq(p, 1, n)
                OBVIOUS
            <4>2. x \in ParentsOf(p)
                BY <1>0, <3>3, <4>1 DEF ParentsOf
            <4>3. x \in Seq(Word) /\ x # <<>> /\ IsStrictPrefix(x, p)
                BY <4>2, Parents
            <4>4. IsStrictPrefix(x, q)
                BY <1>2, <2>1, <4>3, AboveAbove
            <4>5. Known(x)
                BY <4>3, <4>4, InTheTree
            <4>. QED  BY <2>2, <3>1, <4>1, <4>5
        <3>. QED  BY <3>2, <3>3
    <2>. QED  BY <2>3, Followed
<1>. QED  BY <1>1, <1>2

\* What getConfigs answers for a key of a tenant, in a tree that was not refused.
LEMMA Answers ==
    ASSUME ShapeOK, TreeOK, NEW q \in Path, NEW t \in Tenant, NEW n \in Nat, n <= Len(q),
           NEW key, key = SubSeq(q, 4, n),
           NEW own, own = <<Root, t, Env>> \o key
    PROVE  /\ own \in Seq(Word)
           /\ getConfigs(t, key) = own <=>
                  \E l \in tree.leaves : own = l \/ IsStrictPrefix(own, l)
           /\ getConfigs(t, key) \in {own, Missing, Refused}
<1>1. own \in Seq(Word) /\ Len(own) >= 3
    BY FullPath
<1>2. getConfigs(t, key) = getValueFromMap(own)
    BY DEF getConfigs
<1>. QED  BY <1>1, <1>2, Reached, Followed

LEMMA ServesByTree == MInv => TreeServes
<1> SUFFICES ASSUME MInv, ~thrown.tree, NEW q \in Path, NEW t \in Tenant,
                    NEW key, key = SubSeq(q, 4, Len(q)),
                    NEW own, own = <<Root, t, Env>> \o key
             PROVE  IF own \in Range(input)
                          /\ ~\E i, j \in DOMAIN input :
                                  i < j /\ own = input[i] /\ IsStrictPrefix(input[j], own)
                    THEN getConfigs(t, key) = own /\ own \in tree.leaves
                    ELSE getConfigs(t, key) \notin tree.leaves
    BY DEF TreeServes
<1>0. ShapeOK /\ TreeOK /\ Len(q) \in Nat
    BY PathsAreWords DEF MInv
<1>1. /\ own \in Seq(Word)
      /\ getConfigs(t, key) = own <=>
             \E l \in tree.leaves : own = l \/ IsStrictPrefix(own, l)
      /\ getConfigs(t, key) \in {own, Missing, Refused}
    <2>1. PICK n \in Nat : n = Len(q) /\ n <= Len(q)
        BY <1>0
    <2>2. key = SubSeq(q, 4, n) /\ n <= Len(q) /\ own = <<Root, t, Env>> \o key
        BY <2>1
    <2>. QED  BY <1>0, <2>2, Answers, Zenon
<1>2. tree.leaves = {input[i] : i \in {k \in DOMAIN input : ~Shadowed(k)}}
    BY <1>0 DEF TreeOK
<1>3. Missing \notin tree.leaves /\ Refused \notin tree.leaves
    BY <1>0, TreeOfWords, ResultAssumption
<1>4. own \in tree.leaves => own \in Range(input)
    BY <1>2 DEF Range
<1>5. own \in Range(input) =>
          (own \in tree.leaves <=>
              ~\E i, j \in DOMAIN input :
                    i < j /\ own = input[i] /\ IsStrictPrefix(input[j], own))
    <2>1. ASSUME NEW i \in DOMAIN input, NEW j \in DOMAIN input,
                 i < j, own = input[i], IsStrictPrefix(input[j], own), own \in tree.leaves
          PROVE  FALSE
        <3>1. PICK k \in DOMAIN input : ~Shadowed(k) /\ own = input[k]
            BY <1>2, <2>1
        <3>2. ~(k < j)
            BY <2>1, <3>1 DEF Shadowed
        <3>3. j < k \/ j = k
            BY <1>0, <2>1, <3>2 DEF ShapeOK
        <3>4. j # k
            BY <2>1, <3>1 DEF IsStrictPrefix
        <3>5. j < k /\ IsStrictPrefix(input[j], input[k])
            BY <2>1, <3>1, <3>3, <3>4
        <3>. QED  BY <1>0, <3>5 DEF TreeOK, Collision
    <2>2. ASSUME own \in Range(input), own \notin tree.leaves
          PROVE  \E i, j \in DOMAIN input :
                    i < j /\ own = input[i] /\ IsStrictPrefix(input[j], own)
        <3>1. PICK i \in DOMAIN input : own = input[i]
            BY <2>2 DEF Range
        <3>2. Shadowed(i)
            BY <1>2, <2>2, <3>1
        <3>. QED  BY <3>1, <3>2 DEF Shadowed
    <2>. QED  BY <2>1, <2>2
<1>. QED  BY <1>1, <1>3, <1>4, <1>5

LEMMA ValuesBelow == MInv => ObjectsHaveAValueBelow
<1> SUFFICES ASSUME MInv, ~thrown.tree, NEW q \in Path, NEW t \in Tenant,
                    NEW n \in 4 .. Len(q)
             PROVE  getConfigs(t, SubSeq(q, 4, n)) = <<Root, t, Env>> \o SubSeq(q, 4, n) <=>
                        \E i \in DOMAIN input :
                            /\ IsPrefix(<<Root, t, Env>> \o SubSeq(q, 4, n), input[i])
                            /\ ~Shadowed(i)
    BY Zenon DEF ObjectsHaveAValueBelow, Shadowed
<1>a. PICK key : key = SubSeq(q, 4, n)
    OBVIOUS
<1>b. PICK own : own = <<Root, t, Env>> \o key
    OBVIOUS
<1>0. ShapeOK /\ TreeOK /\ Len(q) \in Nat
    BY PathsAreWords DEF MInv
<1>1. n \in Nat /\ n <= Len(q)
    BY <1>0
<1>2. /\ own \in Seq(Word)
      /\ getConfigs(t, key) = own <=>
             \E l \in tree.leaves : own = l \/ IsStrictPrefix(own, l)
    BY <1>0, <1>1, <1>a, <1>b, Answers
<1>3. tree.leaves = {input[i] : i \in {k \in DOMAIN input : ~Shadowed(k)}}
    BY <1>0 DEF TreeOK
<1>4. \A i \in DOMAIN input :
          IsPrefix(own, input[i]) <=> own = input[i] \/ IsStrictPrefix(own, input[i])
    BY <1>0, <1>2, PrefixIs, Answered, PathsAreWords
<1>5. getConfigs(t, key) = own <=>
          \E i \in DOMAIN input : IsPrefix(own, input[i]) /\ ~Shadowed(i)
    BY <1>2, <1>3, <1>4
<1>. QED  BY <1>5, <1>a, <1>b

LEMMA ServedByGroups == MInv => GroupsServe
<1> SUFFICES ASSUME MInv, ~thrown.groups, NEW i \in DOMAIN input, Len(input[i]) >= 4
             PROVE  \E j \in 1 .. i :
                        /\ getConfig(input[i][4], Last(input[i])) = input[j]
                        /\ Len(input[j]) >= 4 /\ input[j][4] = input[i][4]
                        /\ Last(input[j]) = Last(input[i])
    BY DEF GroupsServe
<1> DEFINE s == input[i][4]
           hits == {n \in DOMAIN groups[s] : groups[s][n].key = Last(input[i])}
<1>0. ShapeOK /\ GroupsOK
    BY DEF MInv
<1>1. s \notin Inherited /\ s \in DOMAIN groups /\ FirstPair(i, s)
    BY <1>0 DEF GroupsOK, OfService
<1>2. PICK n \in DOMAIN groups[s] :
          /\ \A m \in DOMAIN groups[s] : m < n => groups[s][m].key # Last(input[i])
          /\ groups[s][n].key = Last(input[i])
          /\ \E j \in 1 .. i : OfService(j, s) /\ groups[s][n] = Pair(input[j])
    BY <1>1 DEF FirstPair
<1>3. DOMAIN groups[s] \subseteq Nat
    BY <1>0, <1>1 DEF ShapeOK
<1>4. n \in hits /\ \A m \in hits : n <= m
    BY <1>2, <1>3
<1>5. Min(hits) = n
    <2>1. \A x \in hits : (\A m \in hits : x <= m) => x = n
        BY <1>3, <1>4
    <2>. QED  BY <1>4, <2>1 DEF Min
<1>6. getConfig(s, Last(input[i])) = groups[s][n].value
    BY <1>1, <1>4, <1>5 DEF getConfig
<1>. QED  BY <1>2, <1>6 DEF OfService, Pair

-----------------------------------------------------------------------------
(* The theorems.                                                            *)

\* paramMapper, newParamMapper: the maps are well formed after every parameter; no path
\* has both a value and parameters below it, and every object has its parent.
THEOREM TypeCorrect == Spec => []TypeOK
<1>1. MInv => TypeOK
    BY DEF MInv, ShapeOK, TypeOK
<1>. QED  BY <1>1, Invariance, PTL

\* newParamMapper: it throws exactly for an answer with a refused segment, or with a value
\* before a parameter below it; the order of all the others does not matter to it.
THEOREM RefusedExactly == Spec => []TreeThrowsOnCollision
<1>1. MInv => TreeThrowsOnCollision
    BY DEF MInv, TreeThrowsOnCollision, TreeOK, Collision
<1>. QED  BY <1>1, Invariance, PTL

\* getConfigs: a tenant finds its own parameter under its key, and never gets the value of
\* another path.
THEOREM OwnIsServed == Spec => []TreeServes
BY ServesByTree, Invariance, PTL

\* getValueFromMap: an answer that is no value is an object with a value somewhere below.
THEOREM ObjectsHold == Spec => []ObjectsHaveAValueBelow
BY ValuesBelow, Invariance, PTL

\* paramMapper, getConfig: every parameter can be looked up by its service and its last
\* segment; what is returned has these and came no later.
THEOREM GroupsFind == Spec => []GroupsServe
BY ServedByGroups, Invariance, PTL
=============================================================================
