---------------------------- MODULE PassagesProofs ----------------------------
(***************************************************************************)
(* The passages of any text under any limits. The chunks: the argument     *)
(* follows the list of finished chunks with the one being packed behind    *)
(* them (`Listed'), which is a good one from the first sentence on         *)
(* (`Packed'), and folding a short tail into its predecessor keeps what is *)
(* promised of it. The quotes: what an operation on a text does is said of *)
(* the places of the publisher's text (`Reads'), and two orders of         *)
(* operations agree because they leave the same places.                    *)
(***************************************************************************)
EXTENDS Passages, FiniteSetTheorems, WellFoundedInduction, TLAPS

(* Least and greatest numbers *)

LEMMA LeastNatural ==
    ASSUME NEW n \in Nat, NEW S \in SUBSET (0 .. n), S # {}
    PROVE  Min(S) \in S /\ \A y \in S : Min(S) <= y
<1> DEFINE Below(x) == {y \in S : y < x}
           all == {Below(x) : x \in S}
<1>1. IsFiniteSet(S)
  <2>1. IsFiniteSet(0 .. n)
    BY FS_Interval
  <2>2. QED
    BY <2>1, FS_Subset
<1>2. all \subseteq FiniteSubsetsOf(S) /\ all # {}
  <2>1. \A x \in S : Below(x) \in SUBSET S
    OBVIOUS
  <2>2. \A x \in S : IsFiniteSet(Below(x))
    BY <1>1, <2>1, FS_Subset
  <2> HIDE DEF Below
  <2>3. QED
    BY <2>1, <2>2 DEF FiniteSubsetsOf
<1>3. PICK B \in all : \A C \in all : ~(<<C, B>> \in StrictSubsetOrdering(S))
  BY <1>1, <1>2, FS_StrictSubsetOrderingWellFounded, WFMin
<1>4. PICK x \in S : B = Below(x)
  OBVIOUS
<1>5. ASSUME NEW y \in S, y < x
      PROVE  FALSE
  <2>1. ASSUME NEW z \in Below(y)
        PROVE  z \in Below(x)
    <3>1. z \in Nat /\ y \in Nat /\ x \in Nat /\ z < y
      OBVIOUS
    <3>2. QED
      BY <1>5, <3>1
  <2>2. y \in Below(x) /\ y \notin Below(y)
    BY <1>5
  <2>3. <<Below(y), Below(x)>> \in StrictSubsetOrdering(S)
    BY <2>1, <2>2 DEF StrictSubsetOrdering
  <2>4. QED
    BY <1>3, <1>4, <2>3
<1>6. \A y \in S : x <= y
  BY <1>5
<1>7. QED
  BY <1>6 DEF Min

LEMMA GreatestNatural ==
    ASSUME NEW n \in Nat, NEW S \in SUBSET (0 .. n), S # {}
    PROVE  Max(S) \in S /\ \A y \in S : y <= Max(S)
<1> DEFINE below == {n - y : y \in S}
<1>1. below \in SUBSET (0 .. n) /\ below # {}
  <2>1. \A y \in S : n - y \in 0 .. n
    OBVIOUS
  <2>2. QED
    BY <2>1
<1>2. Min(below) \in below /\ \A z \in below : Min(below) <= z
  BY <1>1, LeastNatural
<1>3. PICK x \in S : Min(below) = n - x
  BY <1>2
<1>4. \A y \in S : n - x <= n - y
  BY <1>2, <1>3
<1>5. \A y \in S : y <= x
  BY <1>4
<1>6. QED
  BY <1>5 DEF Max

-----------------------------------------------------------------------------
(* Sentences *)

LEMMA Sentences ==
    ASSUME NEW text \in Seq(Chars)
    PROVE  /\ Ends(text) \subseteq 1 .. Len(text) /\ Starts(text) \subseteq 0 .. Len(text)
           /\ 0 \in Starts(text)
           /\ \A i \in Ends(text) : i # Len(text) => i \in Starts(text)
           /\ text # <<>> => Len(text) \in Ends(text) /\ Len(text) > 0
  BY DEF Ends, Starts

\* NextEnd of any text.
LEMMA SentenceAhead ==
    ASSUME NEW text \in Seq(Chars), NEW from \in Nat, from < Len(text)
    PROVE  LET ahead == {i \in Ends(text) : i > from} IN
           /\ Min(ahead) \in Ends(text) /\ Min(ahead) > from
           /\ Ends(text) \cap (from + 1) .. Min(ahead) = {Min(ahead)}
<1> DEFINE ahead == {i \in Ends(text) : i > from}
<1>1. Len(text) \in ahead
  BY Sentences
<1>2. ahead \in SUBSET (0 .. Len(text)) /\ Len(text) \in Nat
  BY Sentences
<1>3. Min(ahead) \in ahead /\ \A i \in ahead : Min(ahead) <= i
  BY <1>1, <1>2, LeastNatural
<1> HIDE DEF ahead
<1>4. QED
  <2>1. Min(ahead) \in Ends(text) /\ Min(ahead) > from /\ Min(ahead) \in Nat
    BY <1>2, <1>3 DEF ahead
  <2>4. from + 1 \in Nat /\ Ends(text) \subseteq Nat
    BY Sentences
  <2>2. ASSUME NEW i \in Ends(text) \cap (from + 1) .. Min(ahead)
        PROVE  i = Min(ahead)
    <3>1. i \in ahead
      BY <2>4 DEF ahead
    <3>2. Min(ahead) <= i /\ i <= Min(ahead) /\ i \in Nat
      BY <1>3, <2>1, <2>4, <3>1
    <3>3. QED
      BY <2>1, <3>2
  <2>3. Min(ahead) \in (from + 1) .. Min(ahead)
    BY <2>1
  <2>5. QED
    BY <2>1, <2>2, <2>3 DEF ahead

\* Aligned of any text: the start of the sentence a position is in.
LEMMA SentenceStart ==
    ASSUME NEW text \in Seq(Chars), NEW target \in Nat
    PROVE  LET before == {i \in Starts(text) : i <= target} IN
           /\ Max(before) \in Starts(text) /\ Max(before) <= target
           /\ \A i \in Starts(text) : i <= target => i <= Max(before)
<1> DEFINE before == {i \in Starts(text) : i <= target}
<1>1. 0 \in before /\ before \in SUBSET (0 .. Len(text)) /\ Len(text) \in Nat
  BY Sentences
<1>2. Max(before) \in before /\ \A i \in before : i <= Max(before)
  BY <1>1, GreatestNatural
<1>3. QED
  BY <1>2

-----------------------------------------------------------------------------
(* Texts *)

\* The places of what is left of a text: those of its other characters, in order.
Places(kept, text, kind) ==
    LET left == {i \in DOMAIN text : text[i] # kind} IN
    \E f \in [1 .. Len(kept) -> left] :
       /\ \A r, s \in 1 .. Len(kept) : r < s => f[r] < f[s]
       /\ \A i \in left : \E r \in 1 .. Len(kept) : f[r] = i
       /\ \A r \in 1 .. Len(kept) : kept[r] = text[f[r]]

LEMMA LeftOver ==
    ASSUME NEW S, NEW text \in Seq(S), NEW kind
    PROVE  LET kept == Without(kind, text) IN
           /\ kept \in Seq(S \ {kind}) /\ Len(kept) <= Len(text)
           /\ Places(kept, text, kind)
<1> DEFINE left == {i \in DOMAIN text : text[i] # kind}
           upTo(i) == {j \in left : j <= i}
           rank == [i \in left |-> Cardinality(upTo(i))]
           most == Cardinality(left)
           kept == Without(kind, text)
<1>1. /\ DOMAIN text = 1 .. Len(text) /\ Len(text) \in Nat
      /\ left \in SUBSET (1 .. Len(text)) /\ \A i \in left : text[i] \in S \ {kind}
  OBVIOUS
<1>2. IsFiniteSet(left) /\ most \in Nat /\ most <= Len(text)
  <2>1. IsFiniteSet(1 .. Len(text)) /\ Cardinality(1 .. Len(text)) = Len(text)
    <3>1. /\ IsFiniteSet(1 .. Len(text))
          /\ Cardinality(1 .. Len(text)) = IF 1 > Len(text) THEN 0 ELSE Len(text) - 1 + 1
      BY <1>1, FS_Interval
    <3>2. QED
      BY <1>1, <3>1
  <2>2. QED
    BY <1>1, <2>1, FS_Subset, FS_CardinalityType
<1>3. \A i \in left : IsFiniteSet(upTo(i)) /\ rank[i] \in 1 .. most
  <2> TAKE i \in left
  <2>1. upTo(i) \in SUBSET left /\ i \in upTo(i) /\ upTo(i) # {}
    BY <1>1
  <2>2. IsFiniteSet(upTo(i)) /\ Cardinality(upTo(i)) <= most
    BY <1>2, <2>1, FS_Subset
  <2>3. Cardinality(upTo(i)) \in Nat /\ Cardinality(upTo(i)) # 0
    BY <2>1, <2>2, FS_CardinalityType, FS_EmptySet
  <2> HIDE DEF upTo, most
  <2>4. QED
    BY <1>2, <2>2, <2>3
<1>4. ASSUME NEW i \in left, NEW j \in left, i < j
      PROVE  rank[i] < rank[j]
  <2>1. upTo(i) \in SUBSET upTo(j)
    <3>1. i \in Nat /\ j \in Nat /\ left \in SUBSET Nat
      BY <1>1
    <3>2. QED
      BY <1>4, <3>1
  <2>2. j \in upTo(j) /\ j \notin upTo(i)
    BY <1>1, <1>4
  <2>3. /\ Cardinality(upTo(i)) # Cardinality(upTo(j))
        /\ Cardinality(upTo(i)) <= Cardinality(upTo(j))
    BY <1>3, <2>1, <2>2, FS_Subset
  <2>4. rank[i] = Cardinality(upTo(i)) /\ rank[j] = Cardinality(upTo(j))
    OBVIOUS
  <2> HIDE DEF rank, upTo, most, left
  <2>5. rank[i] \in Nat /\ rank[j] \in Nat
    BY <1>2, <1>3
  <2>6. QED
    BY <2>3, <2>4, <2>5
<1>5. ASSUME NEW i \in left, NEW j \in left, rank[i] = rank[j]
      PROVE  i = j
  <2> HIDE DEF rank, upTo, most, left
  <2>1. i \in Nat /\ j \in Nat /\ rank[i] \in Nat
    BY <1>1, <1>2, <1>3
  <2>2. ~(i < j) /\ ~(j < i)
    BY <1>4, <1>5, <2>1
  <2>3. QED
    BY <2>1, <2>2
<1>6. \A r \in 1 .. most : \E i \in left : rank[i] = r
  <2>1. IsFiniteSet(1 .. most) /\ Cardinality(1 .. most) = most
    BY <1>2, FS_Interval
  <2>2. rank \in [left -> 1 .. most]
    BY <1>3
  <2>3. rank \in Injection(left, 1 .. most)
    <3> HIDE DEF rank, left
    <3>1. QED
      BY <1>5, <2>2 DEF Injection, IsInjective
  <2>4. rank \in Surjection(left, 1 .. most)
    BY <2>1, <2>3, FS_Injection
  <2> HIDE DEF rank, left
  <2>5. QED
    BY <2>4 DEF Surjection
<1> DEFINE at(r) == CHOOSE i \in left : rank[i] = r
<1>7. \A r \in 1 .. most : at(r) \in left /\ rank[at(r)] = r
  BY <1>6
<1>8. CASE left = DOMAIN text
  <2>1. kept = text
    BY <1>8 DEF Without
  <2>2. text \in Seq(S \ {kind})
    BY <1>1, <1>8
  <2> DEFINE f == [r \in 1 .. Len(text) |-> r]
  <2>3. /\ f \in [1 .. Len(text) -> left] /\ \A r, s \in 1 .. Len(text) : r < s => f[r] < f[s]
        /\ \A i \in left : \E r \in 1 .. Len(text) : f[r] = i
        /\ \A r \in 1 .. Len(text) : text[r] = text[f[r]]
    BY <1>1, <1>8
  <2>4. \E e \in [1 .. Len(kept) -> left] :
           /\ \A r, s \in 1 .. Len(kept) : r < s => e[r] < e[s]
           /\ \A i \in left : \E r \in 1 .. Len(kept) : e[r] = i
           /\ \A r \in 1 .. Len(kept) : kept[r] = text[e[r]]
    <3> HIDE DEF kept, left, f
    <3>1. QED
      BY <2>1, <2>3
  <2>5. Places(kept, text, kind)
    <3> HIDE DEF kept
    <3>1. QED
      BY <2>4 DEF Places
  <2>6. QED
    BY <1>1, <2>1, <2>2, <2>5
<1>9. CASE left # DOMAIN text
  <2>1. kept = [r \in 1 .. most |-> text[at(r)]]
    BY <1>9 DEF Without
  <2> DEFINE f == [r \in 1 .. most |-> at(r)]
  <2>2. \A r \in 1 .. most : text[at(r)] \in S \ {kind}
    BY <1>1, <1>7
  <2>3. f \in [1 .. most -> left] /\ \A r \in 1 .. most : rank[f[r]] = r
    BY <1>7
  <2> HIDE DEF at, most, rank, left
  <2>4. [r \in 1 .. most |-> text[at(r)]] \in Seq(S \ {kind})
    BY <1>2, <2>2
  <2>5. Len(kept) = most /\ kept \in Seq(S \ {kind})
    BY <1>2, <2>1, <2>4
  <2>6. ASSUME NEW r \in 1 .. most, NEW s \in 1 .. most, r < s
        PROVE  f[r] < f[s]
    <3>1. f[r] \in left /\ f[s] \in left /\ rank[f[r]] = r /\ rank[f[s]] = s
      BY <2>3
    <3>2. f[r] # f[s] /\ left \in SUBSET Nat
      BY <1>1, <2>6, <3>1
    <3>5. f[r] \in Nat /\ f[s] \in Nat
      BY <3>1, <3>2
    <3>3. ~(f[s] < f[r])
      BY <1>2, <1>4, <2>6, <3>1
    <3>4. QED
      BY <3>2, <3>3, <3>5
  <2>7. ASSUME NEW i \in left
        PROVE  \E r \in 1 .. most : f[r] = i
    <3>1. rank[i] \in 1 .. most
      BY <1>3
    <3>2. f[rank[i]] \in left /\ rank[f[rank[i]]] = rank[i]
      BY <2>3, <3>1
    <3>3. QED
      BY <1>5, <3>1, <3>2
  <2>8. \A r \in 1 .. most : kept[r] = text[f[r]]
    BY <2>1
  <2> HIDE DEF kept, f
  <2>9. \E e \in [1 .. Len(kept) -> left] :
           /\ \A r, s \in 1 .. Len(kept) : r < s => e[r] < e[s]
           /\ \A i \in left : \E r \in 1 .. Len(kept) : e[r] = i
           /\ \A r \in 1 .. Len(kept) : kept[r] = text[e[r]]
    BY <2>3, <2>5, <2>6, <2>7, <2>8
  <2>10. Places(kept, text, kind)
    BY <2>9 DEF Places, left
  <2>11. QED
    BY <1>2, <2>5, <2>10 DEF kept
<1>10. QED
  BY <1>8, <1>9

LEMMA Composed ==
    ASSUME NEW text \in Seq(Chars)
    PROVE  Compose(text) \in Seq(Chars) /\ Len(Compose(text)) <= Len(text)
<1> DEFINE pair(i) == {i, i + 1} \subseteq DOMAIN text /\ text[i] = "base" /\ text[i + 1] = "accent"
           marked == [i \in DOMAIN text |->
                        IF pair(i) THEN "composed"
                        ELSE IF pair(i - 1) THEN "gone"
                        ELSE IF text[i] = "nbsp" THEN "space" ELSE text[i]]
<1>1. marked \in Seq(Chars \cup {"gone"}) /\ Len(marked) = Len(text)
  <2>1. \A i \in DOMAIN text : marked[i] \in Chars \cup {"gone"}
    BY DEF Chars, Letters, Blank
  <2>2. Len(text) \in Nat /\ marked \in [1 .. Len(text) -> Chars \cup {"gone"}]
    BY <2>1
  <2> HIDE DEF marked
  <2>3. QED
    BY <2>1, <2>2
<1>2. Compose(text) = Without("gone", marked)
  BY DEF Compose
<1> HIDE DEF marked
<1>3. (Chars \cup {"gone"}) \ {"gone"} = Chars
  BY DEF Chars, Letters, Blank
<1>4. QED
  BY <1>1, <1>2, <1>3, LeftOver

LEMMA Collapsed ==
    ASSUME NEW text \in Seq(Chars)
    PROVE  Collapse(text) \in Seq(Chars) /\ Len(Collapse(text)) <= Len(text)
<1> DEFINE marked == [i \in DOMAIN text |->
                IF i > 1 /\ text[i] = "space" /\ text[i - 1] = "space" THEN "gone" ELSE text[i]]
<1>1. marked \in Seq(Chars \cup {"gone"}) /\ Len(marked) = Len(text)
  <2>1. \A i \in DOMAIN text : marked[i] \in Chars \cup {"gone"}
    OBVIOUS
  <2>2. Len(text) \in Nat /\ marked \in [1 .. Len(text) -> Chars \cup {"gone"}]
    BY <2>1
  <2> HIDE DEF marked
  <2>3. QED
    BY <2>1, <2>2
<1>2. Collapse(text) = Without("gone", marked)
  BY DEF Collapse
<1> HIDE DEF marked
<1>3. (Chars \cup {"gone"}) \ {"gone"} = Chars
  BY DEF Chars, Letters, Blank
<1>4. QED
  BY <1>1, <1>2, <1>3, LeftOver

LEMMA Seen ==
    ASSUME NEW text \in Seq(Chars)
    PROVE  Visible(text) \in Seq(Chars) /\ Len(Visible(text)) <= Len(text)
<1>1. Visible(text) \in Seq(Chars \ {"invisible"}) /\ Len(Visible(text)) <= Len(text)
  BY LeftOver DEF Visible
<1>2. QED
  BY <1>1

LEMMA Stripped ==
    ASSUME NEW text \in Seq(Chars)
    PROVE  Strip(text) \in Seq(Chars) /\ Len(Strip(text)) <= Len(text)
<1> DEFINE inked == {i \in DOMAIN text : text[i] \notin Blank}
<1>1. Strip(text) = IF inked = {} THEN <<>> ELSE SubSeq(text, Min(inked), Max(inked))
  BY DEF Strip
<1>2. inked \in SUBSET (0 .. Len(text)) /\ inked \in SUBSET (1 .. Len(text)) /\ Len(text) \in Nat
  OBVIOUS
<1>3. CASE inked = {}
  BY <1>1, <1>2, <1>3
<1>4. CASE inked # {}
  <2>1. Min(inked) \in 1 .. Len(text) /\ Max(inked) \in 1 .. Len(text)
    BY <1>2, <1>4, LeastNatural, GreatestNatural
  <2>2. Strip(text) = SubSeq(text, Min(inked), Max(inked))
    BY <1>1, <1>4
  <2> HIDE DEF inked
  <2>3. QED
    BY <1>2, <2>1, <2>2
<1>5. QED
  BY <1>3, <1>4

\* Whatever text is normalised, the result is a text, and no longer.
LEMMA Normalised ==
    ASSUME NEW text \in Seq(Chars)
    PROVE  Normalise(text) \in Seq(Chars) /\ Len(Normalise(text)) <= Len(text)
<1>1. Compose(text) \in Seq(Chars) /\ Len(Compose(text)) <= Len(text)
  BY Composed
<1>2. /\ Visible(Compose(text)) \in Seq(Chars)
      /\ Len(Visible(Compose(text))) <= Len(Compose(text))
  BY <1>1, Seen
<1>3. /\ Collapse(Visible(Compose(text))) \in Seq(Chars)
      /\ Len(Collapse(Visible(Compose(text)))) <= Len(Visible(Compose(text)))
  BY <1>2, Collapsed
<1>4. /\ Normalise(text) \in Seq(Chars)
      /\ Len(Normalise(text)) <= Len(Collapse(Visible(Compose(text))))
  BY <1>3, Stripped DEF Normalise
<1>5. QED
  BY <1>1, <1>2, <1>3, <1>4

-----------------------------------------------------------------------------
(* The list of chunks *)

Pairs == Nat \X Nat

\* What a chunk has to do with the one before it, while they are packed and after.
Linked(p, q) ==
    /\ p[1] <= q[1] /\ q[1] <= p[2] /\ p[2] < q[2]
    /\ q[1] <= Greater(p[1], p[2] - overlap)

Follows(p, q) == Linked(p, q) /\ q[2] - p[1] > MaxChars

Within(text, p) == p[1] \in Starts(text) /\ p[2] \in Ends(text) /\ p[1] < p[2]

\* A chunk that ends at `to' is not too long, or has one sentence after `before'.
Bounded(text, p, before) ==
    \/ p[2] - p[1] <= MaxChars
    \/ Ends(text) \cap (before + 1) .. p[2] = {p[2]}

Before(made, k) == IF k = 1 THEN 0 ELSE made[k - 1][2]

Packed(text, made) ==
    /\ made \in Seq(Pairs) /\ made # <<>> /\ made[1][1] = 0
    /\ \A k \in 1 .. Len(made) : Within(text, made[k]) /\ Bounded(text, made[k], Before(made, k))
    /\ \A k \in 2 .. Len(made) : Follows(made[k - 1], made[k])

\* The chunks of a whole text.
Chunked(text, made) ==
    /\ made \in Seq(Pairs) /\ made # <<>>
    /\ made[1][1] = 0 /\ made[Len(made)][2] = Len(text)
    /\ \A k \in 1 .. Len(made) :
          /\ Within(text, made[k])
          /\ \/ Bounded(text, made[k], Before(made, k))
             \/ k = Len(made) /\ overlap < MinChunk
    /\ \A k \in 2 .. Len(made) :
          /\ Linked(made[k - 1], made[k])
          /\ k = Len(made) => made[k][2] - made[k][1] >= MinChunk

\* The finished chunks and the one being packed.
Listed == Append(chunks, <<start, end>>)

PackInv ==
    /\ PassagesTypeOK
    /\ stage \in {"fetched", "stored"} => chunks = <<>> /\ start = 0 /\ end = 0
    /\ stage # "cited" => ~cited.verified
    /\ stage = "packing" => clean \notin {NoText, <<>>} /\ Packed(clean, Listed)
    /\ ChunksCover
    /\ ChunksAreBounded

-----------------------------------------------------------------------------
(* Packing *)

LEMMA LastOf ==
    ASSUME NEW made \in Seq(Pairs), NEW p \in Pairs
    PROVE  /\ Append(made, p) \in Seq(Pairs) /\ Append(made, p) # <<>>
           /\ Len(Append(made, p)) = Len(made) + 1 /\ Len(made) \in Nat
           /\ \A k \in 1 .. Len(made) : Append(made, p)[k] = made[k]
           /\ Append(made, p)[Len(made) + 1] = p
           /\ \A k \in 1 .. Len(made) : made[k] \in Pairs
  OBVIOUS

\* One sentence makes a list of one chunk.
LEMMA FirstChunk ==
    ASSUME NEW text \in Seq(Chars), NEW p \in Pairs, p[1] = 0,
           Within(text, p), Ends(text) \cap 1 .. p[2] = {p[2]}
    PROVE  Packed(text, Append(<<>>, p))
<1> DEFINE made == Append(<<>>, p)
<1>1. made \in Seq(Pairs) /\ made # <<>> /\ Len(made) = 1 /\ made[1] = p
  OBVIOUS
<1> HIDE DEF made
<1>2. Within(text, made[1]) /\ Bounded(text, made[1], Before(made, 1))
  BY <1>1 DEF Bounded, Before
<1>3. QED
  BY <1>1, <1>2 DEF Packed

\* A chunk more.
LEMMA NextChunk ==
    ASSUME NEW text \in Seq(Chars), NEW made, Packed(text, made), NEW q \in Pairs,
           Within(text, q), Follows(made[Len(made)], q),
           Bounded(text, q, made[Len(made)][2])
    PROVE  Packed(text, Append(made, q))
<1> DEFINE more == Append(made, q)
           n == Len(made)
<1>1. /\ made \in Seq(Pairs) /\ n \in Nat \ {0} /\ more \in Seq(Pairs) /\ more # <<>>
      /\ Len(more) = n + 1 /\ more[n + 1] = q /\ \A k \in 1 .. n : more[k] = made[k]
  BY LastOf DEF Packed
<1> HIDE DEF more, n
<1>2. more[1][1] = 0
  BY <1>1 DEF Packed
<1>3. ASSUME NEW k \in 1 .. n + 1
      PROVE  Within(text, more[k]) /\ Bounded(text, more[k], Before(more, k))
  <2>1. CASE k \in 1 .. n
    <3>1. more[k] = made[k] /\ Before(more, k) = Before(made, k)
      BY <1>1, <2>1 DEF Before
    <3>2. QED
      BY <2>1, <3>1 DEF Packed, n
  <2>2. CASE k = n + 1
    <3>1. more[k] = q /\ Before(more, k) = made[n][2]
      BY <1>1, <2>2 DEF Before
    <3>2. QED
      BY <3>1 DEF n
  <2>3. QED
    BY <1>1, <2>1, <2>2
<1>4. ASSUME NEW k \in 2 .. n + 1
      PROVE  Follows(more[k - 1], more[k])
  <2>1. CASE k \in 2 .. n
    <3>1. more[k] = made[k] /\ more[k - 1] = made[k - 1]
      BY <1>1, <2>1
    <3>2. QED
      BY <2>1, <3>1 DEF Packed, n
  <2>2. CASE k = n + 1
    <3>1. more[k] = q /\ more[k - 1] = made[n]
      BY <1>1, <2>2
    <3>2. QED
      BY <3>1 DEF n
  <2>3. QED
    BY <1>1, <2>1, <2>2
<1>5. QED
  BY <1>1, <1>2, <1>3, <1>4 DEF Packed, more

\* The last chunk takes one sentence more, still within the limit.
LEMMA LongerChunk ==
    ASSUME NEW text \in Seq(Chars), NEW made \in Seq(Pairs), NEW from \in Nat, NEW to \in Nat,
           Packed(text, Append(made, <<from, to>>)),
           NEW later \in Ends(text), to < later, later - from <= MaxChars, overlap \in Nat
    PROVE  Packed(text, Append(made, <<from, later>>))
<1> DEFINE p == <<from, to>>
           q == <<from, later>>
           old == Append(made, p)
           new == Append(made, q)
           n == Len(made)
<1>1. p \in Pairs /\ q \in Pairs
  BY Sentences DEF Pairs
<1>2. /\ n \in Nat /\ old \in Seq(Pairs) /\ Len(old) = n + 1 /\ old[n + 1] = p
      /\ \A k \in 1 .. n : old[k] = made[k] /\ made[k] \in Pairs
  BY <1>1, LastOf
<1>3. /\ new \in Seq(Pairs) /\ new # <<>> /\ Len(new) = n + 1 /\ new[n + 1] = q
      /\ \A k \in 1 .. n : new[k] = made[k]
  BY <1>1, LastOf
<1> HIDE DEF old, new, n
<1>4. \A k \in 1 .. n + 1 : Within(text, old[k]) /\ Bounded(text, old[k], Before(old, k))
  BY <1>2 DEF Packed, old
<1>5. \A k \in 2 .. n + 1 : Follows(old[k - 1], old[k])
  BY <1>2 DEF Packed, old
<1>6. new[1][1] = 0
  <2>1. old[1][1] = 0
    BY DEF Packed, old
  <2>2. CASE n = 0
    BY <1>2, <1>3, <2>1, <2>2
  <2>3. CASE n # 0
    BY <1>2, <1>3, <2>1, <2>3
  <2>4. QED
    BY <2>2, <2>3
<1>7. ASSUME NEW k \in 1 .. n + 1
      PROVE  Within(text, new[k]) /\ Bounded(text, new[k], Before(new, k))
  <2>1. CASE k \in 1 .. n
    <3>1. new[k] = old[k] /\ Before(new, k) = Before(old, k)
      BY <1>2, <1>3, <2>1 DEF Before
    <3>2. QED
      BY <1>4, <3>1
  <2>2. CASE k = n + 1
    <3>1. new[k] = q /\ old[k] = p
      BY <1>2, <1>3, <2>2
    <3>2. Within(text, p)
      BY <1>4, <3>1
    <3>3. Within(text, q) /\ Bounded(text, q, Before(new, k))
      BY <3>2, Sentences DEF Within, Bounded
    <3>4. QED
      BY <3>1, <3>3
  <2>3. QED
    BY <1>2, <2>1, <2>2
<1>8. ASSUME NEW k \in 2 .. n + 1
      PROVE  Follows(new[k - 1], new[k])
  <2>1. new[k - 1] = old[k - 1] /\ Follows(old[k - 1], old[k]) /\ old[k - 1] \in Pairs
    BY <1>2, <1>3, <1>5
  <2>2. CASE k \in 1 .. n
    BY <1>2, <1>3, <2>1, <2>2
  <2>3. CASE k = n + 1
    <3>1. new[k] = q /\ old[k] = p
      BY <1>2, <1>3, <2>3
    <3>2. Follows(old[k - 1], q)
      <4>1. later \in Nat /\ MaxChars \in Nat
        BY Sentences, SizesAssumption
      <4>2. QED
        BY <2>1, <3>1, <4>1 DEF Follows, Linked, Pairs, Greater
    <3>3. QED
      BY <2>1, <3>1, <3>2
  <2>4. QED
    BY <1>2, <2>2, <2>3
<1>9. QED
  BY <1>3, <1>6, <1>7, <1>8 DEF Packed, new

\* A short tail goes into its predecessor, which was cut for being too long with
\* the sentence that follows: together they are neither short nor, unless the
\* overlap is smaller than a tail may be, short of the limit.
LEMMA Folded ==
    ASSUME NEW text \in Seq(Chars), NEW made, Packed(text, made),
           made[Len(made)][2] = Len(text), overlap \in Overlaps
    PROVE  Chunked(text, Merged(made))
<1> DEFINE n == Len(made)
           p == made[n - 1]
           q == made[n]
           fold == <<p[1], q[2]>>
           new == Append(SubSeq(made, 1, n - 2), fold)
<1>1. /\ MaxChars \in Nat /\ MinChunk \in Nat /\ MinChunk <= MaxChars /\ overlap \in Nat
  BY SizesAssumption
<1>2. made \in Seq(Pairs) /\ n \in Nat \ {0} /\ \A k \in 1 .. n : made[k] \in Pairs
  BY DEF Packed
<1>3. CASE n < 2 \/ q[2] - q[1] >= MinChunk
  <2>1. Merged(made) = made
    BY <1>3 DEF Merged
  <2>2. \A k \in 2 .. n : k = n => q[2] - q[1] >= MinChunk
    BY <1>2, <1>3
  <2>3. QED
    <3>1. \A k \in 1 .. n : Within(text, made[k]) /\ Bounded(text, made[k], Before(made, k))
      BY DEF Packed
    <3>2. \A k \in 2 .. n : Linked(made[k - 1], made[k])
      BY DEF Packed, Follows
    <3>3. made # <<>> /\ made[1][1] = 0
      BY DEF Packed
    <3>4. \A k \in 2 .. n : k = n => made[k][2] - made[k][1] >= MinChunk
      BY <2>2
    <3>5. Chunked(text, made)
      <4> HIDE DEF n
      <4>1. made \in Seq(Pairs) /\ made[n][2] = Len(text)
        BY <1>2 DEF n
      <4>2. QED
        BY <3>1, <3>2, <3>3, <3>4, <4>1 DEF Chunked, n
    <3>6. QED
      BY <2>1, <3>5
<1>4. CASE ~(n < 2 \/ q[2] - q[1] >= MinChunk)
  <2>1. Merged(made) = new
    BY <1>4 DEF Merged
  <2>2. n \in Nat /\ n - 1 \in Nat \ {0} /\ n - 2 \in Nat /\ p \in Pairs /\ q \in Pairs /\ fold \in Pairs
    BY <1>2, <1>4 DEF Pairs
  <2>3. SubSeq(made, 1, n - 2) \in Seq(Pairs) /\ Len(SubSeq(made, 1, n - 2)) = n - 2
    BY <1>2, <2>2
  <2>4. \A k \in 1 .. n - 2 : SubSeq(made, 1, n - 2)[k] = made[k]
    BY <1>2, <2>2
  <2>5. /\ new \in Seq(Pairs) /\ new # <<>> /\ Len(new) = n - 1 /\ new[n - 1] = fold
        /\ \A k \in 1 .. n - 2 : new[k] = made[k]
    <3>1. /\ new \in Seq(Pairs) /\ new # <<>> /\ Len(new) = n - 2 + 1
          /\ new[n - 2 + 1] = fold
          /\ \A k \in 1 .. n - 2 : new[k] = SubSeq(made, 1, n - 2)[k]
      <4> DEFINE head == SubSeq(made, 1, n - 2)
      <4>1. head \in Seq(Pairs) /\ Len(head) = n - 2 /\ fold \in Pairs /\ n \in Nat
        BY <2>2, <2>3
      <4> HIDE DEF head, fold, n
      <4>2. /\ Append(head, fold) \in Seq(Pairs) /\ Append(head, fold) # <<>>
            /\ Len(Append(head, fold)) = Len(head) + 1 /\ Append(head, fold)[Len(head) + 1] = fold
            /\ \A k \in 1 .. Len(head) : Append(head, fold)[k] = head[k]
        BY <4>1, LastOf
      <4>3. /\ Append(head, fold) \in Seq(Pairs) /\ Append(head, fold) # <<>>
            /\ Len(Append(head, fold)) = n - 2 + 1 /\ Append(head, fold)[n - 2 + 1] = fold
            /\ \A k \in 1 .. n - 2 : Append(head, fold)[k] = head[k]
        BY <4>1, <4>2
      <4>4. QED
        BY <4>3 DEF head
    <3>2. n - 2 + 1 = n - 1
      BY <2>2
    <3> HIDE DEF new, fold
    <3>3. QED
      BY <2>4, <3>1, <3>2
  <2>6. Follows(p, q) /\ Within(text, p) /\ Within(text, q)
    <3>1. n \in 2 .. n /\ n \in 1 .. n /\ n - 1 \in 1 .. n
      BY <2>2
    <3>2. QED
      BY <3>1 DEF Packed
  <2>7. overlap < MinChunk
    <3>1. q[2] - q[1] < MinChunk
      BY <1>1, <1>4, <2>2 DEF Pairs
    <3>2. QED
      BY <1>1, <2>2, <2>6, <3>1 DEF Follows, Linked, Greater, Pairs
  <2>8. fold[2] - fold[1] >= MinChunk /\ Within(text, fold)
    BY <1>1, <2>2, <2>6 DEF Follows, Linked, Within, Pairs
  <2> HIDE DEF new, n
  <2>9. new[1][1] = 0 /\ new[n - 1][2] = Len(text)
    <3>1. made[1][1] = 0 /\ n \in Nat
      BY <1>2 DEF Packed
    <3>2. ASSUME n = 2
          PROVE  new[1][1] = 0
      BY <2>5, <3>1, <3>2
    <3>3. ASSUME n # 2
          PROVE  new[1][1] = 0
      BY <2>2, <2>5, <3>1, <3>3
    <3>4. new[n - 1][2] = q[2]
      BY <2>5
    <3>5. QED
      BY <3>2, <3>3, <3>4 DEF n
  <2>10. ASSUME NEW k \in 1 .. n - 1
         PROVE  /\ Within(text, new[k])
                /\ \/ Bounded(text, new[k], Before(new, k))
                   \/ k = n - 1 /\ overlap < MinChunk
    <3>1. CASE k = n - 1
      BY <2>5, <2>7, <2>8, <3>1
    <3>2. CASE k \in 1 .. n - 2
      <4>1. k \in 1 .. n /\ new[k] = made[k] /\ Before(new, k) = Before(made, k)
        BY <2>2, <2>5, <3>2 DEF Before
      <4>2. QED
        <5>1. Within(text, made[k]) /\ Bounded(text, made[k], Before(made, k))
          BY <4>1 DEF Packed, n
        <5>2. QED
          BY <4>1, <5>1
    <3>3. QED
      BY <2>2, <3>1, <3>2
  <2>11. ASSUME NEW k \in 2 .. n - 1
         PROVE  /\ Linked(new[k - 1], new[k])
                /\ k = n - 1 => new[k][2] - new[k][1] >= MinChunk
    <3>1. k \in 2 .. n /\ k - 1 \in 1 .. n /\ new[k - 1] = made[k - 1]
      BY <2>2, <2>5
    <3>2. Linked(made[k - 1], made[k]) /\ made[k - 1] \in Pairs
      BY <1>2, <3>1 DEF Packed, Follows, n
    <3>3. CASE k = n - 1
      <4>1. Linked(made[k - 1], p) /\ new[k] = fold
        BY <2>5, <3>2, <3>3
      <4>2. Linked(made[k - 1], fold)
        <5>1. fold[1] = p[1] /\ fold[2] = q[2] /\ p[2] < q[2]
          BY <2>6 DEF Follows, Linked
        <5>2. p[2] \in Nat /\ q[2] \in Nat /\ made[k - 1][2] \in Nat
          BY <2>2, <3>2 DEF Pairs
        <5> HIDE DEF fold, p, q
        <5>3. QED
          BY <4>1, <5>1, <5>2 DEF Linked
      <4>3. QED
        BY <2>8, <3>1, <4>1, <4>2
    <3>4. CASE k \in 2 .. n - 2
      BY <2>2, <2>5, <3>1, <3>2, <3>4
    <3>5. QED
      BY <2>2, <3>3, <3>4
  <2>12. Chunked(text, new)
    BY <2>5, <2>9, <2>10, <2>11 DEF Chunked
  <2>13. QED
    BY <2>1, <2>12 DEF new
<1>5. QED
  BY <1>3, <1>4

-----------------------------------------------------------------------------
(* Quotes *)

\* A verified quote was found at its first occurrence in the normalised document.
LEMMA QuoteFound ==
    ASSUME NEW q \in Seq(Chars), NEW document \in Seq(Chars)
    PROVE  LET c == VerifyQuote(q, document) IN
           /\ c \in [verified : BOOLEAN, from : Nat, to : Nat]
           /\ c.verified =>
                 /\ c.to <= Len(Normalise(document)) /\ c.to <= Len(document)
                 /\ SubSeq(Normalise(document), c.from + 1, c.to) = Normalise(Strip(q))
                 /\ c.from \in Occurrences(Normalise(Strip(q)), Normalise(document))
                 /\ \A p \in Occurrences(Normalise(Strip(q)), Normalise(document)) : c.from <= p
<1> DEFINE needle == Normalise(Strip(q))
           text == Normalise(document)
           places == Occurrences(needle, text)
           c == VerifyQuote(q, document)
<1>1. needle \in Seq(Chars)
  BY Stripped, Normalised
<1>2. text \in Seq(Chars) /\ Len(text) <= Len(document)
  BY Normalised
<1> HIDE DEF needle, text
<1>3. places \in SUBSET (0 .. Len(text)) /\ Len(text) \in Nat /\ Len(needle) \in Nat
  BY <1>1, <1>2 DEF Occurrences
<1>4. c = IF Len(Strip(q)) < MinQuote \/ places = {} THEN NotFound ELSE Found(Min(places), q)
  BY DEF VerifyQuote, needle, text
<1>5. CASE c = NotFound
  BY <1>5 DEF NotFound
<1>6. CASE c # NotFound
  <2>1. Min(places) \in places /\ \A p \in places : Min(places) <= p
    <3>1. places # {}
      BY <1>4, <1>6
    <3> HIDE DEF places
    <3>2. QED
      BY <1>3, <3>1, LeastNatural
  <2>2. c = [verified |-> TRUE, from |-> Min(places), to |-> Min(places) + Len(needle)]
    BY <1>4, <1>6 DEF Found, needle
  <2>3. /\ Min(places) \in Nat /\ Min(places) + Len(needle) <= Len(text)
        /\ SubSeq(text, Min(places) + 1, Min(places) + Len(needle)) = needle
    <3>1. \A p \in places : /\ p \in Nat /\ p + Len(needle) <= Len(text)
                             /\ SubSeq(text, p + 1, p + Len(needle)) = needle
      BY <1>3 DEF Occurrences
    <3> HIDE DEF places
    <3>2. QED
      BY <2>1, <3>1
  <2> HIDE DEF c, places
  <2>4. /\ c \in [verified : BOOLEAN, from : Nat, to : Nat] /\ c.to <= Len(text)
        /\ SubSeq(text, c.from + 1, c.to) = needle
        /\ c.from \in places /\ \A p \in places : c.from <= p
    BY <1>3, <2>1, <2>2, <2>3
  <2>5. c.to <= Len(document) /\ Len(document) \in Nat
    BY <1>2, <1>3, <2>4
  <2>6. QED
    BY <2>4, <2>5 DEF c, places, needle, text
<1>7. QED
  BY <1>5, <1>6

-----------------------------------------------------------------------------
(* The steps *)

LEMMA PackInit == Init => PackInv
<1> SUFFICES ASSUME Init
             PROVE  PackInv
  OBVIOUS
<1>1. PassagesTypeOK
  <2>1. /\ body \in Seq(Chars) /\ overlap \in Overlaps /\ stage \in Stages
        /\ clean = NoText /\ start \in Nat /\ end \in Nat
    BY TextsAssumption DEF Init, Stages
  <2>2. chunks \in Seq(Nat \X Nat) /\ quote \in Seq(Chars)
    BY DEF Init
  <2>3. cited \in [verified : BOOLEAN, from : Nat, to : Nat] /\ ~cited.verified
    BY DEF Init, NotFound
  <2>4. QED
    BY <2>1, <2>2, <2>3 DEF PassagesTypeOK
<1>2. stage = "fetched" /\ ~Whole /\ ~cited.verified /\ chunks = <<>> /\ start = 0 /\ end = 0
  BY DEF Init, Whole, NotFound
<1>3. QED
  BY <1>1, <1>2 DEF PackInv, ChunksCover, ChunksAreBounded

LEMMA PackStore ==
    ASSUME PackInv, Store
    PROVE  PackInv'
<1>1. clean' \in Seq(Chars) \cup {NoText}
  BY Normalised DEF PackInv, PassagesTypeOK, Store
<1>2. PassagesTypeOK'
  BY <1>1 DEF PackInv, PassagesTypeOK, Store, Stages, packing, citation
<1>3. ~Whole'
  BY DEF Store, Whole
<1>4. QED
  BY <1>2, <1>3 DEF PackInv, Store, packing, citation, ChunksCover, ChunksAreBounded

LEMMA PackSkip ==
    ASSUME PackInv, SkipChunking
    PROVE  PackInv'
<1>1. PassagesTypeOK'
  BY DEF PackInv, PassagesTypeOK, SkipChunking, Stages, packing, citation
<1>2. ~Whole'
  BY DEF SkipChunking, Whole
<1>3. QED
  BY <1>1, <1>2 DEF PackInv, SkipChunking, packing, citation, ChunksCover, ChunksAreBounded

LEMMA PackBegin ==
    ASSUME PackInv, BeginChunk
    PROVE  PackInv'
<1>1. /\ clean \in Seq(Chars) /\ clean # <<>> /\ clean # NoText
      /\ chunks = <<>> /\ start = 0 /\ end = 0
  BY DEF PackInv, PassagesTypeOK, BeginChunk
<1>2. NextEnd \in Ends(clean) /\ NextEnd > 0 /\ Ends(clean) \cap 1 .. NextEnd = {NextEnd}
  <2>1. 0 < Len(clean)
    BY <1>1, Sentences
  <2>2. NextEnd = Min({i \in Ends(clean) : i > 0})
    BY <1>1 DEF NextEnd
  <2>3. /\ NextEnd \in Ends(clean) /\ NextEnd > 0
        /\ Ends(clean) \cap (0 + 1) .. NextEnd = {NextEnd}
    BY <1>1, <2>1, <2>2, SentenceAhead
  <2>4. 0 + 1 = 1
    OBVIOUS
  <2>5. QED
    BY <2>3, <2>4
<1>3. end' = NextEnd /\ NextEnd \in Nat /\ UNCHANGED <<body, overlap, clean, chunks, start, quote, cited>>
  BY <1>1, <1>2, Sentences DEF BeginChunk, citation
<1>4. Packed(clean, Append(<<>>, <<0, NextEnd>>))
  <2> DEFINE p == <<0, NextEnd>>
  <2>1. p \in Pairs /\ p[1] = 0 /\ p[2] = NextEnd
    BY <1>3 DEF Pairs
  <2>2. Within(clean, p)
    BY <1>1, <1>2, Sentences DEF Within
  <2> HIDE DEF p
  <2>3. Packed(clean, Append(<<>>, p))
    BY <1>1, <1>2, <2>1, <2>2, FirstChunk
  <2>4. QED
    BY <2>3 DEF p
<1>5. Listed' = Append(<<>>, <<0, NextEnd>>)
  BY <1>1, <1>3 DEF Listed
<1>6. Packed(clean, Listed)'
  BY <1>3, <1>4, <1>5 DEF Packed, Within, Bounded, Before, Follows, Linked
<1>7. PassagesTypeOK' /\ stage' = "packing" /\ ~Whole'
  BY <1>3 DEF PackInv, PassagesTypeOK, BeginChunk, Stages, Whole
<1>8. QED
  BY <1>1, <1>3, <1>6, <1>7 DEF PackInv, BeginChunk, ChunksCover, ChunksAreBounded

\* What is known while a chunk is packed.
LEMMA AtWork ==
    ASSUME PackInv, stage = "packing", end < Len(clean)
    PROVE  /\ clean \in Seq(Chars) /\ Packed(clean, Listed)
           /\ chunks \in Seq(Pairs) /\ start \in Nat /\ end \in Nat
           /\ Listed[Len(Listed)] = <<start, end>> /\ Within(clean, <<start, end>>)
           /\ NextEnd \in Ends(clean) /\ NextEnd \in Nat /\ end < NextEnd
           /\ Ends(clean) \cap (end + 1) .. NextEnd = {NextEnd}
           /\ MaxChars \in Nat /\ overlap \in Nat
<1>1. /\ clean \in Seq(Chars) /\ Packed(clean, Listed) /\ start \in Nat /\ end \in Nat
      /\ chunks \in Seq(Pairs) /\ overlap \in Overlaps
  BY DEF PackInv, PassagesTypeOK, Pairs
<1>2. MaxChars \in Nat /\ overlap \in Nat
  BY <1>1, SizesAssumption
<1>3. /\ Listed \in Seq(Pairs) /\ Len(Listed) = Len(chunks) + 1 /\ Len(chunks) \in Nat
      /\ Listed[Len(chunks) + 1] = <<start, end>>
  <2>1. <<start, end>> \in Pairs
    BY <1>1 DEF Pairs
  <2>2. QED
    BY <1>1, <2>1, LastOf DEF Listed
<1>4. Within(clean, <<start, end>>)
  <2>1. \A k \in 1 .. Len(Listed) : Within(clean, Listed[k])
    BY <1>1 DEF Packed
  <2>2. Len(chunks) + 1 \in 1 .. Len(Listed)
    BY <1>3
  <2>3. QED
    BY <1>3, <2>1, <2>2
<1>5. /\ NextEnd \in Ends(clean) /\ NextEnd > end
      /\ Ends(clean) \cap (end + 1) .. NextEnd = {NextEnd}
  BY <1>1, SentenceAhead DEF NextEnd
<1>6. NextEnd \in Nat
  BY <1>1, <1>5, Sentences
<1>7. QED
  BY <1>1, <1>2, <1>3, <1>4, <1>5, <1>6

LEMMA PackExtend ==
    ASSUME PackInv, Extend
    PROVE  PackInv'
<1>1. /\ stage = "packing" /\ stage' = "packing" /\ end < Len(clean) /\ NextEnd - start <= MaxChars
      /\ end' = NextEnd /\ UNCHANGED <<body, overlap, clean, chunks, start, quote, cited>>
  BY DEF Extend, Fits, citation
<1>2. /\ clean \in Seq(Chars) /\ Packed(clean, Append(chunks, <<start, end>>))
      /\ chunks \in Seq(Pairs) /\ start \in Nat /\ end \in Nat
      /\ NextEnd \in Ends(clean) /\ NextEnd \in Nat /\ end < NextEnd /\ overlap \in Nat
  BY <1>1, AtWork DEF Listed
<1>3. Packed(clean, Append(chunks, <<start, NextEnd>>))
  BY <1>1, <1>2, LongerChunk
<1>4. Listed' = Append(chunks, <<start, NextEnd>>)
  BY <1>1 DEF Listed
<1>5. Packed(clean, Listed)'
  BY <1>1, <1>3, <1>4 DEF Packed, Within, Bounded, Before, Follows, Linked
<1>6. PassagesTypeOK' /\ ~Whole'
  BY <1>1, <1>2 DEF PackInv, PassagesTypeOK, Whole
<1>7. QED
  BY <1>1, <1>5, <1>6 DEF PackInv, ChunksCover, ChunksAreBounded

LEMMA PackCut ==
    ASSUME PackInv, Cut
    PROVE  PackInv'
<1>1. /\ stage = "packing" /\ stage' = "packing" /\ end < Len(clean) /\ ~(NextEnd - start <= MaxChars)
      /\ chunks' = Append(chunks, <<start, end>>) /\ start' = Aligned /\ end' = NextEnd
      /\ UNCHANGED <<body, overlap, clean, quote, cited>>
  BY DEF Cut, Fits, citation
<1>2. /\ clean \in Seq(Chars) /\ Packed(clean, Listed)
      /\ chunks \in Seq(Pairs) /\ start \in Nat /\ end \in Nat
      /\ Listed[Len(Listed)] = <<start, end>> /\ Within(clean, <<start, end>>)
      /\ NextEnd \in Ends(clean) /\ NextEnd \in Nat /\ end < NextEnd
      /\ Ends(clean) \cap (end + 1) .. NextEnd = {NextEnd}
      /\ MaxChars \in Nat /\ overlap \in Nat
  BY <1>1, AtWork
<1>3. start \in Starts(clean) /\ start < end
  BY <1>2 DEF Within
<1>4. /\ Target \in Nat /\ start <= Target /\ Target <= end
      /\ Target = Greater(start, end - overlap)
  BY <1>2, <1>3 DEF Target, Greater
<1>5. /\ Aligned \in Starts(clean) /\ start <= Aligned /\ Aligned <= Target /\ Aligned \in Nat
  <2>1. /\ Aligned \in Starts(clean) /\ Aligned <= Target
        /\ \A i \in Starts(clean) : i <= Target => i <= Aligned
    BY <1>2, <1>4, SentenceStart DEF Aligned
  <2>2. QED
    BY <1>2, <1>3, <1>4, <2>1, Sentences
<1> DEFINE p == <<start, end>>
           q == <<Aligned, NextEnd>>
<1>6. q \in Pairs /\ q[1] = Aligned /\ q[2] = NextEnd /\ p[1] = start /\ p[2] = end
  BY <1>2, <1>5 DEF Pairs
<1>7. Within(clean, q)
  BY <1>2, <1>4, <1>5 DEF Within
<1>8. Follows(p, q)
  BY <1>1, <1>2, <1>4, <1>5 DEF Follows, Linked
<1>9. Bounded(clean, q, p[2])
  BY <1>2 DEF Bounded
<1>10. Packed(clean, Append(Listed, q))
  <2> HIDE DEF p, q
  <2>1. Listed[Len(Listed)] = p
    BY <1>2 DEF p
  <2>2. QED
    BY <1>2, <1>6, <1>7, <1>8, <1>9, <2>1, NextChunk
<1>11. Listed' = Append(Listed, q) /\ chunks' = Listed
  BY <1>1 DEF Listed
<1>12. Packed(clean, Listed)'
  BY <1>1, <1>10, <1>11 DEF Packed, Within, Bounded, Before, Follows, Linked
<1>13. chunks' \in Seq(Nat \X Nat)
  BY <1>2, <1>11 DEF Packed, Pairs
<1>14. PassagesTypeOK' /\ ~Whole'
  BY <1>1, <1>2, <1>5, <1>13 DEF PackInv, PassagesTypeOK, Whole
<1>15. QED
  BY <1>1, <1>12, <1>14 DEF PackInv, ChunksCover, ChunksAreBounded

LEMMA PackFinish ==
    ASSUME PackInv, Finish
    PROVE  PackInv'
<1>1. /\ stage = "packing" /\ stage' = "chunked" /\ end = Len(clean)
      /\ chunks' = Merged(Listed) /\ UNCHANGED <<body, overlap, clean, start, end, quote, cited>>
  BY DEF Finish, Listed, citation
<1>2. /\ clean \in Seq(Chars) /\ Packed(clean, Listed) /\ overlap \in Overlaps
      /\ chunks \in Seq(Pairs) /\ <<start, end>> \in Pairs
  BY <1>1 DEF PackInv, PassagesTypeOK, Pairs
<1>3. Listed[Len(Listed)][2] = Len(clean)
  BY <1>1, <1>2, LastOf DEF Listed
<1>4. Chunked(clean, Merged(Listed))
  BY <1>2, <1>3, Folded
<1>5. chunks' \in Seq(Nat \X Nat)
  BY <1>1, <1>4 DEF Chunked, Pairs
<1>6. PassagesTypeOK'
  BY <1>1, <1>5 DEF PackInv, PassagesTypeOK, Stages
<1>7. ChunksCover'
  BY <1>1, <1>4 DEF ChunksCover, Chunked, Within, Linked, Size
<1>8. ChunksAreBounded'
  BY <1>1, <1>4 DEF ChunksAreBounded, Chunked, Bounded, Before, Size
<1>9. QED
  BY <1>1, <1>6, <1>7, <1>8 DEF PackInv

LEMMA PackCite ==
    ASSUME PackInv, Cite
    PROVE  PackInv'
<1>1. /\ stage' = "cited" /\ quote' \in Seq(Chars)
      /\ UNCHANGED <<body, overlap, clean, chunks, start, end>>
  BY TextsAssumption DEF Cite, packing
<1>2. /\ cited' \in [verified : BOOLEAN, from : Nat, to : Nat]
      /\ cited'.verified => clean # NoText /\ cited'.to <= Len(clean)
  <2>1. CASE clean = NoText
    BY <2>1 DEF Cite, NotFound
  <2>2. CASE clean # NoText
    <3>1. clean \in Seq(Chars) /\ cited' = VerifyQuote(quote', clean)
      BY <2>2 DEF PackInv, PassagesTypeOK, Cite
    <3>2. QED
      BY <1>1, <2>2, <3>1, QuoteFound
  <2>3. QED
    BY <2>1, <2>2
<1>3. PassagesTypeOK' /\ ~Whole'
  BY <1>1, <1>2 DEF PackInv, PassagesTypeOK, Stages, Whole
<1>4. QED
  BY <1>1, <1>3 DEF PackInv, ChunksCover, ChunksAreBounded

LEMMA PackNext == PackInv /\ [Next]_vars => PackInv'
<1> SUFFICES ASSUME PackInv, [Next]_vars
             PROVE  PackInv'
  OBVIOUS
<1>1. CASE UNCHANGED vars
  BY <1>1 DEF vars, packing, citation, PackInv, PassagesTypeOK, Listed, Packed, Within, Bounded,
     Before, Follows, Linked, ChunksCover, ChunksAreBounded, Whole, Size
<1>2. QED
  BY <1>1, PackStore, PackSkip, PackBegin, PackExtend, PackCut, PackFinish, PackCite DEF Next

LEMMA PackAlways == Spec => []PackInv
  BY PackInit, PackNext, PTL DEF Spec

\* The chunks finished, the chunk in hand and the last citation keep their types; the
\* end of a verified quote is never past the end of the text.
THEOREM PassagesTypeCorrect == Spec => []PassagesTypeOK
<1>1. PackInv => PassagesTypeOK
  BY DEF PackInv
<1>2. QED
  BY <1>1, PackAlways, PTL

\* chunk_text, for any text and any limits: no character between two chunks, no chunk
\* inside another, whole sentences, the overlap kept, no short tail.
THEOREM CoverSafe == Spec => []ChunksCover
<1>1. PackInv => ChunksCover
  BY DEF PackInv
<1>2. QED
  BY <1>1, PackAlways, PTL

\* chunk_text, for any text and any limits: a chunk is too long for one of two reasons.
THEOREM BoundSafe == Spec => []ChunksAreBounded
<1>1. PackInv => ChunksAreBounded
  BY DEF PackInv
<1>2. QED
  BY <1>1, PackAlways, PTL

-----------------------------------------------------------------------------
(* Readings                                                                 *)
(* What normalising does to a text is said of the places of the publisher's *)
(* text: `text' reads the places K, in order, with what the table g has     *)
(* there. Every operation takes places away and changes their table, so two *)
(* orders of operations agree when they leave the same places.              *)

Reading(f, text, K, g) ==
    /\ f \in [1 .. Len(text) -> K]
    /\ \A r, s \in 1 .. Len(text) : r < s => f[r] < f[s]
    /\ \A i \in K : \E r \in 1 .. Len(text) : f[r] = i
    /\ \A r \in 1 .. Len(text) : text[r] = g[f[r]]

Reads(text, K, g) ==
    /\ text \in Seq(Chars) /\ K \in SUBSET Nat
    /\ \E f \in [1 .. Len(text) -> K] : Reading(f, text, K, g)

\* j is the place of K right after i.
Beside(K, i, j) == i \in K /\ j \in K /\ i < j /\ \A k \in K : ~(i < k /\ k < j)

LEMMA ReadsItself ==
    ASSUME NEW text \in Seq(Chars)
    PROVE  Reads(text, 1 .. Len(text), text)
<1> DEFINE f == [r \in 1 .. Len(text) |-> r]
<1>1. Len(text) \in Nat /\ f \in [1 .. Len(text) -> 1 .. Len(text)]
  OBVIOUS
<1>2. Reading(f, text, 1 .. Len(text), text)
  BY <1>1 DEF Reading
<1>3. QED
  BY <1>1, <1>2 DEF Reads

\* The characters read are characters.
LEMMA ReadChars ==
    ASSUME NEW text, NEW K, NEW g, Reads(text, K, g)
    PROVE  \A i \in K : g[i] \in Chars
  BY DEF Reads, Reading

\* What stands before another place stands right before some place, and so after.
LEMMA PlaceBefore ==
    ASSUME NEW K \in SUBSET Nat, NEW i \in K, NEW a \in K, a < i
    PROVE  \E j \in K : a <= j /\ Beside(K, j, i)
<1> DEFINE below == {k \in K : k < i}
<1>1. below \in SUBSET (0 .. i) /\ a \in below /\ i \in Nat
  <2>1. ASSUME NEW k \in K, k < i
        PROVE  k \in 0 .. i
    <3>1. k \in Nat /\ i \in Nat
      OBVIOUS
    <3>2. QED
      BY <2>1, <3>1
  <2>2. QED
    BY <2>1
<1>2. Max(below) \in below /\ \A k \in below : k <= Max(below)
  BY <1>1, GreatestNatural
<1>3. PICK j \in below : \A k \in below : k <= j
  BY <1>2
<1>4. Beside(K, j, i) /\ a <= j
  BY <1>1, <1>3 DEF Beside
<1>5. QED
  BY <1>4

LEMMA PlaceAfter ==
    ASSUME NEW K \in SUBSET Nat, NEW i \in K, NEW a \in K, i < a
    PROVE  \E j \in K : j <= a /\ Beside(K, i, j)
<1> DEFINE above == {k \in K : i < k /\ k <= a}
<1>1. above \in SUBSET (0 .. a) /\ a \in above /\ a \in Nat
  <2>1. ASSUME NEW k \in K, k <= a
        PROVE  k \in 0 .. a
    <3>1. k \in Nat /\ a \in Nat
      OBVIOUS
    <3>2. QED
      BY <2>1, <3>1
  <2>2. a \in above /\ a \in Nat
    OBVIOUS
  <2>3. QED
    BY <2>1, <2>2
<1>2. Min(above) \in above /\ \A k \in above : Min(above) <= k
  BY <1>1, LeastNatural
<1>3. PICK j \in above : \A k \in above : j <= k
  BY <1>2
<1>4. Beside(K, i, j) /\ j <= a
  BY <1>1, <1>3 DEF Beside
<1>5. QED
  BY <1>4

\* Places side by side are read one after the other.
LEMMA ReadBeside ==
    ASSUME NEW text, Len(text) \in Nat, NEW K \in SUBSET Nat, NEW g, NEW f, Reading(f, text, K, g)
    PROVE  /\ \A r \in 1 .. Len(text) : r > 1 => Beside(K, f[r - 1], f[r])
           /\ \A r, s \in 1 .. Len(text) : Beside(K, f[r], f[s]) => s = r + 1
<1>1. /\ \A r \in 1 .. Len(text) : f[r] \in K /\ f[r] \in Nat
      /\ \A r, s \in 1 .. Len(text) : r < s => f[r] < f[s]
      /\ \A i \in K : \E r \in 1 .. Len(text) : f[r] = i
  BY DEF Reading
<1>2. \A r, s \in 1 .. Len(text) : f[r] < f[s] => r < s
  BY <1>1
<1>3. ASSUME NEW r \in 1 .. Len(text), r > 1
      PROVE  Beside(K, f[r - 1], f[r])
  <2>1. r - 1 \in 1 .. Len(text) /\ r - 1 < r
    BY <1>3
  <2>2. ASSUME NEW k \in K, f[r - 1] < k, k < f[r]
        PROVE  FALSE
    <3>1. PICK s \in 1 .. Len(text) : f[s] = k
      BY <1>1
    <3>2. r - 1 < s /\ s < r
      BY <1>2, <2>1, <2>2, <3>1
    <3>3. QED
      BY <3>2
  <2>3. QED
    BY <1>1, <2>1, <2>2 DEF Beside
<1>4. ASSUME NEW r \in 1 .. Len(text), NEW s \in 1 .. Len(text), Beside(K, f[r], f[s])
      PROVE  s = r + 1
  <2>1. r < s
    BY <1>2, <1>4 DEF Beside
  <2>2. ASSUME r + 1 < s
        PROVE  FALSE
    <3>1. r + 1 \in 1 .. Len(text)
      BY <2>2
    <3>2. f[r] < f[r + 1] /\ f[r + 1] < f[s] /\ f[r + 1] \in K
      BY <1>1, <2>2, <3>1
    <3>3. QED
      BY <1>4, <3>2 DEF Beside
  <2>3. QED
    BY <2>1, <2>2
<1>5. QED
  BY <1>3, <1>4

\* A text is what it reads.
LEMMA OneReading ==
    ASSUME NEW text, NEW other, NEW K, NEW g, NEW h, Reads(text, K, g), Reads(other, K, h),
           \A i \in K : g[i] = h[i]
    PROVE  text = other
<1> DEFINE m == Len(text)
           n == Len(other)
<1>1. K \in SUBSET Nat /\ m \in Nat /\ n \in Nat /\ text \in Seq(Chars) /\ other \in Seq(Chars)
  BY DEF Reads
<1>2. PICK f \in [1 .. m -> K] : Reading(f, text, K, g)
  BY DEF Reads
<1>3. PICK e \in [1 .. n -> K] : Reading(e, other, K, h)
  BY DEF Reads
<1>4. /\ \A r, s \in 1 .. m : r < s => f[r] < f[s]
      /\ \A i \in K : \E r \in 1 .. m : f[r] = i
      /\ \A r \in 1 .. m : text[r] = g[f[r]]
  BY <1>2 DEF Reading
<1>5. /\ \A r, s \in 1 .. n : r < s => e[r] < e[s]
      /\ \A i \in K : \E r \in 1 .. n : e[r] = i
      /\ \A r \in 1 .. n : other[r] = h[e[r]]
  BY <1>3 DEF Reading
<1> HIDE DEF m, n
<1>6. ASSUME NEW r \in 1 .. m, \A s \in 1 .. m : s < r => s \in 1 .. n /\ f[s] = e[s]
      PROVE  r \in 1 .. n /\ f[r] = e[r]
  <2>1. f[r] \in K /\ f[r] \in Nat
    BY <1>1, <1>2
  <2>2. PICK s \in 1 .. n : e[s] = f[r]
    BY <1>5, <2>1
  <2>3. ASSUME s < r
        PROVE  FALSE
    <3>1. s \in 1 .. m /\ f[s] = e[s] /\ f[s] < f[r]
      BY <1>1, <1>4, <1>6, <2>3
    <3>2. QED
      BY <2>1, <2>2, <3>1
  <2>4. r \in 1 .. n /\ r <= s
    BY <1>1, <2>3
  <2>5. PICK t \in 1 .. m : f[t] = e[r]
    <3>1. e[r] \in K
      BY <1>3, <2>4
    <3>2. QED
      BY <1>4, <3>1
  <2>6. ASSUME t < r
        PROVE  FALSE
    <3>1. t \in 1 .. n /\ f[t] = e[t] /\ e[t] < e[r]
      BY <1>5, <1>6, <2>4, <2>6
    <3>2. e[r] \in Nat /\ e[t] \in Nat
      BY <1>1, <1>3, <2>4, <3>1
    <3>3. QED
      BY <2>5, <3>1, <3>2
  <2>7. ASSUME r < s
        PROVE  FALSE
    <3>1. e[r] < e[s] /\ e[r] \in Nat /\ e[s] \in Nat
      BY <1>1, <1>3, <1>5, <2>4, <2>7
    <3>2. r < t => f[r] < f[t]
      BY <1>4
    <3>3. t = r \/ r < t
      BY <1>1, <2>6
    <3>4. QED
      BY <2>2, <2>5, <3>1, <3>2, <3>3
  <2>8. s = r
    BY <1>1, <2>4, <2>7
  <2>9. QED
    BY <2>2, <2>4, <2>8
<1>7. \A r \in 1 .. m : r \in 1 .. n /\ f[r] = e[r]
  <2> DEFINE bad == {r \in 1 .. m : ~(r \in 1 .. n /\ f[r] = e[r])}
  <2>1. ASSUME bad # {}
        PROVE  FALSE
    <3>1. bad \in SUBSET (0 .. m)
      BY <1>1
    <3>2. PICK r \in bad : \A s \in bad : r <= s
      BY <1>1, <2>1, <3>1, LeastNatural
    <3>3. \A s \in 1 .. m : s < r => s \in 1 .. n /\ f[s] = e[s]
      BY <1>1, <3>2
    <3>4. QED
      BY <1>6, <3>2, <3>3
  <2>2. QED
    BY <2>1
<1>8. m = n
  <2>1. m <= n
    BY <1>1, <1>7
  <2>2. ASSUME m < n
        PROVE  FALSE
    <3>1. m + 1 \in 1 .. n
      BY <1>1, <2>2
    <3>2. PICK r \in 1 .. m : f[r] = e[m + 1]
      BY <1>3, <1>4, <3>1
    <3>3. f[r] = e[r] /\ r \in 1 .. n /\ r < m + 1
      BY <1>1, <1>7
    <3>4. e[r] < e[m + 1] /\ e[r] \in Nat
      BY <1>1, <1>3, <1>5, <3>1, <3>3
    <3>5. QED
      BY <3>2, <3>3, <3>4
  <2>3. QED
    BY <1>1, <2>1, <2>2
<1>9. \A r \in 1 .. m : text[r] = other[r]
  BY <1>2, <1>4, <1>5, <1>7
<1>10. QED
  BY <1>1, <1>8, <1>9 DEF m, n

-----------------------------------------------------------------------------
(* What each operation leaves *)

\* A text with marks at some of its places, and the marks taken out.
LEMMA SelectReads ==
    ASSUME NEW text \in Seq(Chars), NEW K \in SUBSET Nat, NEW g, NEW f \in [1 .. Len(text) -> K],
           Reading(f, text, K, g),
           NEW kind, NEW S, NEW marked \in Seq(S), Len(marked) = Len(text), S \ {kind} \subseteq Chars,
           NEW L \in SUBSET K, NEW h,
           \A r \in 1 .. Len(text) : marked[r] # kind <=> f[r] \in L,
           \A r \in 1 .. Len(text) : f[r] \in L => marked[r] = h[f[r]]
    PROVE  Reads(Without(kind, marked), L, h)
<1> DEFINE kept == Without(kind, marked)
           left == {i \in DOMAIN marked : marked[i] # kind}
           n == Len(text)
           m == Len(kept)
<1>1. DOMAIN marked = 1 .. n /\ n \in Nat
  OBVIOUS
<1>2. kept \in Seq(Chars) /\ m \in Nat
  <2>1. kept \in Seq(S \ {kind})
    BY LeftOver
  <2> HIDE DEF kept
  <2>2. QED
    BY <2>1
<1>3. PICK e \in [1 .. m -> left] :
         /\ \A r, s \in 1 .. m : r < s => e[r] < e[s]
         /\ \A i \in left : \E r \in 1 .. m : e[r] = i
         /\ \A r \in 1 .. m : kept[r] = marked[e[r]]
  <2>1. Places(Without(kind, marked), marked, kind)
    BY LeftOver
  <2>2. QED
    BY <2>1 DEF Places
<1>4. \A r \in 1 .. n : r \in left <=> f[r] \in L
  BY <1>1
<1>5. /\ \A r, s \in 1 .. n : r < s => f[r] < f[s]
      /\ \A i \in K : \E r \in 1 .. n : f[r] = i
  BY DEF Reading
<1>6. \A r \in 1 .. n : f[r] \in L => marked[r] = h[f[r]]
  OBVIOUS
<1>7. left \subseteq 1 .. n
  BY <1>1
<1> HIDE DEF kept, left, n, m
<1> DEFINE c == [r \in 1 .. m |-> f[e[r]]]
<1>8. \A r \in 1 .. m : e[r] \in 1 .. n /\ f[e[r]] \in L /\ kept[r] = h[f[e[r]]]
  BY <1>3, <1>4, <1>6, <1>7
<1>9. c \in [1 .. m -> L]
  BY <1>8
<1>10. \A r, s \in 1 .. m : r < s => c[r] < c[s]
  BY <1>3, <1>5, <1>8
<1>11. ASSUME NEW i \in L
       PROVE  \E r \in 1 .. m : c[r] = i
  <2>1. PICK s \in 1 .. n : f[s] = i
    BY <1>5
  <2>2. PICK r \in 1 .. m : e[r] = s
    BY <1>3, <1>4, <2>1
  <2>3. QED
    BY <2>1, <2>2
<1>12. \A r \in 1 .. m : kept[r] = h[c[r]]
  BY <1>8
<1>13. Reading(c, kept, L, h)
  BY <1>9, <1>10, <1>11, <1>12 DEF Reading, m
<1>14. L \in SUBSET Nat
  OBVIOUS
<1>15. QED
  BY <1>2, <1>9, <1>13, <1>14 DEF Reads, kept, m

\* Visible
Shown(K, g) == {i \in K : g[i] # "invisible"}

LEMMA VisibleReads ==
    ASSUME NEW text, NEW K, NEW g, Reads(text, K, g)
    PROVE  Reads(Visible(text), Shown(K, g), g)
<1>1. text \in Seq(Chars) /\ K \in SUBSET Nat
  BY DEF Reads
<1>2. PICK f \in [1 .. Len(text) -> K] : Reading(f, text, K, g)
  BY DEF Reads
<1>3. \A r \in 1 .. Len(text) : text[r] = g[f[r]] /\ f[r] \in K
  BY <1>2 DEF Reading
<1> DEFINE L == Shown(K, g)
<1>4. \A r \in 1 .. Len(text) : text[r] # "invisible" <=> f[r] \in L
  BY <1>3 DEF Shown
<1>5. L \in SUBSET K
  BY DEF Shown
<1> HIDE DEF L
<1>6. Reads(Without("invisible", text), L, g)
  BY <1>1, <1>2, <1>3, <1>4, <1>5, SelectReads
<1>7. QED
  BY <1>6 DEF Visible, L

\* Collapse: a space goes that stands behind a space.
Spared(K, g, i) == ~(g[i] = "space" /\ \E j \in K : Beside(K, j, i) /\ g[j] = "space")
Spaced(K, g) == {i \in K : Spared(K, g, i)}

LEMMA CollapseReads ==
    ASSUME NEW text, NEW K, NEW g, Reads(text, K, g)
    PROVE  Reads(Collapse(text), Spaced(K, g), g)
<1> DEFINE n == Len(text)
<1>1. text \in Seq(Chars) /\ K \in SUBSET Nat /\ n \in Nat /\ DOMAIN text = 1 .. n
  BY DEF Reads
<1>2. PICK f \in [1 .. n -> K] : Reading(f, text, K, g)
  BY DEF Reads
<1>3. /\ \A r \in 1 .. n : text[r] = g[f[r]] /\ f[r] \in K
      /\ \A i \in K : \E r \in 1 .. n : f[r] = i
  BY <1>2 DEF Reading
<1>4. /\ \A r \in 1 .. n : r > 1 => Beside(K, f[r - 1], f[r])
      /\ \A r, s \in 1 .. n : Beside(K, f[r], f[s]) => s = r + 1
  BY <1>1, <1>2, ReadBeside
<1> DEFINE L == Spaced(K, g)
           twin(r) == r > 1 /\ text[r] = "space" /\ text[r - 1] = "space"
           marked == [r \in DOMAIN text |-> IF twin(r) THEN "gone" ELSE text[r]]
<1>5. Collapse(text) = Without("gone", marked)
  BY DEF Collapse
<1>6. ASSUME NEW r \in 1 .. n
      PROVE  twin(r) <=> f[r] \notin L
  <2>1. ASSUME twin(r)
        PROVE  f[r] \notin L
    <3>1. r - 1 \in 1 .. n /\ Beside(K, f[r - 1], f[r])
      BY <1>1, <1>4, <2>1
    <3>2. QED
      BY <1>3, <2>1, <3>1 DEF Spaced, Spared
  <2>2. ASSUME f[r] \notin L
        PROVE  twin(r)
    <3>1. g[f[r]] = "space" /\ \E j \in K : Beside(K, j, f[r]) /\ g[j] = "space"
      BY <1>3, <2>2 DEF Spaced, Spared
    <3>2. PICK s \in 1 .. n : Beside(K, f[s], f[r]) /\ g[f[s]] = "space"
      BY <1>3, <3>1
    <3>3. r = s + 1
      BY <1>4, <3>2
    <3>4. r > 1 /\ r - 1 = s
      BY <1>1, <3>3
    <3>5. QED
      BY <1>3, <3>1, <3>2, <3>4
  <2>3. QED
    BY <2>1, <2>2
<1>7. L \in SUBSET K
  BY DEF Spaced
<1>8. /\ marked \in Seq(Chars \cup {"gone"}) /\ Len(marked) = n
      /\ \A r \in 1 .. n : marked[r] = IF f[r] \in L THEN text[r] ELSE "gone"
  <2>1. \A r \in 1 .. n : marked[r] = IF f[r] \in L THEN text[r] ELSE "gone"
    BY <1>1, <1>6
  <2>2. \A r \in 1 .. n : marked[r] \in Chars \cup {"gone"}
    BY <1>1, <2>1
  <2>3. marked \in [1 .. n -> Chars \cup {"gone"}]
    BY <1>1, <2>2
  <2> HIDE DEF marked, n
  <2>4. QED
    BY <1>1, <2>1, <2>3
<1>9. \A r \in 1 .. n : text[r] # "gone"
  <2>1. "gone" \notin Chars
    BY DEF Chars, Letters, Blank
  <2>2. QED
    BY <1>1, <2>1
<1> HIDE DEF marked, L
<1>10. \A r \in 1 .. n : marked[r] # "gone" <=> f[r] \in L
  BY <1>8, <1>9
<1>11. \A r \in 1 .. n : f[r] \in L => marked[r] = g[f[r]]
  BY <1>3, <1>8
<1>12. (Chars \cup {"gone"}) \ {"gone"} \subseteq Chars
  OBVIOUS
<1>13. Reads(Without("gone", marked), L, g)
  BY <1>1, <1>2, <1>7, <1>8, <1>10, <1>11, <1>12, SelectReads
<1>14. QED
  BY <1>5, <1>13 DEF L

\* Compose: an accent goes into the base letter before it.
Bears(K, g, i) == g[i] = "base" /\ \E j \in K : Beside(K, i, j) /\ g[j] = "accent"
Joins(K, g, i) == g[i] = "accent" /\ \E j \in K : Beside(K, j, i) /\ g[j] = "base"
Apart(K, g) == {i \in K : ~Joins(K, g, i)}
Drawn(K, g) ==
    [i \in K |-> IF Bears(K, g, i) THEN "composed" ELSE IF g[i] = "nbsp" THEN "space" ELSE g[i]]

LEMMA ComposeReads ==
    ASSUME NEW text, NEW K, NEW g, Reads(text, K, g)
    PROVE  Reads(Compose(text), Apart(K, g), Drawn(K, g))
<1> DEFINE n == Len(text)
<1>1. text \in Seq(Chars) /\ K \in SUBSET Nat /\ n \in Nat /\ DOMAIN text = 1 .. n
  BY DEF Reads
<1>2. PICK f \in [1 .. n -> K] : Reading(f, text, K, g)
  BY DEF Reads
<1>3. /\ \A r \in 1 .. n : text[r] = g[f[r]] /\ f[r] \in K
      /\ \A i \in K : \E r \in 1 .. n : f[r] = i
  BY <1>2 DEF Reading
<1>4. /\ \A r \in 1 .. n : r > 1 => Beside(K, f[r - 1], f[r])
      /\ \A r, s \in 1 .. n : Beside(K, f[r], f[s]) => s = r + 1
  BY <1>1, <1>2, ReadBeside
<1> DEFINE L == Apart(K, g)
           h == Drawn(K, g)
           pair(i) == {i, i + 1} \subseteq DOMAIN text /\ text[i] = "base" /\ text[i + 1] = "accent"
           marked == [i \in DOMAIN text |->
                        IF pair(i) THEN "composed"
                        ELSE IF pair(i - 1) THEN "gone"
                        ELSE IF text[i] = "nbsp" THEN "space" ELSE text[i]]
<1>5. Compose(text) = Without("gone", marked)
  BY DEF Compose
<1>6. ASSUME NEW r \in 1 .. n
      PROVE  pair(r) <=> Bears(K, g, f[r])
  <2>1. ASSUME pair(r)
        PROVE  Bears(K, g, f[r])
    <3>1. r + 1 \in 1 .. n /\ r + 1 > 1 /\ r + 1 - 1 = r
      BY <1>1, <2>1
    <3>2. Beside(K, f[r], f[r + 1])
      BY <1>4, <3>1
    <3>3. QED
      BY <1>3, <2>1, <3>1, <3>2 DEF Bears
  <2>2. ASSUME Bears(K, g, f[r])
        PROVE  pair(r)
    <3>1. PICK s \in 1 .. n : Beside(K, f[r], f[s]) /\ g[f[s]] = "accent"
      BY <1>3, <2>2 DEF Bears
    <3>2. s = r + 1
      BY <1>4, <3>1
    <3>3. QED
      BY <1>1, <1>3, <2>2, <3>1, <3>2 DEF Bears
  <2>3. QED
    BY <2>1, <2>2
<1>7. ASSUME NEW r \in 1 .. n
      PROVE  pair(r - 1) <=> Joins(K, g, f[r])
  <2>1. ASSUME pair(r - 1)
        PROVE  Joins(K, g, f[r])
    <3>1. r - 1 \in 1 .. n /\ r > 1 /\ r - 1 + 1 = r
      BY <1>1, <2>1
    <3>2. Beside(K, f[r - 1], f[r])
      BY <1>4, <3>1
    <3>3. QED
      BY <1>3, <2>1, <3>1, <3>2 DEF Joins
  <2>2. ASSUME Joins(K, g, f[r])
        PROVE  pair(r - 1)
    <3>1. PICK s \in 1 .. n : Beside(K, f[s], f[r]) /\ g[f[s]] = "base"
      BY <1>3, <2>2 DEF Joins
    <3>2. r = s + 1
      BY <1>4, <3>1
    <3>3. r - 1 = s /\ r - 1 + 1 = r
      BY <1>1, <3>2
    <3>4. QED
      BY <1>1, <1>3, <2>2, <3>1, <3>3 DEF Joins
  <2>3. QED
    BY <2>1, <2>2
<1>8. ASSUME NEW r \in 1 .. n
      PROVE  ~(pair(r) /\ pair(r - 1))
  <2>1. r - 1 + 1 = r
    BY <1>1
  <2>2. QED
    BY <2>1
<1>9. L \in SUBSET K
  BY DEF Apart
<1>10. \A r \in 1 .. n : f[r] \in L <=> ~pair(r - 1)
  BY <1>3, <1>7 DEF Apart
<1>11. \A r \in 1 .. n : h[f[r]] = IF pair(r) THEN "composed"
                                   ELSE IF text[r] = "nbsp" THEN "space" ELSE text[r]
  BY <1>3, <1>6 DEF Drawn
<1>12. \A r \in 1 .. n : h[f[r]] \in Chars
  BY <1>1, <1>11 DEF Chars, Letters, Blank
<1>13. \A r \in 1 .. n : marked[r] = IF f[r] \in L THEN h[f[r]] ELSE "gone"
  <2>1. \A r \in 1 .. n : marked[r] = IF pair(r) THEN "composed"
                                     ELSE IF pair(r - 1) THEN "gone"
                                     ELSE IF text[r] = "nbsp" THEN "space" ELSE text[r]
    BY <1>1
  <2> HIDE DEF marked, pair, L, h
  <2>2. QED
    BY <1>8, <1>10, <1>11, <2>1
<1>14. marked \in Seq(Chars \cup {"gone"}) /\ Len(marked) = n
  <2>1. \A r \in 1 .. n : marked[r] \in Chars \cup {"gone"}
    <3> HIDE DEF marked, L, h
    <3>1. QED
      BY <1>12, <1>13
  <2>2. DOMAIN marked = 1 .. n /\ marked = [r \in 1 .. n |-> marked[r]]
    BY <1>1
  <2> HIDE DEF marked, n
  <2>3. marked \in [1 .. n -> Chars \cup {"gone"}]
    BY <2>1, <2>2
  <2>4. QED
    BY <1>1, <2>3
<1>15. (Chars \cup {"gone"}) \ {"gone"} \subseteq Chars /\ "gone" \notin Chars
  BY DEF Chars, Letters, Blank
<1> HIDE DEF marked, L, h, pair
<1>16. \A r \in 1 .. n : marked[r] # "gone" <=> f[r] \in L
  BY <1>12, <1>13, <1>15
<1>17. \A r \in 1 .. n : f[r] \in L => marked[r] = h[f[r]]
  BY <1>13
<1>18. Reads(Without("gone", marked), L, h)
  BY <1>1, <1>2, <1>9, <1>14, <1>15, <1>16, <1>17, SelectReads
<1>19. QED
  BY <1>5, <1>18 DEF L, h

\* Strip: what stands between inked characters stays.
Inked(K, g) == {i \in K : g[i] \notin Blank}
Inner(K, g) == {i \in K : \E a, b \in Inked(K, g) : a <= i /\ i <= b}

LEMMA StripReads ==
    ASSUME NEW text, NEW K, NEW g, Reads(text, K, g)
    PROVE  Reads(Strip(text), Inner(K, g), g)
<1> DEFINE n == Len(text)
           inked == {r \in DOMAIN text : text[r] \notin Blank}
           L == Inner(K, g)
<1>1. text \in Seq(Chars) /\ K \in SUBSET Nat /\ n \in Nat /\ DOMAIN text = 1 .. n
  BY DEF Reads
<1>2. PICK f \in [1 .. n -> K] : Reading(f, text, K, g)
  BY DEF Reads
<1>3. /\ \A r \in 1 .. n : text[r] = g[f[r]] /\ f[r] \in K
      /\ \A i \in K : \E r \in 1 .. n : f[r] = i
      /\ \A r, s \in 1 .. n : r < s => f[r] < f[s]
  BY <1>2 DEF Reading
<1>4. \A r \in 1 .. n : r \in inked <=> f[r] \in Inked(K, g)
  BY <1>1, <1>3 DEF Inked
<1>5. Strip(text) = IF inked = {} THEN <<>> ELSE SubSeq(text, Min(inked), Max(inked))
  BY DEF Strip
<1>6. inked \in SUBSET (1 .. n) /\ inked \in SUBSET (0 .. n)
  BY <1>1
<1>7. L \in SUBSET K /\ L \in SUBSET Nat
  BY <1>1 DEF Inner
<1> HIDE DEF inked, n
<1>8. ASSUME inked = {}
      PROVE  Reads(Strip(text), L, g)
  <2>1. Inked(K, g) = {}
    <3>1. ASSUME NEW i \in Inked(K, g)
          PROVE  FALSE
      <4>1. PICK r \in 1 .. n : f[r] = i
        BY <1>3, <3>1 DEF Inked
      <4>2. QED
        BY <1>4, <1>8, <3>1, <4>1
    <3>2. QED
      BY <3>1
  <2>2. L = {}
    BY <2>1 DEF Inner
  <2>3. Strip(text) = <<>> /\ <<>> \in Seq(Chars) /\ Len(<<>>) = 0
    BY <1>5, <1>8
  <2> DEFINE e == [r \in 1 .. Len(<<>>) |-> r]
  <2>4. e \in [1 .. Len(<<>>) -> {}] /\ Reading(e, <<>>, {}, g)
    BY DEF Reading
  <2> HIDE DEF e, L
  <2>5. Reads(<<>>, {}, g)
    BY <2>3, <2>4 DEF Reads
  <2>6. QED
    BY <2>2, <2>3, <2>5
<1>9. ASSUME inked # {}
      PROVE  Reads(Strip(text), L, g)
  <2> DEFINE a == Min(inked)
             b == Max(inked)
             part == SubSeq(text, a, b)
             m == b - a + 1
             e == [r \in 1 .. m |-> f[r + a - 1]]
  <2>1. /\ a \in inked /\ b \in inked /\ a \in 1 .. n /\ b \in 1 .. n
        /\ \A r \in inked : a <= r /\ r <= b
    BY <1>1, <1>6, <1>9, LeastNatural, GreatestNatural
  <2>2. Strip(text) = part
    BY <1>5, <1>9
  <2> HIDE DEF a, b
  <2>3. a <= b /\ m \in Nat /\ a \in Nat /\ b \in Nat
    BY <1>1, <2>1
  <2>4. part \in Seq(Chars) /\ Len(part) = m /\ \A r \in 1 .. m : part[r] = text[r + a - 1]
    <3>1. a \in 1 .. Len(text) /\ b \in 1 .. Len(text)
      BY <2>1 DEF n
    <3>2. part \in Seq(Chars)
      BY <1>1, <3>1
    <3>3. Len(part) = m /\ \A r \in 1 .. m : part[r] = text[a + r - 1]
      BY <1>1, <2>3, <3>1
    <3>4. \A r \in 1 .. m : a + r - 1 = r + a - 1
      BY <2>3
    <3> HIDE DEF part, m
    <3>5. QED
      BY <3>2, <3>3, <3>4
  <2>5. ASSUME NEW r \in 1 .. n
        PROVE  f[r] \in L <=> a <= r /\ r <= b
    <3>1. ASSUME f[r] \in L
          PROVE  a <= r /\ r <= b
      <4>1. PICK i \in Inked(K, g), j \in Inked(K, g) : i <= f[r] /\ f[r] <= j
        BY <3>1 DEF Inner
      <4>2. PICK s \in 1 .. n, t \in 1 .. n : f[s] = i /\ f[t] = j
        BY <1>3 DEF Inked
      <4>3. s \in inked /\ t \in inked
        BY <1>4, <4>2
      <4>4. ~(r < s) /\ ~(t < r)
        <5>1. f[r] \in Nat /\ f[s] \in Nat /\ f[t] \in Nat
          BY <1>1, <1>3
        <5>2. QED
          BY <1>3, <4>1, <4>2, <5>1
      <4>5. r \in Nat /\ s \in Nat /\ t \in Nat
        BY <1>1
      <4>6. QED
        BY <2>1, <2>3, <4>3, <4>4, <4>5
    <3>2. ASSUME a <= r, r <= b
          PROVE  f[r] \in L
      <4>1. f[a] \in Inked(K, g) /\ f[b] \in Inked(K, g)
        BY <1>4, <2>1
      <4>2. f[a] <= f[r] /\ f[r] <= f[b]
        <5>1. f[a] \in Nat /\ f[b] \in Nat /\ f[r] \in Nat
          BY <1>1, <1>3, <2>1
        <5>2. a = r \/ a < r
          BY <2>3, <3>2, <1>1
        <5>3. r = b \/ r < b
          BY <2>3, <3>2, <1>1
        <5>4. QED
          BY <1>3, <2>1, <5>1, <5>2, <5>3
      <4>3. QED
        BY <1>3, <4>1, <4>2 DEF Inner
    <3>3. QED
      BY <3>1, <3>2
  <2> HIDE DEF part, L
  <2>6. \A r \in 1 .. m : r + a - 1 \in 1 .. n /\ a <= r + a - 1 /\ r + a - 1 <= b
    BY <1>1, <2>1, <2>3
  <2>7. e \in [1 .. m -> L]
    BY <2>5, <2>6
  <2>8. \A r, s \in 1 .. m : r < s => e[r] < e[s]
    <3> TAKE r, s \in 1 .. m
    <3> HAVE r < s
    <3>1. r + a - 1 < s + a - 1
      BY <2>3
    <3>2. QED
      BY <1>3, <2>6, <3>1
  <2>9. ASSUME NEW i \in L
        PROVE  \E r \in 1 .. m : e[r] = i
    <3>1. PICK s \in 1 .. n : f[s] = i
      BY <1>3, <1>7
    <3>2. a <= s /\ s <= b /\ s \in Nat
      BY <1>1, <2>5, <3>1
    <3>3. s - a + 1 \in 1 .. m /\ s - a + 1 + a - 1 = s
      BY <2>3, <3>2
    <3>4. QED
      BY <3>1, <3>3
  <2>10. \A r \in 1 .. m : part[r] = g[e[r]]
    BY <1>3, <2>4, <2>6
  <2> HIDE DEF e, m
  <2>11. Reading(e, part, L, g)
    BY <2>4, <2>7, <2>8, <2>9, <2>10 DEF Reading
  <2>12. Reads(part, L, g)
    BY <1>7, <2>4, <2>7, <2>11 DEF Reads
  <2>13. QED
    BY <2>2, <2>12
<1>10. QED
  BY <1>8, <1>9

-----------------------------------------------------------------------------
(* The order of the operations *)

LEMMA BesideOnce ==
    ASSUME NEW K \in SUBSET Nat, NEW i \in K, NEW j \in K, NEW k \in K
    PROVE  /\ Beside(K, i, k) /\ Beside(K, j, k) => i = j
           /\ Beside(K, i, j) /\ Beside(K, i, k) => j = k
<1>1. i \in Nat /\ j \in Nat /\ k \in Nat
  OBVIOUS
<1>2. QED
  BY <1>1 DEF Beside

\* Fewer places are beside each other still; more are, where none came between.
LEMMA BesideFewer ==
    ASSUME NEW K, NEW L \in SUBSET K, NEW i \in L, NEW j \in L
    PROVE  /\ Beside(K, i, j) => Beside(L, i, j)
           /\ Beside(L, i, j) /\ (\A k \in K \ L : ~(i < k /\ k < j)) => Beside(K, i, j)
  BY DEF Beside

LEMMA DrawnIs ==
    ASSUME NEW K, NEW g, NEW i \in K
    PROVE  /\ Drawn(K, g)[i] = "base" <=> g[i] = "base" /\ ~Bears(K, g, i)
           /\ Drawn(K, g)[i] = "accent" <=> g[i] = "accent"
           /\ Drawn(K, g)[i] = "invisible" <=> g[i] = "invisible"
           /\ Drawn(K, g)[i] = "space" <=> g[i] \in Blank
           /\ Drawn(K, g)[i] \notin Blank <=> g[i] \notin Blank
           /\ Drawn(K, g)[i] # "nbsp"
           /\ g[i] # "base" => Drawn(K, g)[i] = IF g[i] = "nbsp" THEN "space" ELSE g[i]
  BY DEF Drawn, Bears, Blank

\* Composing once more, when what is invisible has gone, composes what would be
\* composed had it gone before.
LEMMA ShownFirst ==
    ASSUME NEW K \in SUBSET Nat, NEW g
    PROVE  LET h == Drawn(K, g)
               M == Shown(Apart(K, g), h)
               L == Shown(K, g) IN
           /\ Apart(M, h) = Apart(L, g)
           /\ \A i \in Apart(L, g) : Drawn(M, h)[i] = Drawn(L, g)[i]
<1> DEFINE h == Drawn(K, g)
           M == Shown(Apart(K, g), h)
           L == Shown(K, g)
<1>1. \A i : i \in M <=> i \in K /\ ~Joins(K, g, i) /\ g[i] # "invisible"
  BY DrawnIs DEF Shown, Apart
<1>2. \A i : i \in L <=> i \in K /\ g[i] # "invisible"
  BY DEF Shown
<1>3. \A i \in K : /\ h[i] = "base" <=> g[i] = "base" /\ ~Bears(K, g, i)
                   /\ h[i] = "accent" <=> g[i] = "accent"
                   /\ Bears(K, g, i) => h[i] = "composed"
                   /\ ~Bears(K, g, i) => h[i] = IF g[i] = "nbsp" THEN "space" ELSE g[i]
  BY DrawnIs DEF Drawn
<1> HIDE DEF h, M, L
<1>4. M \in SUBSET L /\ L \in SUBSET K /\ L \in SUBSET Nat
  BY <1>1, <1>2
<1>5. ASSUME NEW i \in K, Joins(K, g, i)
      PROVE  i \in L /\ Joins(L, g, i)
  <2>1. PICK j \in K : Beside(K, j, i) /\ g[j] = "base"
    BY <1>5 DEF Joins
  <2>2. i \in L /\ j \in L
    BY <1>2, <1>5, <2>1 DEF Joins
  <2>3. QED
    BY <1>4, <1>5, <2>1, <2>2, BesideFewer DEF Joins
<1>6. ASSUME NEW i \in K, Bears(K, g, i)
      PROVE  i \in L /\ Bears(L, g, i)
  <2>1. PICK j \in K : Beside(K, i, j) /\ g[j] = "accent"
    BY <1>6 DEF Bears
  <2>2. i \in L /\ j \in L
    BY <1>2, <1>6, <2>1 DEF Bears
  <2>3. QED
    BY <1>4, <1>6, <2>1, <2>2, BesideFewer DEF Bears
\* A base letter and an accent, beside each other once the joined accents are gone.
<1>7. ASSUME NEW i \in M, NEW j \in M, Beside(M, i, j), g[i] = "base", ~Bears(K, g, i)
      PROVE  Beside(L, i, j)
  <2>1. ASSUME NEW k \in L \ M, i < k, k < j
        PROVE  FALSE
    <3>1. Joins(K, g, k) /\ k \in K
      BY <1>1, <1>2, <2>1
    <3>2. PICK m \in K : Beside(K, m, k) /\ g[m] = "base"
      BY <3>1 DEF Joins
    <3>3. m \in M
      BY <1>1, <3>2 DEF Joins
    <3>4. m \in Nat /\ i \in Nat /\ k \in Nat /\ j \in Nat /\ i \in K
      BY <1>4
    <3>5. m # i
      BY <1>7, <3>1, <3>2 DEF Bears, Joins
    <3>6. i <= m /\ m < k
      BY <2>1, <3>2, <3>4 DEF Beside
    <3>7. i < m /\ m < j
      BY <2>1, <3>4, <3>5, <3>6
    <3>8. QED
      BY <1>7, <3>3, <3>7 DEF Beside
  <2>2. QED
    BY <1>4, <1>7, <2>1, BesideFewer
<1>8. ASSUME NEW i \in L, NEW j \in L, Beside(L, i, j), g[i] = "base", g[j] = "accent", ~Joins(K, g, j)
      PROVE  /\ i \in M /\ j \in M /\ Beside(M, i, j) /\ ~Bears(K, g, i)
  <2>1. i \in M /\ j \in M
    BY <1>1, <1>2, <1>8 DEF Joins
  <2>2. ASSUME Bears(K, g, i)
        PROVE  FALSE
    <3>1. PICK m \in K : Beside(K, i, m) /\ g[m] = "accent"
      BY <2>2 DEF Bears
    <3>2. m \in L /\ m \in Nat /\ i \in Nat /\ j \in Nat /\ j \in K
      BY <1>2, <1>4, <3>1
    <3>3. m # j
      BY <1>8, <3>1 DEF Joins, Beside
    <3>4. i < m /\ ~(j < m)
      BY <1>8, <3>1, <3>2 DEF Beside
    <3>5. QED
      BY <1>8, <3>2, <3>3, <3>4 DEF Beside
  <2>3. QED
    BY <1>4, <1>8, <2>1, <2>2, BesideFewer
<1>9. ASSUME NEW i \in M
      PROVE  Joins(M, h, i) <=> Joins(L, g, i)
  <2>1. i \in L /\ i \in K /\ ~Joins(K, g, i)
    BY <1>1, <1>4
  <2>2. ASSUME Joins(M, h, i)
        PROVE  Joins(L, g, i)
    <3>1. PICK j \in M : Beside(M, j, i) /\ h[j] = "base"
      BY <2>2 DEF Joins
    <3>2. j \in K /\ j \in L /\ g[j] = "base" /\ ~Bears(K, g, j) /\ g[i] = "accent"
      BY <1>3, <1>4, <2>1, <2>2, <3>1 DEF Joins
    <3>3. QED
      BY <1>7, <3>1, <3>2 DEF Joins
  <2>3. ASSUME Joins(L, g, i)
        PROVE  Joins(M, h, i)
    <3>1. PICK j \in L : Beside(L, j, i) /\ g[j] = "base"
      BY <2>3 DEF Joins
    <3>2. j \in M /\ Beside(M, j, i) /\ ~Bears(K, g, j) /\ j \in K
      BY <1>4, <1>8, <2>1, <2>3, <3>1 DEF Joins
    <3>3. h[j] = "base" /\ h[i] = "accent"
      BY <1>3, <2>1, <2>3, <3>1, <3>2 DEF Joins
    <3>4. QED
      BY <3>2, <3>3 DEF Joins
  <2>4. QED
    BY <2>2, <2>3
<1>10. Apart(M, h) = Apart(L, g)
  <2>1. \A i \in L : i \notin M => Joins(L, g, i)
    BY <1>1, <1>2, <1>5
  <2>2. QED
    BY <1>4, <1>9, <2>1 DEF Apart
<1>11. ASSUME NEW i \in Apart(L, g)
       PROVE  Drawn(M, h)[i] = Drawn(L, g)[i]
  <2>1. i \in M /\ i \in L /\ i \in K
    BY <1>4, <1>10, <1>11 DEF Apart
  <2>2. CASE Bears(K, g, i)
    <3>1. h[i] = "composed" /\ Bears(L, g, i)
      BY <1>3, <1>6, <2>1, <2>2
    <3>2. QED
      BY <2>1, <3>1 DEF Drawn
  <2>3. CASE ~Bears(K, g, i)
    <3>1. Bears(M, h, i) <=> Bears(L, g, i)
      <4>1. ASSUME Bears(M, h, i)
            PROVE  Bears(L, g, i)
        <5>1. PICK j \in M : Beside(M, i, j) /\ h[j] = "accent"
          BY <4>1 DEF Bears
        <5>2. g[i] = "base" /\ g[j] = "accent" /\ j \in L
          BY <1>3, <1>4, <2>1, <4>1, <5>1 DEF Bears
        <5>3. QED
          BY <1>7, <2>1, <2>3, <5>1, <5>2 DEF Bears
      <4>2. ASSUME Bears(L, g, i)
            PROVE  Bears(M, h, i)
        <5>1. PICK j \in L : Beside(L, i, j) /\ g[j] = "accent"
          BY <4>2 DEF Bears
        <5>2. g[i] = "base" /\ j \in K
          BY <1>4, <4>2 DEF Bears
        <5>3. ~Joins(K, g, j)
          <6>1. ASSUME Joins(K, g, j)
                PROVE  FALSE
            <7>1. PICK m \in K : Beside(K, m, j) /\ g[m] = "base"
              BY <6>1 DEF Joins
            <7>2. m \in L
              BY <1>2, <7>1
            <7>3. Beside(L, m, j)
              BY <1>4, <5>1, <7>1, <7>2, BesideFewer
            <7>4. m = i
              BY <1>4, <2>1, <5>1, <7>2, <7>3, BesideOnce
            <7>5. QED
              BY <2>3, <5>1, <5>2, <7>1, <7>4 DEF Bears
          <6>2. QED
            BY <6>1
        <5>4. j \in M /\ Beside(M, i, j)
          BY <1>8, <2>1, <5>1, <5>2, <5>3
        <5>5. h[i] = "base" /\ h[j] = "accent"
          BY <1>3, <2>1, <2>3, <5>1, <5>2
        <5>6. QED
          BY <5>4, <5>5 DEF Bears
      <4>3. QED
        BY <4>1, <4>2
    <3>2. h[i] = IF g[i] = "nbsp" THEN "space" ELSE g[i]
      BY <1>3, <2>1, <2>3
    <3>3. QED
      BY <2>1, <3>1, <3>2 DEF Drawn
  <2>4. QED
    BY <2>2, <2>3
<1>12. QED
  BY <1>10, <1>11 DEF h, M, L

\* Whether the blanks around a text go before or after the rest is done to it.
LEMMA InnerFirst ==
    ASSUME NEW K \in SUBSET Nat, NEW g
    PROVE  LET P == Inner(K, g)
               h == Drawn(K, g)
               L == Shown(Apart(K, g), h)
               e == Drawn(P, g)
               M == Shown(Apart(P, g), e) IN
           /\ Inner(Spaced(M, e), e) = Inner(Spaced(L, h), h)
           /\ \A i \in Inner(Spaced(L, h), h) : e[i] = h[i]
<1> DEFINE P == Inner(K, g)
           h == Drawn(K, g)
           L == Shown(Apart(K, g), h)
           e == Drawn(P, g)
           M == Shown(Apart(P, g), e)
<1>1. P \in SUBSET K /\ P \in SUBSET Nat /\ \A i \in K : g[i] \notin Blank => i \in P
  <2>1. ASSUME NEW i \in K, g[i] \notin Blank
        PROVE  i \in P
    <3>1. i <= i
      OBVIOUS
    <3>2. QED
      BY <2>1, <3>1 DEF Inner, Inked
  <2>2. P \in SUBSET K
    BY DEF Inner
  <2>3. QED
    BY <2>1, <2>2
<1>2. ASSUME NEW i \in P, NEW j \in P, NEW k \in K, i < k, k < j
      PROVE  k \in P
  <2>1. PICK a \in Inked(K, g) : a <= i
    BY DEF Inner
  <2>2. PICK b \in Inked(K, g) : j <= b
    BY DEF Inner
  <2>3. a \in Nat /\ b \in Nat /\ i \in Nat /\ j \in Nat /\ k \in Nat
    BY <1>1 DEF Inked
  <2>4. a <= k /\ k <= b
    BY <1>2, <2>1, <2>2, <2>3
  <2>5. QED
    BY <2>4 DEF Inner
<1>3. \A i \in K : /\ h[i] = "accent" <=> g[i] = "accent"
                   /\ h[i] = "invisible" <=> g[i] = "invisible"
                   /\ h[i] \notin Blank <=> g[i] \notin Blank
  BY DrawnIs
<1> HIDE DEF P
<1>4. \A i, j \in P : Beside(P, i, j) <=> Beside(K, i, j)
  BY <1>1, <1>2, BesideFewer
<1>5. ASSUME NEW i \in P
      PROVE  /\ Joins(P, g, i) <=> Joins(K, g, i)
             /\ Bears(P, g, i) <=> Bears(K, g, i)
  <2>1. \A j \in K : g[j] \in {"base", "accent"} => j \in P
    BY <1>1 DEF Blank
  <2>2. QED
    BY <1>1, <1>4, <2>1 DEF Joins, Bears
<1>6. \A i \in P : e[i] = h[i]
  BY <1>1, <1>5 DEF Drawn
<1>7. \A i : i \in M <=> i \in L /\ i \in P
  <2>1. \A i : i \in M <=> i \in P /\ ~Joins(P, g, i) /\ e[i] # "invisible"
    BY DEF Shown, Apart
  <2>2. \A i : i \in L <=> i \in K /\ ~Joins(K, g, i) /\ h[i] # "invisible"
    BY DEF Shown, Apart
  <2> HIDE DEF M, L, e, h
  <2>3. QED
    BY <1>1, <1>5, <1>6, <2>1, <2>2
<1>8. L \in SUBSET K /\ L \in SUBSET Nat
  BY DEF Shown, Apart
<1> HIDE DEF M, L, e, h
<1>9. M \in SUBSET L /\ M \in SUBSET Nat /\ \A i, j \in M : Beside(L, i, j) => Beside(M, i, j)
  BY <1>7, <1>8, BesideFewer
<1> DEFINE I == Inked(Spaced(L, h), h)
<1>10. I \in SUBSET M /\ Inked(Spaced(M, e), e) = I /\ \A i \in I : h[i] \notin Blank
  <2>1. \A i : i \in I <=> i \in L /\ h[i] \notin Blank
    BY DEF Inked, Spaced, Spared, Blank
  <2>2. \A i : i \in Inked(Spaced(M, e), e) <=> i \in M /\ e[i] \notin Blank
    BY DEF Inked, Spaced, Spared, Blank
  <2>3. \A i \in L : h[i] \notin Blank => i \in P
    BY <1>1, <1>3, <1>8
  <2> HIDE DEF I
  <2>4. \A i \in I : i \in M
    BY <1>7, <2>1, <2>3
  <2>5. \A i : i \in Inked(Spaced(M, e), e) <=> i \in I
    BY <1>6, <1>7, <2>1, <2>2, <2>3
  <2>6. QED
    BY <2>1, <2>4, <2>5
<1> HIDE DEF I
<1>11. ASSUME NEW a \in I, NEW i \in M, a <= i
       PROVE  Spared(M, e, i) <=> Spared(L, h, i)
  <2>1. e[i] = h[i] /\ i \in L /\ i \in P /\ i \in Nat /\ a \in Nat /\ a \in P /\ a \in L
    BY <1>6, <1>7, <1>9, <1>10
  <2>2. CASE h[i] # "space"
    BY <2>1, <2>2 DEF Spared
  <2>3. CASE h[i] = "space"
    <3>1. a # i
      BY <1>10, <2>3 DEF Blank
    <3>2. a < i
      BY <1>11, <2>1, <3>1
    <3>3. PICK j \in L : a <= j /\ Beside(L, j, i)
      BY <1>8, <2>1, <3>2, PlaceBefore
    <3>4. j \in P
      <4>1. j \in Nat /\ j \in K /\ j < i
        BY <1>8, <3>3 DEF Beside
      <4>2. CASE j = a
        BY <2>1, <4>2
      <4>3. CASE j # a
        <5>1. a < j
          BY <2>1, <3>3, <4>1, <4>3
        <5>2. QED
          BY <1>2, <2>1, <4>1, <5>1
      <4>4. QED
        BY <4>2, <4>3
    <3>5. j \in M /\ Beside(M, j, i) /\ e[j] = h[j]
      BY <1>6, <1>7, <1>9, <3>3, <3>4
    <3>6. (\E k \in M : Beside(M, k, i) /\ e[k] = "space") <=> h[j] = "space"
      <4>1. \A k \in M : Beside(M, k, i) => k = j
        BY <1>9, <3>5, BesideOnce
      <4>2. QED
        BY <3>5, <4>1
    <3>7. (\E k \in L : Beside(L, k, i) /\ h[k] = "space") <=> h[j] = "space"
      <4>1. \A k \in L : Beside(L, k, i) => k = j
        BY <1>8, <2>1, <3>3, BesideOnce
      <4>2. QED
        BY <3>3, <4>1
    <3>8. QED
      BY <2>1, <3>6, <3>7 DEF Spared
  <2>4. QED
    BY <2>2, <2>3
<1>12. ASSUME NEW i, NEW a \in I, NEW b \in I, a <= i, i <= b, i \in L
       PROVE  i \in M
  <2>1. a \in P /\ b \in P /\ a \in Nat /\ b \in Nat /\ i \in Nat /\ i \in K
    BY <1>7, <1>8, <1>9, <1>10, <1>12
  <2>2. CASE i = a \/ i = b
    BY <1>10, <2>2
  <2>3. CASE i # a /\ i # b
    <3>1. a < i /\ i < b
      BY <1>12, <2>1, <2>3
    <3>2. QED
      BY <1>2, <1>7, <1>12, <2>1, <3>1
  <2>4. QED
    BY <2>2, <2>3
<1>13. \A i : i \in Inner(Spaced(M, e), e) <=>
          i \in M /\ Spared(M, e, i) /\ \E a, b \in I : a <= i /\ i <= b
  BY <1>10 DEF Inner, Spaced
<1>14. \A i : i \in Inner(Spaced(L, h), h) <=>
          i \in L /\ Spared(L, h, i) /\ \E a, b \in I : a <= i /\ i <= b
  BY DEF Inner, Spaced, I
<1>15. \A i : i \in Inner(Spaced(M, e), e) <=> i \in Inner(Spaced(L, h), h)
  BY <1>9, <1>11, <1>12, <1>13, <1>14
<1>16. \A i \in Inner(Spaced(L, h), h) : e[i] = h[i]
  BY <1>6, <1>7, <1>13, <1>15
<1>17. Inner(Spaced(M, e), e) = Inner(Spaced(L, h), h)
  BY <1>15
<1>18. QED
  BY <1>16, <1>17 DEF M, L, e, h, P

LEMMA StripFirst ==
    ASSUME NEW text \in Seq(Chars)
    PROVE  Normalise(Strip(text)) = Normalise(text)
<1> DEFINE K == 1 .. Len(text)
           P == Inner(K, text)
           h == Drawn(K, text)
           L == Shown(Apart(K, text), h)
           e == Drawn(P, text)
           M == Shown(Apart(P, text), e)
<1>1. Reads(text, K, text) /\ K \in SUBSET Nat
  BY ReadsItself
<1> HIDE DEF K
<1>2. Reads(Strip(text), P, text)
  BY <1>1, StripReads
<1> HIDE DEF P
<1>3. Reads(Normalise(text), Inner(Spaced(L, h), h), h)
  <2>1. Reads(Compose(text), Apart(K, text), h)
    BY <1>1, ComposeReads
  <2> HIDE DEF h
  <2>2. Reads(Visible(Compose(text)), L, h)
    BY <2>1, VisibleReads
  <2> HIDE DEF L
  <2>3. Reads(Collapse(Visible(Compose(text))), Spaced(L, h), h)
    BY <2>2, CollapseReads
  <2>4. QED
    BY <2>3, StripReads DEF Normalise
<1>4. Reads(Normalise(Strip(text)), Inner(Spaced(M, e), e), e)
  <2>1. Reads(Compose(Strip(text)), Apart(P, text), e)
    BY <1>2, ComposeReads
  <2> HIDE DEF e
  <2>2. Reads(Visible(Compose(Strip(text))), M, e)
    BY <2>1, VisibleReads
  <2> HIDE DEF M
  <2>3. Reads(Collapse(Visible(Compose(Strip(text)))), Spaced(M, e), e)
    BY <2>2, CollapseReads
  <2>4. QED
    BY <2>3, StripReads DEF Normalise
<1>5. /\ Inner(Spaced(M, e), e) = Inner(Spaced(L, h), h)
      /\ \A i \in Inner(Spaced(L, h), h) : e[i] = h[i]
  BY <1>1, InnerFirst DEF P
<1> HIDE DEF M, L, e, h
<1>6. Reads(Normalise(Strip(text)), Inner(Spaced(L, h), h), e)
  BY <1>4, <1>5
<1>7. QED
  BY <1>3, <1>5, <1>6, OneReading

\* Spaces next to a space go before or after the letters compose.
LEMMA SpacedFirst ==
    ASSUME NEW K \in SUBSET Nat, NEW g, \A i \in K : g[i] # "nbsp"
    PROVE  LET D == Spaced(K, g)
               d == Drawn(D, g)
               h == Drawn(K, g) IN
           /\ Spaced(Apart(D, g), d) = Spaced(Apart(K, g), h)
           /\ \A i \in Spaced(Apart(K, g), h) : d[i] = h[i]
<1> DEFINE D == Spaced(K, g)
           d == Drawn(D, g)
           h == Drawn(K, g)
           A == Apart(D, g)
           L == Apart(K, g)
<1>1. /\ D \in SUBSET K /\ D \in SUBSET Nat /\ \A i \in K : i \in D <=> Spared(K, g, i)
      /\ \A i \in K : g[i] # "space" => i \in D
  BY DEF Spaced, Spared
<1> HIDE DEF D
<1>2. ASSUME NEW i \in D, NEW j \in D, Beside(D, i, j), g[i] # "space"
      PROVE  Beside(K, i, j)
  <2>1. i \in K /\ j \in K /\ i < j /\ i \in Nat /\ j \in Nat
    BY <1>1, <1>2 DEF Beside
  <2>2. PICK k \in K : k <= j /\ Beside(K, i, k)
    BY <2>1, PlaceAfter
  <2>3. ASSUME k # j
        PROVE  FALSE
    <3>1. i < k /\ k < j
      BY <2>1, <2>2, <2>3 DEF Beside
    <3>2. k \notin D
      BY <1>2, <3>1 DEF Beside
    <3>3. PICK m \in K : Beside(K, m, k) /\ g[m] = "space"
      BY <1>1, <3>2 DEF Spared
    <3>4. m = i
      BY <2>1, <2>2, <3>3, BesideOnce
    <3>5. QED
      BY <1>2, <3>3, <3>4
  <2>4. QED
    BY <2>2, <2>3
<1>3. ASSUME NEW i \in D
      PROVE  /\ Joins(D, g, i) <=> Joins(K, g, i)
             /\ Bears(D, g, i) <=> Bears(K, g, i)
  <2>1. \A j \in K : g[j] \in {"base", "accent"} => j \in D /\ g[j] # "space"
    BY <1>1
  <2>2. \A j, k \in D : g[j] # "space" => (Beside(D, j, k) <=> Beside(K, j, k))
    BY <1>1, <1>2, BesideFewer
  <2>3. Joins(D, g, i) <=> Joins(K, g, i)
    BY <1>1, <2>1, <2>2 DEF Joins
  <2>4. Bears(D, g, i) <=> Bears(K, g, i)
    BY <1>1, <2>1, <2>2 DEF Bears
  <2>5. QED
    BY <2>3, <2>4
<1>4. \A i \in D : d[i] = h[i]
  BY <1>1, <1>3 DEF Drawn
<1>5. \A i \in K : h[i] = "space" <=> g[i] = "space"
  BY DrawnIs DEF Blank
<1>6. \A i : i \in A <=> i \in D /\ ~Joins(K, g, i)
  BY <1>3 DEF Apart
<1>7. \A i : i \in L <=> i \in K /\ ~Joins(K, g, i)
  BY DEF Apart
<1> HIDE DEF A, L, d, h
<1>8. /\ A \in SUBSET L /\ A \in SUBSET D /\ A \in SUBSET K /\ A \in SUBSET Nat
      /\ L \in SUBSET K /\ L \in SUBSET Nat
  BY <1>1, <1>6, <1>7
<1>9. ASSUME NEW i \in A, NEW j \in A, Beside(A, j, i), g[i] = "space", g[j] = "space"
      PROVE  FALSE
  <2>1. i \in K /\ j \in K /\ i \in Nat /\ j \in Nat /\ j < i
    BY <1>8, <1>9 DEF Beside
  <2>2. PICK k \in K : j <= k /\ Beside(K, k, i)
    BY <2>1, PlaceBefore
  <2>3. g[k] # "space" /\ k \in D /\ k \in Nat /\ k < i
    BY <1>1, <1>8, <1>9, <2>1, <2>2 DEF Spared, Beside
  <2>4. j < k
    BY <1>9, <2>1, <2>2, <2>3
  <2>5. k \notin A
    BY <1>9, <2>3, <2>4 DEF Beside
  <2>6. PICK m \in K : Beside(K, m, k) /\ g[m] = "base"
    BY <1>6, <2>3, <2>5 DEF Joins
  <2>7. m \in A /\ m \in Nat /\ m < k
    BY <1>1, <1>6, <2>6 DEF Joins, Beside
  <2>8. j < m
    <3>1. ~(m < j)
      BY <2>1, <2>4, <2>6 DEF Beside
    <3>2. m # j
      BY <1>9, <2>6
    <3>3. QED
      BY <2>1, <2>7, <3>1, <3>2
  <2>9. m < i
    BY <2>1, <2>3, <2>7
  <2>10. QED
    BY <1>9, <2>7, <2>8, <2>9 DEF Beside
<1>10. Spaced(A, d) = A
  <2>1. \A i \in A : d[i] = "space" <=> g[i] = "space"
    BY <1>4, <1>5, <1>8
  <2>2. \A i \in A : Spared(A, d, i)
    BY <1>9, <2>1 DEF Spared
  <2>3. QED
    BY <2>2 DEF Spaced
<1>11. ASSUME NEW i \in L
       PROVE  Spared(L, h, i) <=> i \in D
  <2>1. i \in K /\ i \in Nat
    BY <1>8
  <2>2. ASSUME i \notin D
        PROVE  ~Spared(L, h, i)
    <3>1. PICK j \in K : g[i] = "space" /\ Beside(K, j, i) /\ g[j] = "space"
      BY <1>1, <2>1, <2>2 DEF Spared
    <3>2. j \in L
      BY <1>7, <3>1 DEF Joins
    <3>3. Beside(L, j, i)
      BY <1>8, <3>1, <3>2, BesideFewer
    <3>4. h[i] = "space" /\ h[j] = "space"
      BY <1>5, <2>1, <3>1
    <3>5. QED
      BY <3>2, <3>3, <3>4 DEF Spared
  <2>3. ASSUME ~Spared(L, h, i)
        PROVE  i \notin D
    <3>1. PICK j \in L : h[i] = "space" /\ Beside(L, j, i) /\ h[j] = "space"
      BY <2>3 DEF Spared
    <3>2. j \in K /\ j \in Nat /\ j < i /\ g[i] = "space" /\ g[j] = "space"
      BY <1>5, <1>8, <2>1, <3>1 DEF Beside
    <3>3. PICK k \in K : k <= i /\ Beside(K, j, k)
      BY <2>1, <3>2, PlaceAfter
    <3>4. ASSUME k # i
          PROVE  FALSE
      <4>1. j < k /\ k < i
        BY <2>1, <3>2, <3>3, <3>4 DEF Beside
      <4>2. k \notin L
        BY <3>1, <4>1 DEF Beside
      <4>3. PICK m \in K : Beside(K, m, k) /\ g[m] = "base"
        BY <1>7, <4>2 DEF Joins
      <4>4. m = j
        BY <3>2, <3>3, <4>3, BesideOnce
      <4>5. QED
        BY <3>2, <4>3, <4>4
    <3>5. ~Spared(K, g, i)
      BY <3>2, <3>3, <3>4 DEF Spared
    <3>6. QED
      BY <1>1, <2>1, <3>5
  <2>4. QED
    BY <2>2, <2>3
<1>12. Spaced(L, h) = A
  <2>1. \A i : i \in Spaced(L, h) <=> i \in L /\ i \in D
    BY <1>11 DEF Spaced
  <2>2. \A i : i \in Spaced(L, h) <=> i \in A
    BY <1>1, <1>6, <1>7, <2>1
  <2>3. QED
    BY <2>2
<1>13. \A i \in A : d[i] = h[i]
  BY <1>4, <1>8
<1>14. QED
  BY <1>10, <1>12, <1>13 DEF A, L, d, h, D

\* Only what stands at the places counts.
LEMMA SameTable ==
    ASSUME NEW K, NEW g, NEW h, \A i \in K : g[i] = h[i]
    PROVE  /\ Spaced(K, g) = Spaced(K, h) /\ Inner(K, g) = Inner(K, h)
           /\ Apart(K, g) = Apart(K, h) /\ Shown(K, g) = Shown(K, h)
           /\ Drawn(K, g) = Drawn(K, h)
<1>1. \A i \in K : Spared(K, g, i) <=> Spared(K, h, i)
  BY DEF Spared
<1>2. Inked(K, g) = Inked(K, h)
  BY DEF Inked
<1>3. \A i \in K : (Joins(K, g, i) <=> Joins(K, h, i)) /\ (Bears(K, g, i) <=> Bears(K, h, i))
  BY DEF Joins, Bears
<1>4. Drawn(K, g) = Drawn(K, h)
  BY <1>3 DEF Drawn
<1>5. Spaced(K, g) = Spaced(K, h) /\ Inner(K, g) = Inner(K, h) /\ Shown(K, g) = Shown(K, h)
  BY <1>1, <1>2 DEF Spaced, Inner, Shown
<1>6. Apart(K, g) = Apart(K, h)
  BY <1>3 DEF Apart
<1>7. QED
  BY <1>4, <1>5, <1>6

\* Strip(Collapse(_))
Tidy(K, g) == Inner(Spaced(K, g), g)

\* A tidy text has no two letters or spaces beside each other that were not so, or
\* had a space between them.
LEMMA TidyBeside ==
    ASSUME NEW K \in SUBSET Nat, NEW g, NEW i \in Tidy(K, g), NEW j \in Tidy(K, g),
           Beside(Tidy(K, g), i, j)
    PROVE  \/ Beside(K, i, j)
           \/ g[i] = "space" /\ g[j] # "space"
<1> DEFINE D == Spaced(K, g)
           T == Tidy(K, g)
<1>1. T \in SUBSET D /\ D \in SUBSET K /\ \A k \in K : k \in D <=> Spared(K, g, k)
  BY DEF Tidy, Inner, Spaced
<1>2. i \in Nat /\ j \in Nat /\ i < j /\ i \in D /\ j \in D /\ i \in K /\ j \in K
  BY <1>1 DEF Beside
<1>3. Beside(D, i, j)
  <2>1. PICK a \in Inked(D, g) : a <= i
    BY DEF Tidy, Inner
  <2>2. PICK b \in Inked(D, g) : j <= b
    BY DEF Tidy, Inner
  <2>3. ASSUME NEW k \in D, i < k, k < j
        PROVE  FALSE
    <3>1. a \in Nat /\ b \in Nat /\ k \in Nat
      BY <1>1 DEF Inked
    <3>2. a <= k /\ k <= b
      BY <1>2, <2>1, <2>2, <2>3, <3>1
    <3>3. k \in T
      BY <3>2 DEF Tidy, Inner
    <3>4. QED
      BY <2>3, <3>3 DEF Beside
  <2>4. QED
    BY <1>2, <2>3 DEF Beside
<1> HIDE DEF D, T
<1>4. ASSUME ~Beside(K, i, j), g[i] # "space"
      PROVE  FALSE
  <2>1. PICK k \in K : k <= j /\ Beside(K, i, k)
    BY <1>2, PlaceAfter
  <2>2. k # j /\ k \in Nat /\ i < k
    BY <1>4, <2>1 DEF Beside
  <2>3. k \notin D
    BY <1>2, <1>3, <2>1, <2>2 DEF Beside
  <2>4. PICK m \in K : Beside(K, m, k) /\ g[m] = "space"
    BY <1>1, <2>3 DEF Spared
  <2>5. m = i
    BY <1>2, <2>1, <2>4, BesideOnce
  <2>6. QED
    BY <1>4, <2>4, <2>5
<1>5. ASSUME ~Beside(K, i, j), g[j] = "space"
      PROVE  FALSE
  <2>1. PICK k \in K : i <= k /\ Beside(K, k, j)
    BY <1>2, PlaceBefore
  <2>2. k # i /\ k \in Nat /\ k < j
    BY <1>5, <2>1 DEF Beside
  <2>3. k \notin D
    BY <1>2, <1>3, <2>1, <2>2 DEF Beside
  <2>4. g[k] = "space"
    BY <1>1, <2>3 DEF Spared
  <2>5. ~Spared(K, g, j)
    BY <1>5, <2>1, <2>4 DEF Spared
  <2>6. QED
    BY <1>1, <1>2, <2>5
<1>6. QED
  BY <1>4, <1>5

\* Tidying twice is tidying once.
LEMMA TidyTwice ==
    ASSUME NEW K \in SUBSET Nat, NEW g
    PROVE  Spaced(Tidy(K, g), g) = Tidy(K, g) /\ Inner(Tidy(K, g), g) = Tidy(K, g)
<1> DEFINE D == Spaced(K, g)
           T == Tidy(K, g)
<1>1. T \in SUBSET D /\ D \in SUBSET K /\ \A k \in D : Spared(K, g, k)
  BY DEF Tidy, Inner, Spaced
<1>2. \A i \in T : Spared(T, g, i)
  <2>1. ASSUME NEW i \in T, NEW j \in T, Beside(T, j, i), g[i] = "space", g[j] = "space"
        PROVE  FALSE
    <3>1. Beside(K, j, i)
      BY <2>1, TidyBeside
    <3>2. Spared(K, g, i) /\ j \in K
      BY <1>1
    <3>3. QED
      BY <2>1, <3>1, <3>2 DEF Spared
  <2>2. QED
    BY <2>1 DEF Spared
<1>3. Spaced(T, g) = T
  <2> HIDE DEF T
  <2>1. QED
    BY <1>2 DEF Spaced
<1>4. Inked(T, g) = Inked(D, g)
  <2>1. ASSUME NEW i \in Inked(D, g)
        PROVE  i \in T
    <3>1. i \in Nat /\ i \in D
      BY <1>1 DEF Inked
    <3>2. i <= i
      BY <3>1
    <3>3. QED
      BY <3>1, <3>2 DEF Tidy, Inner
  <2> HIDE DEF D, T
  <2>2. QED
    BY <1>1, <2>1 DEF Inked
<1>5. Inner(T, g) = T
  <2>1. \A i \in T : \E a, b \in Inked(D, g) : a <= i /\ i <= b
    BY DEF Tidy, Inner
  <2> HIDE DEF D, T
  <2>2. QED
    BY <1>4, <2>1 DEF Inner
<1>6. QED
  BY <1>3, <1>5

\* No accent right behind a base letter.
Settled(K, g) == \A i, j \in K : Beside(K, i, j) => ~(g[i] = "base" /\ g[j] = "accent")

LEMMA SettledFixed ==
    ASSUME NEW K, NEW g, Settled(K, g), \A i \in K : g[i] # "nbsp"
    PROVE  Apart(K, g) = K /\ \A i \in K : Drawn(K, g)[i] = g[i]
  BY DEF Settled, Apart, Drawn, Joins, Bears

LEMMA DrawnSettled ==
    ASSUME NEW K \in SUBSET Nat, NEW g
    PROVE  Settled(Apart(K, g), Drawn(K, g))
<1> DEFINE L == Apart(K, g)
           h == Drawn(K, g)
<1>1. L \in SUBSET K /\ \A i \in K : i \in L <=> ~Joins(K, g, i)
  BY DEF Apart
<1>2. \A i \in K : /\ h[i] = "base" <=> g[i] = "base" /\ ~Bears(K, g, i)
                   /\ h[i] = "accent" <=> g[i] = "accent"
  BY DrawnIs
<1> HIDE DEF L, h
<1>3. ASSUME NEW i \in L, NEW j \in L, Beside(L, i, j), h[i] = "base", h[j] = "accent"
      PROVE  FALSE
  <2>1. /\ i \in K /\ j \in K /\ i \in Nat /\ j \in Nat /\ i < j
        /\ g[i] = "base" /\ ~Bears(K, g, i) /\ g[j] = "accent"
    BY <1>1, <1>2, <1>3 DEF Beside
  <2>2. PICK k \in K : k <= j /\ Beside(K, i, k)
    BY <2>1, PlaceAfter
  <2>3. k # j /\ k \in Nat /\ i < k
    BY <2>1, <2>2 DEF Bears, Beside
  <2>4. k \notin L
    BY <1>3, <2>1, <2>2, <2>3 DEF Beside
  <2>5. g[k] = "accent"
    BY <1>1, <2>4 DEF Joins
  <2>6. QED
    BY <2>1, <2>2, <2>5 DEF Bears
<1>4. QED
  BY <1>3 DEF Settled, L, h

LEMMA TidySettled ==
    ASSUME NEW K \in SUBSET Nat, NEW g, Settled(K, g)
    PROVE  Settled(Tidy(K, g), g)
<1>1. Tidy(K, g) \in SUBSET K
  BY DEF Tidy, Inner, Spaced
<1>2. QED
  BY <1>1, TidyBeside DEF Settled

\* Settled, for a text.
SettledText(text) ==
    \A r \in 1 .. Len(text) : r > 1 => ~(text[r - 1] = "base" /\ text[r] = "accent")

LEMMA SettledReads ==
    ASSUME NEW text, NEW K, NEW g, Reads(text, K, g)
    PROVE  SettledText(text) <=> Settled(K, g)
<1> DEFINE n == Len(text)
<1>1. text \in Seq(Chars) /\ K \in SUBSET Nat /\ n \in Nat
  BY DEF Reads
<1>2. PICK f \in [1 .. n -> K] : Reading(f, text, K, g)
  BY DEF Reads
<1>3. /\ \A r \in 1 .. n : text[r] = g[f[r]] /\ f[r] \in K
      /\ \A i \in K : \E r \in 1 .. n : f[r] = i
  BY <1>2 DEF Reading
<1>4. /\ \A r \in 1 .. n : r > 1 => Beside(K, f[r - 1], f[r])
      /\ \A r, s \in 1 .. n : Beside(K, f[r], f[s]) => s = r + 1
  BY <1>1, <1>2, ReadBeside
<1> HIDE DEF n
<1>5. ASSUME SettledText(text), NEW i \in K, NEW j \in K, Beside(K, i, j),
             g[i] = "base", g[j] = "accent"
      PROVE  FALSE
  <2>1. PICK r \in 1 .. n, s \in 1 .. n : f[r] = i /\ f[s] = j
    BY <1>3
  <2>2. s = r + 1
    BY <1>4, <1>5, <2>1
  <2>3. s > 1 /\ s - 1 = r
    BY <1>1, <2>2
  <2>4. QED
    BY <1>3, <1>5, <2>1, <2>3 DEF SettledText, n
<1>6. ASSUME Settled(K, g), NEW r \in 1 .. n, r > 1, text[r - 1] = "base", text[r] = "accent"
      PROVE  FALSE
  <2>1. r - 1 \in 1 .. n
    BY <1>1, <1>6
  <2>2. QED
    BY <1>3, <1>4, <1>6, <2>1 DEF Settled
<1>7. QED
  BY <1>5, <1>6 DEF SettledText, Settled, n

\* The places normalising leaves of a text, with what stands there.
LEMMA NormalReads ==
    ASSUME NEW text, NEW K, NEW g, Reads(text, K, g)
    PROVE  LET h == Drawn(K, g)
               L == Shown(Apart(K, g), h) IN
           /\ Reads(Normalise(text), Tidy(L, h), h)
           /\ \A i \in L : h[i] # "nbsp" /\ h[i] # "invisible"
           /\ L \in SUBSET Nat
<1> DEFINE h == Drawn(K, g)
           L == Shown(Apart(K, g), h)
<1>1. Reads(Compose(text), Apart(K, g), h)
  BY ComposeReads
<1>2. \A i \in L : h[i] # "nbsp" /\ h[i] # "invisible"
  BY DrawnIs DEF Shown, Apart
<1> HIDE DEF h
<1>3. Reads(Visible(Compose(text)), L, h)
  BY <1>1, VisibleReads
<1> HIDE DEF L
<1>4. L \in SUBSET Nat
  BY <1>3 DEF Reads
<1>5. Reads(Collapse(Visible(Compose(text))), Spaced(L, h), h)
  BY <1>3, CollapseReads
<1>6. Reads(Normalise(text), Tidy(L, h), h)
  BY <1>5, StripReads DEF Normalise, Tidy
<1>7. QED
  BY <1>2, <1>4, <1>6 DEF L, h

\* Normalising twice is what a reader sees: what composes or is collapsed in the
\* text without what is invisible.
LEMMA NormalTwice ==
    ASSUME NEW text \in Seq(Chars)
    PROVE  Normalise(Normalise(text)) = Looks(text)
<1> DEFINE K == 1 .. Len(text)
           h == Drawn(K, text)
           L == Shown(Apart(K, text), h)
           D == Spaced(L, h)
           d == Drawn(D, h)
           T == Inner(D, h)
           e == Drawn(T, h)
           M == Shown(Apart(T, h), e)
           S == Shown(K, text)
           c == Drawn(S, text)
           A == Apart(S, text)
           b == Drawn(L, h)
<1>1. Reads(text, K, text) /\ K \in SUBSET Nat
  BY ReadsItself
<1> HIDE DEF K
<1>2. Reads(Normalise(text), T, h) /\ L \in SUBSET Nat
  BY <1>1, NormalReads DEF Tidy
<1>3. \A i \in L : h[i] # "nbsp" /\ h[i] # "invisible"
  BY <1>1, NormalReads
<1>4. D \in SUBSET L /\ T \in SUBSET D
  BY DEF Spaced, Inner
\* What normalising twice leaves.
<1>5. Reads(Normalise(Normalise(text)), Inner(Spaced(M, e), e), e)
  <2> HIDE DEF T, h
  <2>1. QED
    BY <1>2, NormalReads DEF Tidy
\* What is seen.
<1>6. Reads(Looks(text), Inner(Spaced(A, c), c), c)
  <2>1. Reads(Visible(text), S, text)
    BY <1>1, VisibleReads
  <2> HIDE DEF S
  <2>2. Reads(Compose(Visible(text)), A, c)
    BY <2>1, ComposeReads
  <2> HIDE DEF A, c
  <2>3. Reads(Collapse(Compose(Visible(text))), Spaced(A, c), c)
    BY <2>2, CollapseReads
  <2>4. QED
    BY <2>3, StripReads DEF Looks
\* The same places.
<1>7. Apart(L, h) = A /\ \A i \in A : b[i] = c[i]
  BY <1>1, ShownFirst
<1>8. Spaced(Apart(D, h), d) = Spaced(A, b) /\ \A i \in Spaced(A, b) : d[i] = b[i]
  <2> HIDE DEF h, L, A
  <2>1. /\ Spaced(Apart(D, h), d) = Spaced(Apart(L, h), b)
        /\ \A i \in Spaced(Apart(L, h), b) : d[i] = b[i]
    BY <1>2, <1>3, SpacedFirst
  <2>2. QED
    BY <1>7, <2>1
<1>9. Shown(Apart(D, h), d) = Apart(D, h)
  <2> HIDE DEF h, L, D
  <2>1. \A i \in D : d[i] # "invisible"
    BY <1>3, <1>4, DrawnIs
  <2>2. QED
    BY <2>1 DEF Shown, Apart
<1>10. /\ Inner(Spaced(M, e), e) = Inner(Spaced(Apart(D, h), d), d)
       /\ \A i \in Inner(Spaced(M, e), e) : e[i] = d[i]
  <2> HIDE DEF h, L, D
  <2>1. D \in SUBSET Nat
    BY <1>2, <1>4
  <2>2. /\ Inner(Spaced(M, e), e) = Inner(Spaced(Shown(Apart(D, h), d), d), d)
        /\ \A i \in Inner(Spaced(Shown(Apart(D, h), d), d), d) : e[i] = d[i]
    BY <2>1, InnerFirst
  <2>3. QED
    BY <1>9, <2>2
<1> HIDE DEF h, L, D, d, T, e, M, S, c, A, b
<1>11. Spaced(A, b) = Spaced(A, c)
  BY <1>7, SameTable
<1>12. Spaced(A, b) \in SUBSET A
  BY DEF Spaced
<1>13. \A i \in Spaced(A, b) : d[i] = c[i]
  BY <1>7, <1>8, <1>12
<1>14. Inner(Spaced(A, b), d) = Inner(Spaced(A, b), c)
  BY <1>13, SameTable
<1>15. Inner(Spaced(M, e), e) = Inner(Spaced(A, c), c)
  BY <1>8, <1>10, <1>11, <1>14
<1>16. Inner(Spaced(A, c), c) \in SUBSET Spaced(A, c)
  BY DEF Inner
<1>17. \A i \in Inner(Spaced(A, c), c) : e[i] = c[i]
  BY <1>10, <1>11, <1>13, <1>15, <1>16
<1>18. QED
  BY <1>5, <1>6, <1>15, <1>17, OneReading

\* What is seen of a text has no accent right behind a base letter.
LEMMA LooksSettled ==
    ASSUME NEW text \in Seq(Chars)
    PROVE  SettledText(Looks(text))
<1> DEFINE S == Shown(1 .. Len(text), text)
           A == Apart(S, text)
           c == Drawn(S, text)
<1>1. Reads(Visible(text), S, text)
  BY ReadsItself, VisibleReads
<1> HIDE DEF S
<1>2. S \in SUBSET Nat
  BY <1>1 DEF Reads
<1>3. Reads(Compose(Visible(text)), A, c) /\ Settled(A, c)
  BY <1>1, <1>2, ComposeReads, DrawnSettled
<1> HIDE DEF A, c
<1>4. A \in SUBSET Nat
  BY <1>3 DEF Reads
<1>5. Reads(Collapse(Compose(Visible(text))), Spaced(A, c), c)
  BY <1>3, CollapseReads
<1>6. Reads(Looks(text), Tidy(A, c), c)
  BY <1>5, StripReads DEF Looks, Tidy
<1>7. Settled(Tidy(A, c), c)
  BY <1>3, <1>4, TidySettled
<1>8. QED
  BY <1>6, <1>7, SettledReads

\* A normalised text without an accent behind a base letter is normal.
LEMMA NormalFixed ==
    ASSUME NEW text \in Seq(Chars), SettledText(Normalise(text))
    PROVE  Normalise(Normalise(text)) = Normalise(text)
<1> DEFINE K == 1 .. Len(text)
           h == Drawn(K, text)
           L == Shown(Apart(K, text), h)
           T == Tidy(L, h)
           e == Drawn(T, h)
           M == Shown(Apart(T, h), e)
<1>1. /\ Reads(Normalise(text), T, h) /\ L \in SUBSET Nat
      /\ \A i \in L : h[i] # "nbsp" /\ h[i] # "invisible"
  BY ReadsItself, NormalReads
<1> HIDE DEF h, L
<1>2. T \in SUBSET L /\ Spaced(T, h) = T /\ Inner(T, h) = T
  BY <1>1, TidyTwice DEF Tidy, Inner, Spaced
<1> HIDE DEF T
<1>3. Settled(T, h)
  BY <1>1, SettledReads
<1>4. Apart(T, h) = T /\ \A i \in T : e[i] = h[i]
  BY <1>1, <1>2, <1>3, SettledFixed
<1>5. Reads(Normalise(Normalise(text)), Tidy(M, e), e)
  BY <1>1, NormalReads
<1>6. M = T
  <2> HIDE DEF e
  <2>1. QED
    BY <1>1, <1>2, <1>4 DEF Shown
<1> HIDE DEF e, M
<1>7. Tidy(M, e) = T
  <2>1. Spaced(T, e) = T /\ Inner(T, e) = T
    BY <1>2, <1>4, SameTable
  <2>2. QED
    BY <1>6, <2>1 DEF Tidy
<1>8. QED
  BY <1>1, <1>4, <1>5, <1>7, OneReading

-----------------------------------------------------------------------------
(* Citations *)

\* A part of a text without an accent behind a base letter has none.
LEMMA SettledPart ==
    ASSUME NEW text \in Seq(Chars), SettledText(text), NEW part \in Seq(Chars),
           NEW p \in Occurrences(part, text)
    PROVE  SettledText(part)
<1> DEFINE n == Len(text)
           m == Len(part)
<1>1. n \in Nat /\ m \in Nat /\ p \in Nat /\ p + m <= n /\ SubSeq(text, p + 1, p + m) = part
  BY DEF Occurrences
<1>2. \A r \in 1 .. m : part[r] = text[p + r] /\ p + r \in 1 .. n
  <2> SUFFICES ASSUME NEW r \in 1 .. m
               PROVE  part[r] = text[p + r] /\ p + r \in 1 .. n
    OBVIOUS
  <2> DEFINE a == p + 1
             b == p + m
  <2>1. a \in 1 .. Len(text) /\ b \in 1 .. Len(text) /\ b - a + 1 = m
    BY <1>1
  <2>2. SubSeq(text, a, b) = part
    BY <1>1
  <2>3. a + r - 1 = p + r /\ p + r \in 1 .. n
    BY <1>1
  <2> HIDE DEF a, b
  <2>4. \A s \in 1 .. b - a + 1 : SubSeq(text, a, b)[s] = text[a + s - 1]
    BY <2>1
  <2> HIDE DEF n, m
  <2>5. QED
    BY <2>1, <2>2, <2>3, <2>4
<1> HIDE DEF n, m
<1>3. ASSUME NEW r \in 1 .. m, r > 1
      PROVE  ~(part[r - 1] = "base" /\ part[r] = "accent")
  <2> DEFINE s == p + r
  <2>1. r - 1 \in 1 .. m /\ p + (r - 1) = s - 1 /\ s > 1
    BY <1>1, <1>3
  <2>2. s \in 1 .. Len(text) /\ part[r - 1] = text[s - 1] /\ part[r] = text[s]
    BY <1>2, <2>1 DEF n
  <2> HIDE DEF s
  <2>3. QED
    BY <2>1, <2>2 DEF SettledText
<1>4. QED
  BY <1>3 DEF SettledText, m

\* What the text and the citation are, at every moment.
CiteInv ==
    /\ PackInv
    /\ clean # NoText => clean = Normalise(body)
    /\ cited.verified => cited = VerifyQuote(quote, clean)

LEMMA CiteInit == Init => CiteInv
<1> SUFFICES ASSUME Init
             PROVE  CiteInv
  OBVIOUS
<1>1. ~cited.verified /\ clean = NoText
  BY DEF Init, NotFound
<1>2. QED
  BY <1>1, PackInit DEF CiteInv

LEMMA CiteNext == CiteInv /\ [Next]_vars => CiteInv'
<1> SUFFICES ASSUME CiteInv, [Next]_vars
             PROVE  CiteInv'
  OBVIOUS
<1>1. PackInv'
  BY PackNext DEF CiteInv
<1>2. CASE Store
  <2>1. ~cited.verified
    BY <1>2 DEF CiteInv, PackInv, Store
  <2>2. (clean # NoText => clean = Normalise(body))'
    BY <1>2 DEF Store
  <2>3. ~cited'.verified
    BY <1>2, <2>1 DEF Store, citation
  <2>4. QED
    BY <1>1, <2>2, <2>3 DEF CiteInv
<1>3. CASE Cite
  <2>1. clean' = clean /\ body' = body
    BY <1>3 DEF Cite
  <2>2. cited'.verified => cited' = VerifyQuote(quote', clean)
    BY <1>3 DEF Cite, NotFound
  <2>3. QED
    BY <1>1, <2>1, <2>2 DEF CiteInv
<1>4. CASE UNCHANGED <<body, clean, quote, cited>>
  BY <1>1, <1>4 DEF CiteInv
<1>5. QED
  BY <1>2, <1>3, <1>4 DEF Next, vars, citation, packing, SkipChunking, BeginChunk, Extend, Cut, Finish

LEMMA CiteAlways == Spec => []CiteInv
  BY CiteInit, CiteNext, PTL DEF Spec

\* Where a verified quote stands.
LEMMA CiteFound ==
    ASSUME CiteInv, cited.verified
    PROVE  /\ body \in Seq(Chars) /\ quote \in Seq(Chars) /\ clean \in Seq(Chars)
           /\ clean = Normalise(body) /\ cited.from \in Nat /\ cited.to \in Nat
           /\ cited.to <= Len(Normalise(clean))
           /\ SubSeq(Normalise(clean), cited.from + 1, cited.to) = Normalise(quote)
           /\ cited.from \in Occurrences(Normalise(quote), Normalise(clean))
<1>1. /\ body \in Seq(Chars) /\ quote \in Seq(Chars) /\ clean # NoText /\ clean \in Seq(Chars)
      /\ cited.from \in Nat /\ cited.to \in Nat
      /\ clean = Normalise(body) /\ cited = VerifyQuote(quote, clean)
  BY DEF CiteInv, PackInv, PassagesTypeOK
<1>2. /\ cited.to <= Len(Normalise(clean))
      /\ SubSeq(Normalise(clean), cited.from + 1, cited.to) = Normalise(Strip(quote))
      /\ cited.from \in Occurrences(Normalise(Strip(quote)), Normalise(clean))
  BY <1>1, QuoteFound
<1>3. Normalise(Strip(quote)) = Normalise(quote)
  BY <1>1, StripFirst
<1>4. QED
  BY <1>1, <1>2, <1>3

\* verify_quote, for any document and any quote: normalising the stripped quote finds what
\* normalising the quote does, and the offsets lead to it, wherever normalising once more
\* leaves clean_text alone.
THEOREM OffsetsSafe == Spec => []OffsetsLocate
<1>1. CiteInv => OffsetsLocate
  <2> SUFFICES ASSUME CiteInv, cited.verified, Normalise(clean) = clean
               PROVE  Slice(clean, cited.from, cited.to) = Normalise(quote)
    BY DEF OffsetsLocate
  <2> DEFINE n == Len(clean)
             to == cited.to
  <2>1. /\ n \in Nat /\ to \in Nat /\ to <= n
        /\ SubSeq(clean, cited.from + 1, to) = Normalise(quote)
    BY CiteFound
  <2> HIDE DEF n, to
  <2>2. Min({to, n}) = to
    <3>1. {to, n} \in SUBSET (0 .. n) /\ {to, n} # {}
      BY <2>1
    <3>2. Min({to, n}) \in {to, n} /\ \A y \in {to, n} : Min({to, n}) <= y
      BY <2>1, <3>1, LeastNatural
    <3>3. QED
      BY <2>1, <3>2
  <2>3. QED
    BY <2>1, <2>2 DEF Slice, n, to
<1>2. QED
  BY <1>1, CiteAlways, PTL

\* verify_quote over what compute_hashes stored, for any page and any quote: what a reader
\* sees of a verified quote stands in what a reader sees of the page.
THEOREM VisibleSafe == Spec => []VerifiedIsVisible
<1>1. CiteInv => VerifiedIsVisible
  <2> SUFFICES ASSUME CiteInv, cited.verified
               PROVE  Occurrences(Looks(quote), Looks(body)) # {}
    BY DEF VerifiedIsVisible
  <2>1. /\ body \in Seq(Chars) /\ quote \in Seq(Chars)
        /\ cited.from \in Occurrences(Normalise(quote), Normalise(Normalise(body)))
    BY CiteFound
  <2>2. cited.from \in Occurrences(Normalise(quote), Looks(body))
    BY <2>1, NormalTwice
  <2>3. Normalise(quote) \in Seq(Chars) /\ Looks(body) \in Seq(Chars)
    <3>1. Normalise(Normalise(body)) \in Seq(Chars)
      BY <2>1, Normalised
    <3>2. QED
      BY <2>1, <3>1, Normalised, NormalTwice
  <2>4. SettledText(Normalise(quote))
    BY <2>1, <2>2, <2>3, LooksSettled, SettledPart
  <2>5. Looks(quote) = Normalise(quote)
    BY <2>1, <2>4, NormalFixed, NormalTwice
  <2>6. QED
    BY <2>2, <2>5
<1>2. QED
  BY <1>1, CiteAlways, PTL
=============================================================================
