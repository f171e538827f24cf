--------------------------- MODULE OverlaysProofs ---------------------------
(***************************************************************************)
(* For any contract, any overlays and any number of calls with them in     *)
(* different orders: what applying the overlays makes of the contract.     *)
(***************************************************************************)
EXTENDS Overlays, SequenceTheorems, WellFoundedInduction, TLAPS

-----------------------------------------------------------------------------
(* Paths of tokens. *)
Path == Seq(DOMAIN Rank)

Rest(n, p) == SubSeq(p, Len(n) + 1, Len(p))

LEMMA PathProperties ==
  ASSUME NEW p \in Path
  PROVE  /\ Len(p) \in Nat
         /\ DOMAIN p = 1..Len(p)
         /\ \A k \in 1..Len(p) : p[k] \in DOMAIN Rank
         /\ p # <<>> <=> Len(p) > 0
  BY LenProperties, EmptySeq DEF Path

LEMMA PathsEqual ==
  ASSUME NEW p \in Path, NEW q \in Path, Len(p) = Len(q), \A k \in 1..Len(p) : p[k] = q[k]
  PROVE  p = q
  BY SeqEqual DEF Path

(* The beginning of a path. *)
LEMMA Beginning ==
  ASSUME NEW p \in Path, NEW n \in 0..Len(p)
  PROVE  /\ SubSeq(p, 1, n) \in Path
         /\ Len(SubSeq(p, 1, n)) = n
         /\ \A k \in 1..n : SubSeq(p, 1, n)[k] = p[k]
<1>1. Len(p) \in Nat /\ \A k \in 1..Len(p) : p[k] \in DOMAIN Rank BY PathProperties
<1>2. n \in Int /\ \A k \in 1..n : p[k] \in DOMAIN Rank BY <1>1
<1>3. /\ SubSeq(p, 1, n) \in Seq(DOMAIN Rank)
      /\ Len(SubSeq(p, 1, n)) = IF 1 <= n THEN n - 1 + 1 ELSE 0
      /\ \A k \in 1..(n - 1 + 1) : SubSeq(p, 1, n)[k] = p[1 + k - 1]
  BY <1>2, SubSeqProperties
<1> QED BY <1>1, <1>3 DEF Path

(* The end of a path. *)
LEMMA Ending ==
  ASSUME NEW p \in Path, NEW n \in 0..Len(p)
  PROVE  /\ SubSeq(p, n + 1, Len(p)) \in Path
         /\ Len(SubSeq(p, n + 1, Len(p))) = Len(p) - n
         /\ \A k \in 1..(Len(p) - n) : SubSeq(p, n + 1, Len(p))[k] = p[n + k]
<1>1. Len(p) \in Nat /\ \A k \in 1..Len(p) : p[k] \in DOMAIN Rank BY PathProperties
<1> DEFINE m == n + 1
           l == Len(p)
<1>2. m \in Int /\ l \in Int /\ \A k \in m..l : p[k] \in DOMAIN Rank BY <1>1
<1>3. /\ SubSeq(p, m, l) \in Seq(DOMAIN Rank)
      /\ Len(SubSeq(p, m, l)) = IF m <= l THEN l - m + 1 ELSE 0
      /\ \A k \in 1..(l - m + 1) : SubSeq(p, m, l)[k] = p[m + k - 1]
  <2> HIDE DEF m, l
  <2> QED BY <1>2, SubSeqProperties
<1>4. /\ SubSeq(p, n + 1, Len(p)) \in Path
      /\ Len(SubSeq(p, n + 1, Len(p))) = Len(p) - n
  BY <1>1, <1>3 DEF Path
<1>5. ASSUME NEW k \in 1..(Len(p) - n)
      PROVE  SubSeq(p, n + 1, Len(p))[k] = p[n + k]
  <2>1. k \in 1..(l - m + 1) /\ m + k - 1 = n + k BY <1>1
  <2>2. SubSeq(p, m, l)[k] = p[m + k - 1] BY <1>3, <2>1
  <2> QED BY <2>1, <2>2
<1> QED BY <1>4, <1>5

LEMMA PrefixMeans ==
  ASSUME NEW s \in Path, NEW t \in Path
  PROVE  IsPrefix(s, t) <=> Len(s) <= Len(t) /\ \A k \in 1..Len(s) : s[k] = t[k]
<1>1. Len(s) \in Nat /\ Len(t) \in Nat BY PathProperties
<1>2. SubSeq(s, 1, Len(s)) = s BY SubSeqFull DEF Path
<1>3. ASSUME Len(s) <= Len(t)
      PROVE  /\ SubSeq(t, 1, Len(s)) \in Path
             /\ Len(SubSeq(t, 1, Len(s))) = Len(s)
             /\ \A k \in 1..Len(s) : SubSeq(t, 1, Len(s))[k] = t[k]
  BY <1>1, <1>3, Beginning
<1>4. ASSUME Len(s) <= Len(t), \A k \in 1..Len(s) : s[k] = t[k]
      PROVE  SubSeq(t, 1, Len(s)) = s
  BY <1>1, <1>3, <1>4, PathsEqual
<1> QED
  BY <1>1, <1>2, <1>3, <1>4 DEF IsPrefix

LEMMA PrefixReflexive ==
  ASSUME NEW p \in Path
  PROVE  IsPrefix(p, p)
  BY PrefixMeans, PathProperties

LEMMA PrefixTransitive ==
  ASSUME NEW s \in Path, NEW t \in Path, NEW u \in Path, IsPrefix(s, t), IsPrefix(t, u)
  PROVE  IsPrefix(s, u)
  BY PrefixMeans, PathProperties

LEMMA PrefixAntisymmetric ==
  ASSUME NEW s \in Path, NEW t \in Path, IsPrefix(s, t), Len(t) <= Len(s)
  PROVE  s = t
  BY PrefixMeans, PathProperties, PathsEqual

(* What begins the same path overlaps. *)
LEMMA PrefixesOverlap ==
  ASSUME NEW s \in Path, NEW t \in Path, NEW u \in Path, IsPrefix(s, u), IsPrefix(t, u)
  PROVE  Overlap(s, t)
<1>1. Len(s) \in Nat /\ Len(t) \in Nat /\ Len(u) \in Nat BY PathProperties
<1>2. CASE Len(s) <= Len(t) BY <1>1, <1>2, PrefixMeans DEF Overlap
<1>3. CASE Len(t) <= Len(s) BY <1>1, <1>3, PrefixMeans DEF Overlap
<1> QED BY <1>1, <1>2, <1>3

LEMMA FrontProperties ==
  ASSUME NEW p \in Path, p # <<>>
  PROVE  /\ Front(p) \in Path
         /\ Len(Front(p)) = Len(p) - 1
         /\ \A k \in 1..(Len(p) - 1) : Front(p)[k] = p[k]
         /\ Last(p) = p[Len(p)] /\ Last(p) \in DOMAIN Rank
         /\ Append(Front(p), Last(p)) = p
<1>1. Len(p) \in Nat /\ Len(p) > 0 BY PathProperties
<1>2. /\ Front(p) \in Path
      /\ Len(Front(p)) = Len(p) - 1
      /\ \A k \in 1..(Len(p) - 1) : Front(p)[k] = p[k]
  <2> DEFINE l == Len(p) - 1
  <2>1. l \in 0..Len(p) BY <1>1
  <2>2. /\ SubSeq(p, 1, l) \in Path
        /\ Len(SubSeq(p, 1, l)) = l
        /\ \A k \in 1..l : SubSeq(p, 1, l)[k] = p[k]
    <3> HIDE DEF l
    <3> QED BY <2>1, Beginning
  <2> QED BY <2>2 DEF Front
<1>3. Last(p) = p[Len(p)] /\ Last(p) \in DOMAIN Rank BY <1>1, PathProperties DEF Last
<1>4. /\ Append(Front(p), Last(p)) \in Path
      /\ Len(Append(Front(p), Last(p))) = Len(Front(p)) + 1
      /\ \A k \in 1..Len(Front(p)) : Append(Front(p), Last(p))[k] = Front(p)[k]
      /\ Append(Front(p), Last(p))[Len(Front(p)) + 1] = Last(p)
  BY <1>2, <1>3, AppendProperties DEF Path
<1>5. Append(Front(p), Last(p)) = p
  <2>1. Len(Append(Front(p), Last(p))) = Len(p) BY <1>1, <1>2, <1>4
  <2>2. ASSUME NEW k \in 1..Len(p) PROVE Append(Front(p), Last(p))[k] = p[k]
    <3>1. CASE k = Len(p) BY <1>1, <1>2, <1>3, <1>4, <3>1
    <3>2. CASE k # Len(p)
      <4>1. k \in 1..(Len(p) - 1) /\ k \in 1..Len(Front(p)) BY <1>1, <1>2, <3>2
      <4> QED BY <1>2, <1>4, <4>1
    <3> QED BY <3>1, <3>2
  <2> QED BY <1>4, <2>1, <2>2, PathsEqual
<1> QED BY <1>2, <1>3, <1>5

LEMMA AppendToPath ==
  ASSUME NEW p \in Path, NEW t \in DOMAIN Rank
  PROVE  /\ Append(p, t) \in Path /\ Append(p, t) # <<>>
         /\ Len(Append(p, t)) = Len(p) + 1
         /\ \A k \in 1..Len(p) : Append(p, t)[k] = p[k]
         /\ Append(p, t)[Len(p) + 1] = t
         /\ Front(Append(p, t)) = p /\ Last(Append(p, t)) = t
<1>1. /\ Append(p, t) \in Path /\ Append(p, t) # <<>>
      /\ Len(Append(p, t)) = Len(p) + 1
      /\ \A k \in 1..Len(p) : Append(p, t)[k] = p[k]
      /\ Append(p, t)[Len(p) + 1] = t
  BY AppendProperties DEF Path
<1>2. Len(p) \in Nat BY PathProperties
<1>3. Front(Append(p, t)) = p
  <2>1. /\ Front(Append(p, t)) \in Path
        /\ Len(Front(Append(p, t))) = Len(Append(p, t)) - 1
        /\ \A k \in 1..(Len(Append(p, t)) - 1) : Front(Append(p, t))[k] = Append(p, t)[k]
    BY <1>1, FrontProperties
  <2>2. Len(Append(p, t)) - 1 = Len(p) BY <1>1, <1>2
  <2> QED BY <1>1, <2>1, <2>2, PathsEqual
<1> QED BY <1>1, <1>2, <1>3, FrontProperties

(* A path lies below n if its father does, or if it is n itself. *)
LEMMA PrefixOfFront ==
  ASSUME NEW n \in Path, NEW p \in Path, p # <<>>
  PROVE  IsPrefix(n, p) <=> p = n \/ IsPrefix(n, Front(p))
<1>1. Len(n) \in Nat /\ Len(p) \in Nat /\ Len(p) > 0 BY PathProperties
<1>2. /\ Front(p) \in Path
      /\ Len(Front(p)) = Len(p) - 1
      /\ \A k \in 1..(Len(p) - 1) : Front(p)[k] = p[k]
  BY FrontProperties
<1>3. ASSUME IsPrefix(n, p), p # n PROVE IsPrefix(n, Front(p))
  <2>1. Len(n) < Len(p) BY <1>1, <1>3, PrefixAntisymmetric, PrefixMeans
  <2> QED BY <1>1, <1>2, <1>3, <2>1, PrefixMeans
<1>4. ASSUME IsPrefix(n, Front(p)) PROVE IsPrefix(n, p)
  BY <1>1, <1>2, <1>4, PrefixMeans
<1> QED BY <1>3, <1>4, PrefixReflexive

LEMMA Joined ==
  ASSUME NEW n \in Path, NEW q \in Path
  PROVE  /\ n \o q \in Path
         /\ IsPrefix(n, n \o q)
         /\ Rest(n, n \o q) = q
<1>1. /\ n \o q \in Path /\ Len(n \o q) = Len(n) + Len(q)
      /\ \A k \in 1..(Len(n) + Len(q)) :
           (n \o q)[k] = IF k <= Len(n) THEN n[k] ELSE q[k - Len(n)]
  BY ConcatProperties DEF Path
<1>2. Len(n) \in Nat /\ Len(q) \in Nat BY PathProperties
<1>3. IsPrefix(n, n \o q)
  <2>1. \A k \in 1..Len(n) : n[k] = (n \o q)[k] BY <1>1, <1>2
  <2>2. Len(n) <= Len(n \o q) BY <1>1, <1>2
  <2> QED BY <1>1, <2>1, <2>2, PrefixMeans
<1>4. Len(n) \in 0..Len(n \o q) BY <1>1, <1>2
<1>5. /\ Rest(n, n \o q) \in Path
      /\ Len(Rest(n, n \o q)) = Len(q)
      /\ \A k \in 1..Len(q) : Rest(n, n \o q)[k] = (n \o q)[Len(n) + k]
  <2>1. /\ Rest(n, n \o q) \in Path
        /\ Len(Rest(n, n \o q)) = Len(n \o q) - Len(n)
        /\ \A k \in 1..(Len(n \o q) - Len(n)) : Rest(n, n \o q)[k] = (n \o q)[Len(n) + k]
    BY <1>1, <1>4, Ending DEF Rest
  <2>2. Len(n \o q) - Len(n) = Len(q) BY <1>1, <1>2
  <2> QED BY <2>1, <2>2
<1>6. Rest(n, n \o q) = q
  <2>1. ASSUME NEW k \in 1..Len(q) PROVE Rest(n, n \o q)[k] = q[k]
    <3>1. Len(n) + k \in 1..(Len(n) + Len(q)) /\ ~(Len(n) + k <= Len(n))
          /\ (Len(n) + k) - Len(n) = k
      BY <1>2
    <3>2. (n \o q)[Len(n) + k] = q[k] BY <1>1, <3>1
    <3> QED BY <1>5, <3>2
  <2> QED BY <1>5, <2>1, PathsEqual
<1> QED BY <1>1, <1>3, <1>6

LEMMA Divided ==
  ASSUME NEW n \in Path, NEW p \in Path, IsPrefix(n, p)
  PROVE  /\ Rest(n, p) \in Path
         /\ Len(Rest(n, p)) = Len(p) - Len(n)
         /\ \A k \in 1..(Len(p) - Len(n)) : Rest(n, p)[k] = p[Len(n) + k]
         /\ n \o Rest(n, p) = p
<1>1. Len(n) \in Nat /\ Len(p) \in Nat /\ Len(n) <= Len(p) BY PathProperties, PrefixMeans
<1>2. /\ Rest(n, p) \in Path
      /\ Len(Rest(n, p)) = Len(p) - Len(n)
      /\ \A k \in 1..(Len(p) - Len(n)) : Rest(n, p)[k] = p[Len(n) + k]
  <2>1. Len(n) \in 0..Len(p) BY <1>1
  <2> QED BY <2>1, Ending DEF Rest
<1>3. /\ n \o Rest(n, p) \in Path /\ Len(n \o Rest(n, p)) = Len(p)
      /\ \A k \in 1..Len(p) :
           (n \o Rest(n, p))[k] = IF k <= Len(n) THEN n[k] ELSE Rest(n, p)[k - Len(n)]
  BY <1>1, <1>2, ConcatProperties DEF Path
<1>4. n \o Rest(n, p) = p
  <2>1. ASSUME NEW k \in 1..Len(p) PROVE (n \o Rest(n, p))[k] = p[k]
    <3>1. CASE k <= Len(n)
      <4>1. k \in 1..Len(n) BY <1>1, <3>1
      <4> QED BY <1>3, <3>1, <4>1, PrefixMeans
    <3>2. CASE ~(k <= Len(n))
      <4>1. k - Len(n) \in 1..(Len(p) - Len(n)) /\ Len(n) + (k - Len(n)) = k BY <1>1, <3>2
      <4>2. Rest(n, p)[k - Len(n)] = p[k] BY <1>2, <4>1
      <4> QED BY <1>3, <3>2, <4>2
    <3> QED BY <3>1, <3>2
  <2> QED BY <1>3, <2>1, PathsEqual
<1> QED BY <1>2, <1>4

(* Fathers and children on both sides of a division. *)
LEMMA DividedFront ==
  ASSUME NEW n \in Path, NEW p \in Path, IsPrefix(n, p), p # n
  PROVE  /\ p # <<>> /\ IsPrefix(n, Front(p))
         /\ Rest(n, p) # <<>>
         /\ Rest(n, Front(p)) = Front(Rest(n, p))
         /\ Last(Rest(n, p)) = Last(p)
<1>1. Len(n) \in Nat /\ Len(p) \in Nat /\ Len(n) <= Len(p) BY PathProperties, PrefixMeans
<1>2. Len(n) < Len(p) BY <1>1, PrefixAntisymmetric
<1>3. p # <<>> /\ IsPrefix(n, Front(p)) BY <1>1, <1>2, PathProperties, PrefixOfFront
<1>4. /\ Front(p) \in Path /\ Len(Front(p)) = Len(p) - 1
      /\ \A k \in 1..(Len(p) - 1) : Front(p)[k] = p[k]
      /\ Last(p) = p[Len(p)]
  BY <1>3, FrontProperties
<1>5. /\ Rest(n, p) \in Path /\ Len(Rest(n, p)) = Len(p) - Len(n)
      /\ \A k \in 1..(Len(p) - Len(n)) : Rest(n, p)[k] = p[Len(n) + k]
  BY Divided
<1>6. /\ Rest(n, Front(p)) \in Path /\ Len(Rest(n, Front(p))) = Len(p) - 1 - Len(n)
      /\ \A k \in 1..(Len(p) - 1 - Len(n)) : Rest(n, Front(p))[k] = Front(p)[Len(n) + k]
  BY <1>3, <1>4, Divided
<1>7. Rest(n, p) # <<>> BY <1>1, <1>2, <1>5, PathProperties
<1>8. /\ Front(Rest(n, p)) \in Path /\ Len(Front(Rest(n, p))) = Len(p) - Len(n) - 1
      /\ \A k \in 1..(Len(p) - Len(n) - 1) : Front(Rest(n, p))[k] = Rest(n, p)[k]
      /\ Last(Rest(n, p)) = Rest(n, p)[Len(p) - Len(n)]
  BY <1>5, <1>7, FrontProperties
<1>9. Rest(n, Front(p)) = Front(Rest(n, p))
  <2>1. ASSUME NEW k \in 1..(Len(p) - 1 - Len(n))
        PROVE  Rest(n, Front(p))[k] = Front(Rest(n, p))[k]
    <3>1. /\ k \in 1..(Len(p) - Len(n)) /\ k \in 1..(Len(p) - Len(n) - 1)
          /\ Len(n) + k \in 1..(Len(p) - 1)
      BY <1>1
    <3>2. Rest(n, Front(p))[k] = p[Len(n) + k] BY <1>4, <1>6, <3>1
    <3>3. Front(Rest(n, p))[k] = p[Len(n) + k] BY <1>5, <1>8, <3>1
    <3> QED BY <3>2, <3>3
  <2> QED BY <1>1, <1>6, <1>8, <2>1, PathsEqual
<1>10. Last(Rest(n, p)) = Last(p) BY <1>1, <1>2, <1>4, <1>5, <1>8
<1> QED BY <1>3, <1>7, <1>9, <1>10

LEMMA DividedAppend ==
  ASSUME NEW n \in Path, NEW p \in Path, NEW t \in DOMAIN Rank, IsPrefix(n, p)
  PROVE  /\ IsPrefix(n, Append(p, t))
         /\ Rest(n, Append(p, t)) = Append(Rest(n, p), t)
<1>1. /\ Append(p, t) \in Path /\ Append(p, t) # <<>>
      /\ Front(Append(p, t)) = p /\ Last(Append(p, t)) = t
      /\ Len(Append(p, t)) = Len(p) + 1
  BY AppendToPath
<1>2. IsPrefix(n, Append(p, t)) BY <1>1, PrefixOfFront
<1>3. Append(p, t) # n BY <1>1, PrefixMeans, PathProperties
<1>4. /\ Rest(n, Append(p, t)) \in Path /\ Rest(n, Append(p, t)) # <<>>
      /\ Front(Rest(n, Append(p, t))) = Rest(n, p) /\ Last(Rest(n, Append(p, t))) = t
  BY <1>1, <1>2, <1>3, DividedFront, Divided
<1> QED BY <1>2, <1>4, FrontProperties

-----------------------------------------------------------------------------
(* What Replace does to the nodes at or below n, and to the others. *)
LEMMA ReplaceProperties ==
  ASSUME NEW doc, NEW n \in Path, NEW value,
         DOMAIN doc \subseteq Path, DOMAIN value \subseteq Path
  PROVE  /\ Replace(doc, n, value) = [p \in DOMAIN Replace(doc, n, value) |->
                                        Replace(doc, n, value)[p]]
         /\ DOMAIN Replace(doc, n, value) \subseteq Path
         /\ \A p \in Path : IsPrefix(n, p) =>
              /\ p \in DOMAIN Replace(doc, n, value) <=> Rest(n, p) \in DOMAIN value
              /\ p \in DOMAIN Replace(doc, n, value) =>
                   Replace(doc, n, value)[p] = value[Rest(n, p)]
         /\ \A p \in Path : ~IsPrefix(n, p) =>
              /\ p \in DOMAIN Replace(doc, n, value) <=> p \in DOMAIN doc
              /\ p \in DOMAIN Replace(doc, n, value) => Replace(doc, n, value)[p] = doc[p]
<1> DEFINE R == Replace(doc, n, value)
           Kept == {q \in DOMAIN doc : ~IsPrefix(n, q)}
           New == {n \o q : q \in DOMAIN value}
<1>1. /\ R = [p \in Kept \cup New |-> IF IsPrefix(n, p) THEN value[Rest(n, p)] ELSE doc[p]]
  BY DEF Replace, Rest
<1>2. \A p \in Path : p \in New <=> IsPrefix(n, p) /\ Rest(n, p) \in DOMAIN value
  <2>1. ASSUME NEW p \in Path, IsPrefix(n, p), Rest(n, p) \in DOMAIN value PROVE p \in New
    <3>1. n \o Rest(n, p) = p BY <2>1, Divided
    <3> QED BY <2>1, <3>1
  <2>2. ASSUME NEW q \in DOMAIN value
        PROVE  IsPrefix(n, n \o q) /\ Rest(n, n \o q) \in DOMAIN value
    BY Joined
  <2> QED BY <2>1, <2>2
<1>3. New \subseteq Path BY Joined
<1>4. Kept \subseteq Path /\ \A p \in Kept : p \in DOMAIN doc /\ ~IsPrefix(n, p) OBVIOUS
<1>5. \A p \in DOMAIN doc : ~IsPrefix(n, p) => p \in Kept OBVIOUS
<1> HIDE DEF Kept, New, R
<1>6. DOMAIN R = Kept \cup New BY <1>1
<1>7. R = [p \in DOMAIN R |-> R[p]] /\ DOMAIN R \subseteq Path BY <1>1, <1>3, <1>4
<1>8. ASSUME NEW p \in Path, IsPrefix(n, p)
      PROVE  /\ p \in DOMAIN R <=> Rest(n, p) \in DOMAIN value
             /\ p \in DOMAIN R => R[p] = value[Rest(n, p)]
  BY <1>1, <1>2, <1>4, <1>6, <1>8
<1>9. ASSUME NEW p \in Path, ~IsPrefix(n, p)
      PROVE  /\ p \in DOMAIN R <=> p \in DOMAIN doc
             /\ p \in DOMAIN R => R[p] = doc[p]
  BY <1>1, <1>2, <1>4, <1>5, <1>6, <1>9
<1> QED BY <1>7, <1>8, <1>9 DEF R

LEMMA DocumentNodes ==
  ASSUME NEW doc, IsDocument(doc)
  PROVE  /\ DOMAIN doc \subseteq Path
         /\ doc = [p \in DOMAIN doc |-> doc[p]]
         /\ \A p \in DOMAIN doc : doc[p] \in Scalars \cup {"object", "list"}
         /\ <<>> \in DOMAIN doc
  BY DEF IsDocument, Path

(* A document with one of its nodes replaced is a document. *)
LEMMA ReplaceIsDocument ==
  ASSUME NEW doc, NEW value, NEW n \in DOMAIN doc,
         IsDocument(doc), IsDocument(value), n # <<>>
  PROVE  IsDocument(Replace(doc, n, value))
<1> DEFINE R == Replace(doc, n, value)
<1>1. /\ DOMAIN doc \subseteq Path /\ DOMAIN value \subseteq Path /\ n \in Path
      /\ <<>> \in DOMAIN doc /\ <<>> \in DOMAIN value /\ <<>> \in Path
  BY DocumentNodes
<1>2. /\ R = [p \in DOMAIN R |-> R[p]]
      /\ DOMAIN R \subseteq Path
      /\ \A p \in Path : IsPrefix(n, p) =>
           /\ p \in DOMAIN R <=> Rest(n, p) \in DOMAIN value
           /\ p \in DOMAIN R => R[p] = value[Rest(n, p)]
      /\ \A p \in Path : ~IsPrefix(n, p) =>
           /\ p \in DOMAIN R <=> p \in DOMAIN doc
           /\ p \in DOMAIN R => R[p] = doc[p]
  BY <1>1, ReplaceProperties
<1> HIDE DEF R
<1>3. n \in DOMAIN R /\ R[n] = value[<<>>]
  <2>1. IsPrefix(n, n) /\ Rest(n, n) = <<>>
    BY <1>1, PrefixReflexive, PathProperties, SubSeqEmpty DEF Rest
  <2> QED BY <1>1, <1>2, <2>1
<1>4. R \in [DOMAIN R -> Scalars \cup {"object", "list"}]
  <2>1. ASSUME NEW p \in DOMAIN R PROVE R[p] \in Scalars \cup {"object", "list"}
    <3>1. CASE IsPrefix(n, p) BY <1>2, <2>1, <3>1, DocumentNodes
    <3>2. CASE ~IsPrefix(n, p) BY <1>2, <2>1, <3>2, DocumentNodes
    <3> QED BY <3>1, <3>2
  <2> QED BY <1>2, <2>1
<1>5. ~IsPrefix(n, <<>>) BY <1>1, PrefixMeans, PathProperties
<1>6. <<>> \in DOMAIN R BY <1>1, <1>2, <1>5
<1>7. ASSUME NEW p \in DOMAIN R \ {<<>>}
      PROVE  /\ Front(p) \in DOMAIN R
             /\ \/ R[Front(p)] = "object"
                \/ R[Front(p)] = "list" /\ \E i \in DOMAIN IndexToken : Last(p) = IndexToken[i]
  <2>1. p \in Path /\ Front(p) \in Path BY <1>2, FrontProperties
  <2>2. CASE p = n
    <3>1. /\ Front(p) \in DOMAIN doc
          /\ \/ doc[Front(p)] = "object"
             \/ doc[Front(p)] = "list" /\ \E i \in DOMAIN IndexToken : Last(p) = IndexToken[i]
      BY <2>2 DEF IsDocument
    <3>2. ~IsPrefix(n, Front(p)) BY <2>1, <2>2, FrontProperties, PrefixMeans, PathProperties
    <3> QED BY <1>2, <2>1, <3>1, <3>2
  <2>3. CASE IsPrefix(n, p) /\ p # n
    <3>1. /\ IsPrefix(n, Front(p)) /\ Rest(n, p) # <<>>
          /\ Rest(n, Front(p)) = Front(Rest(n, p)) /\ Last(Rest(n, p)) = Last(p)
      BY <1>1, <2>1, <2>3, DividedFront
    <3>2. Rest(n, p) \in DOMAIN value BY <1>2, <2>1, <2>3
    <3>3. /\ Front(Rest(n, p)) \in DOMAIN value
          /\ \/ value[Front(Rest(n, p))] = "object"
             \/ /\ value[Front(Rest(n, p))] = "list"
                /\ \E i \in DOMAIN IndexToken : Last(Rest(n, p)) = IndexToken[i]
      BY <3>1, <3>2 DEF IsDocument
    <3> QED BY <1>2, <2>1, <3>1, <3>3
  <2>4. CASE ~IsPrefix(n, p)
    <3>1. p \in DOMAIN doc BY <1>2, <2>1, <2>4
    <3>2. /\ Front(p) \in DOMAIN doc
          /\ \/ doc[Front(p)] = "object"
             \/ doc[Front(p)] = "list" /\ \E i \in DOMAIN IndexToken : Last(p) = IndexToken[i]
      BY <3>1 DEF IsDocument
    <3>3. ~IsPrefix(n, Front(p)) BY <1>1, <2>1, <2>4, PrefixOfFront
    <3> QED BY <1>2, <2>1, <3>2, <3>3
  <2> QED BY <2>2, <2>3, <2>4
<1>8. ASSUME NEW m \in DOMAIN R, R[m] = "list"
      PROVE  \A i \in Numbers(R, m) : 0..i \subseteq Numbers(R, m)
  <2>1. m \in Path BY <1>2
  <2>2. \A i \in DOMAIN IndexToken : IndexToken[i] \in DOMAIN Rank BY IndexAssumption
  <2>3. CASE IsPrefix(n, m)
    <3>1. Rest(n, m) \in DOMAIN value /\ value[Rest(n, m)] = "list"
      BY <1>2, <1>8, <2>1, <2>3
    <3>2. ASSUME NEW i \in DOMAIN IndexToken
          PROVE  Append(m, IndexToken[i]) \in DOMAIN R
                   <=> Append(Rest(n, m), IndexToken[i]) \in DOMAIN value
      <4>1. IndexToken[i] \in DOMAIN Rank BY <2>2
      <4>2. /\ Append(m, IndexToken[i]) \in Path /\ IsPrefix(n, Append(m, IndexToken[i]))
            /\ Rest(n, Append(m, IndexToken[i])) = Append(Rest(n, m), IndexToken[i])
        BY <1>1, <2>1, <2>3, <4>1, AppendToPath, DividedAppend
      <4> QED BY <1>2, <4>2
    <3>3. Numbers(R, m) = Numbers(value, Rest(n, m)) BY <3>2 DEF Numbers
    <3> QED BY <3>1, <3>3 DEF IsDocument
  <2>4. CASE ~IsPrefix(n, m)
    <3>1. m \in DOMAIN doc /\ doc[m] = "list" BY <1>2, <1>8, <2>1, <2>4
    <3>2. ASSUME NEW i \in DOMAIN IndexToken
          PROVE  Append(m, IndexToken[i]) \in DOMAIN R
                   <=> Append(m, IndexToken[i]) \in DOMAIN doc
      <4>1. IndexToken[i] \in DOMAIN Rank BY <2>2
      <4>2. /\ Append(m, IndexToken[i]) \in Path /\ Append(m, IndexToken[i]) # <<>>
            /\ Front(Append(m, IndexToken[i])) = m
        BY <2>1, <4>1, AppendToPath
      <4>3. IsPrefix(n, Append(m, IndexToken[i])) => Append(m, IndexToken[i]) = n
        BY <1>1, <2>4, <4>2, PrefixOfFront
      <4> QED BY <1>2, <1>3, <4>2, <4>3
    <3>3. Numbers(R, m) = Numbers(doc, m) BY <3>2 DEF Numbers
    <3> QED BY <3>1, <3>3 DEF IsDocument
  <2> QED BY <2>3, <2>4
<1>9. DOMAIN R \subseteq Seq(DOMAIN Rank) BY <1>2 DEF Path
<1>10. IsDocument(R) BY <1>4, <1>6, <1>7, <1>8, <1>9 DEF IsDocument
<1> QED BY <1>10 DEF R

-----------------------------------------------------------------------------
LEMMA LeastNatural ==
  ASSUME NEW T \in SUBSET Nat, T # {}
  PROVE  \E n \in T : \A m \in T : n <= m
<1> DEFINE R == OpToRel(<, Nat)
<1>1. IsWellFoundedOn(R, Nat) BY NatLessThanWellFounded
<1>2. R = {p \in Nat \X Nat : p[1] < p[2]} BY DEF OpToRel
<1> HIDE DEF R
<1>3. PICK n \in T : \A m \in T : ~(<<m, n>> \in R) BY <1>1, WFMin
<1>4. ASSUME NEW m \in T PROVE n <= m
  <2>1. ~(m < n) BY <1>2, <1>3
  <2> QED BY <2>1
<1> QED BY <1>4

(* Paths of one length that differ do so at some place for the first time. *)
LEMMA FirstDifference ==
  ASSUME NEW p \in Path, NEW q \in Path, ~Overlap(p, q)
  PROVE  \E k \in DOMAIN p \cap DOMAIN q :
           p[k] # q[k] /\ SubSeq(p, 1, k - 1) = SubSeq(q, 1, k - 1)
<1>1. /\ Len(p) \in Nat /\ DOMAIN p = 1..Len(p)
      /\ Len(q) \in Nat /\ DOMAIN q = 1..Len(q)
  BY PathProperties
<1> DEFINE T == {k \in DOMAIN p \cap DOMAIN q : p[k] # q[k]}
<1>2. T # {} BY <1>1, PrefixMeans DEF Overlap
<1>3. T \in SUBSET Nat BY <1>1
<1>4. PICK k \in T : \A l \in T : k <= l BY <1>2, <1>3, LeastNatural
<1>5. /\ k \in 1..Len(p) /\ k \in 1..Len(q) /\ k - 1 \in 0..Len(p) /\ k - 1 \in 0..Len(q)
  BY <1>1
<1>6. \A l \in 1..(k - 1) : p[l] = q[l] BY <1>1, <1>4, <1>5
<1>7. SubSeq(p, 1, k - 1) = SubSeq(q, 1, k - 1)
  <2> DEFINE b == k - 1
  <2>1. b \in 0..Len(p) /\ b \in 0..Len(q) /\ \A l \in 1..b : p[l] = q[l] BY <1>5, <1>6
  <2>2. SubSeq(p, 1, b) = SubSeq(q, 1, b)
    <3> HIDE DEF b
    <3> QED BY <2>1, Beginning, PathsEqual
  <2> QED BY <2>2
<1> QED BY <1>4, <1>7

(* A step of the descent takes the token itself, or the index it stands for. *)
LEMMA LeadsProperties ==
  ASSUME NEW doc, NEW n \in Path, NEW k \in 1..Len(n), NEW t \in DOMAIN Rank,
         Leads(doc, SubSeq(n, 1, k - 1), t, SubSeq(n, 1, k))
  PROVE  \/ doc[SubSeq(n, 1, k - 1)] = "object" /\ n[k] = t
         \/ /\ doc[SubSeq(n, 1, k - 1)] = "list"
            /\ t \in DOMAIN IndexOf /\ IndexOf[t] \in DOMAIN IndexToken
            /\ n[k] = IndexToken[IndexOf[t]]
<1>1. Len(n) \in Nat BY PathProperties
<1> DEFINE b == k - 1
<1>2. b \in 0..Len(n) /\ k \in 0..Len(n) /\ b + 1 = k BY <1>1
<1>3. SubSeq(n, 1, b) \in Path /\ Len(SubSeq(n, 1, b)) = b
  <2> HIDE DEF b
  <2> QED BY <1>2, Beginning
<1>4. SubSeq(n, 1, k)[k] = n[k] BY <1>2, Beginning
<1>5. ASSUME NEW x \in DOMAIN Rank, SubSeq(n, 1, k) = Append(SubSeq(n, 1, b), x)
      PROVE  n[k] = x
  <2>1. Append(SubSeq(n, 1, b), x)[b + 1] = x BY <1>3, AppendToPath
  <2> QED BY <1>2, <1>4, <1>5, <2>1
<1>6. CASE doc[SubSeq(n, 1, b)] = "object" /\ SubSeq(n, 1, k) = Append(SubSeq(n, 1, b), t)
  BY <1>5, <1>6
<1>7. CASE /\ doc[SubSeq(n, 1, b)] = "list"
           /\ t \in DOMAIN IndexOf /\ IndexOf[t] \in DOMAIN IndexToken
           /\ SubSeq(n, 1, k) = Append(SubSeq(n, 1, b), IndexToken[IndexOf[t]])
  <2>1. IndexToken[IndexOf[t]] \in DOMAIN Rank BY <1>7, IndexAssumption
  <2>2. n[k] = IndexToken[IndexOf[t]] BY <1>5, <1>7, <2>1
  <2> QED BY <1>7, <2>2
<1> QED BY <1>6, <1>7 DEF Leads

LEMMA LocatedProperties ==
  ASSUME NEW doc, IsDocument(doc), NEW pointer \in Path, NEW n \in Located(doc, pointer)
  PROVE  /\ n \in DOMAIN doc /\ n \in Path /\ Len(n) = Len(pointer)
         /\ \A k \in 1..Len(n) :
              \/ doc[SubSeq(n, 1, k - 1)] = "object" /\ n[k] = pointer[k]
              \/ /\ doc[SubSeq(n, 1, k - 1)] = "list"
                 /\ pointer[k] \in DOMAIN IndexOf /\ IndexOf[pointer[k]] \in DOMAIN IndexToken
                 /\ n[k] = IndexToken[IndexOf[pointer[k]]]
<1>1. n \in DOMAIN doc /\ n \in Path /\ Len(n) = Len(pointer)
  BY DocumentNodes DEF Located
<1>2. ASSUME NEW k \in 1..Len(n)
      PROVE  \/ doc[SubSeq(n, 1, k - 1)] = "object" /\ n[k] = pointer[k]
             \/ /\ doc[SubSeq(n, 1, k - 1)] = "list"
                /\ pointer[k] \in DOMAIN IndexOf /\ IndexOf[pointer[k]] \in DOMAIN IndexToken
                /\ n[k] = IndexToken[IndexOf[pointer[k]]]
  <2>1. Leads(doc, SubSeq(n, 1, k - 1), pointer[k], SubSeq(n, 1, k)) BY DEF Located
  <2>2. pointer[k] \in DOMAIN Rank BY <1>1, PathProperties
  <2> QED BY <1>1, <2>1, <2>2, LeadsProperties
<1> QED BY <1>1, <1>2

(* A pointer leads to one node at most. *)
LEMMA LocatedIsOne ==
  ASSUME NEW doc, IsDocument(doc), NEW pointer \in Path,
         NEW m \in Located(doc, pointer), NEW n \in Located(doc, pointer)
  PROVE  m = n
<1>1. /\ m \in Path /\ n \in Path /\ Len(m) = Len(n) BY LocatedProperties
<1> SUFFICES ASSUME m # n PROVE FALSE OBVIOUS
<1>2. ~Overlap(m, n) BY <1>1, PrefixAntisymmetric, PathProperties DEF Overlap
<1>3. PICK k \in DOMAIN m \cap DOMAIN n :
        m[k] # n[k] /\ SubSeq(m, 1, k - 1) = SubSeq(n, 1, k - 1)
  BY <1>1, <1>2, FirstDifference
<1>4. k \in 1..Len(m) /\ k \in 1..Len(n) BY <1>1, PathProperties
<1>5. \/ doc[SubSeq(m, 1, k - 1)] = "object" /\ m[k] = pointer[k]
      \/ /\ doc[SubSeq(m, 1, k - 1)] = "list"
         /\ m[k] = IndexToken[IndexOf[pointer[k]]]
  BY <1>4, LocatedProperties
<1>6. \/ doc[SubSeq(n, 1, k - 1)] = "object" /\ n[k] = pointer[k]
      \/ /\ doc[SubSeq(n, 1, k - 1)] = "list"
         /\ n[k] = IndexToken[IndexOf[pointer[k]]]
  BY <1>4, LocatedProperties
<1>7. doc[SubSeq(m, 1, k - 1)] = doc[SubSeq(n, 1, k - 1)] BY <1>3
<1>8. "object" # "list" OBVIOUS
<1> QED BY <1>3, <1>5, <1>6, <1>7, <1>8

(* Without indexes written in other ways a pointer leads to itself. *)
LEMMA PlainPointer ==
  ASSUME NEW doc, IsDocument(doc), NEW pointer \in Path, NEW n \in Located(doc, pointer),
         \A k \in DOMAIN pointer : pointer[k] \in DOMAIN IndexOf
           => pointer[k] = IndexToken[IndexOf[pointer[k]]]
  PROVE  n = pointer
<1>1. /\ n \in Path /\ Len(n) = Len(pointer) /\ DOMAIN pointer = 1..Len(pointer)
  BY LocatedProperties, PathProperties
<1>2. \A k \in 1..Len(n) : n[k] = pointer[k] BY <1>1, LocatedProperties
<1> QED BY <1>1, <1>2, PathsEqual

(* A pointer that touches no identity field does not lead to one either,   *)
(* nor to what one is part of, if all of that are objects.                 *)
LEMMA IdentityIsOutOfReach ==
  ASSUME NEW doc, IsDocument(doc), NEW pointer \in Path, NEW n \in Located(doc, pointer),
         NEW field \in Identity, ~TouchesIdentity(pointer),
         \A k \in 0..(Len(field) - 1) : SubSeq(field, 1, k) \in Objects(doc)
  PROVE  ~IsPrefix(n, field)
<1>1. /\ n \in Path /\ Len(n) = Len(pointer) /\ field \in Path
  BY LocatedProperties, IdentityAssumption DEF Path
<1> SUFFICES ASSUME IsPrefix(n, field) PROVE FALSE OBVIOUS
<1>2. /\ Len(n) \in Nat /\ Len(field) \in Nat /\ Len(n) <= Len(field)
      /\ \A k \in 1..Len(n) : n[k] = field[k]
  BY <1>1, PrefixMeans, PathProperties
<1>3. ASSUME NEW k \in 1..Len(n) PROVE n[k] = pointer[k]
  <2> DEFINE b == k - 1
  <2>1. b \in 0..Len(n) /\ b \in 0..Len(field) /\ b \in 0..(Len(field) - 1) BY <1>2
  <2>2. \A l \in 1..b : n[l] = field[l] BY <1>2
  <2>3. SubSeq(n, 1, b) = SubSeq(field, 1, b)
    <3> HIDE DEF b
    <3> QED BY <1>1, <2>1, <2>2, Beginning, PathsEqual
  <2>4. doc[SubSeq(n, 1, b)] = "object" BY <2>1, <2>3 DEF Objects
  <2> QED BY <2>4, LocatedProperties
<1>4. n = pointer BY <1>1, <1>3, PathsEqual
<1> QED BY <1>4 DEF TouchesIdentity

-----------------------------------------------------------------------------
(* All overlays are accepted together. *)
AreCompatible(overlays) ==
  /\ \A j \in DOMAIN overlays : IsOverlay(overlays[j])
  /\ NamesUnique(overlays)
  /\ Disjoint(Patches(overlays))

LEMMA PatchAt ==
  ASSUME NEW overlays, NEW p \in Range(Patches(overlays))
  PROVE  \E at \in DOMAIN Patches(overlays) :
           /\ p = Patches(overlays)[at]
           /\ at[1] \in DOMAIN overlays /\ at[2] \in DOMAIN overlays[at[1]].patches
           /\ p.owner = overlays[at[1]].name
           /\ p.pointer = overlays[at[1]].patches[at[2]].pointer
           /\ p.value = overlays[at[1]].patches[at[2]].value
<1>1. PICK at \in DOMAIN Patches(overlays) : p = Patches(overlays)[at] BY DEF Range
<1>2. at \in UNION {{j} \X DOMAIN overlays[j].patches : j \in DOMAIN overlays}
  BY DEF Patches
<1>3. PICK j \in DOMAIN overlays : at \in {j} \X DOMAIN overlays[j].patches BY <1>2
<1>4. at[1] = j /\ at[2] \in DOMAIN overlays[j].patches BY <1>3
<1>5. p = [owner |-> overlays[at[1]].name,
           pointer |-> overlays[at[1]].patches[at[2]].pointer,
           value |-> overlays[at[1]].patches[at[2]].value]
  BY <1>1, <1>2 DEF Patches
<1>6. /\ p.owner = overlays[at[1]].name
      /\ p.pointer = overlays[at[1]].patches[at[2]].pointer
      /\ p.value = overlays[at[1]].patches[at[2]].value
  BY <1>5
<1>7. at[1] \in DOMAIN overlays /\ at[2] \in DOMAIN overlays[at[1]].patches BY <1>4
<1> QED BY <1>1, <1>6, <1>7

LEMMA PatchProperties ==
  ASSUME NEW overlays, AreOverlays(overlays), NEW p \in Range(Patches(overlays))
  PROVE  p.owner \in Nat /\ p.pointer \in Path /\ p.pointer # <<>> /\ IsDocument(p.value)
  BY PatchAt DEF AreOverlays, Path

LEMMA CompatiblePatches ==
  ASSUME NEW overlays, AreCompatible(overlays)
  PROVE  /\ \A p \in Range(Patches(overlays)) : ~TouchesIdentity(p.pointer)
         /\ \A p, q \in Range(Patches(overlays)) : p # q => ~Overlap(p.pointer, q.pointer)
<1>1. ASSUME NEW p \in Range(Patches(overlays)) PROVE ~TouchesIdentity(p.pointer)
  BY PatchAt DEF AreCompatible, IsOverlay
<1>2. ASSUME NEW p \in Range(Patches(overlays)), NEW q \in Range(Patches(overlays)), p # q
      PROVE  ~Overlap(p.pointer, q.pointer)
  <2>1. PICK j \in DOMAIN Patches(overlays) : p = Patches(overlays)[j] BY PatchAt
  <2>2. PICK k \in DOMAIN Patches(overlays) : q = Patches(overlays)[k] BY PatchAt
  <2> QED BY <1>2, <2>1, <2>2 DEF AreCompatible, Disjoint
<1> QED BY <1>1, <1>2

(* Patches that can be ordered: the ones of compatible overlays. *)
IsOrderable(P) ==
  /\ \A p \in P : p.owner \in Nat /\ p.pointer \in Path
  /\ \A p, q \in P : p # q => ~Overlap(p.pointer, q.pointer)

LEMMA PrecedesIsTotal ==
  ASSUME NEW P, IsOrderable(P), NEW p \in P, NEW q \in P, p # q
  PROVE  Precedes(p, q) \/ Precedes(q, p)
<1>1. p.pointer \in Path /\ q.pointer \in Path /\ ~Overlap(p.pointer, q.pointer)
  BY DEF IsOrderable
<1>2. p.owner \in Nat /\ q.owner \in Nat BY DEF IsOrderable
<1>3. PointerPrecedes(p.pointer, q.pointer) \/ PointerPrecedes(q.pointer, p.pointer)
  <2>1. PICK k \in DOMAIN p.pointer \cap DOMAIN q.pointer :
          /\ p.pointer[k] # q.pointer[k]
          /\ SubSeq(p.pointer, 1, k - 1) = SubSeq(q.pointer, 1, k - 1)
    BY <1>1, FirstDifference
  <2>2. p.pointer[k] \in DOMAIN Rank /\ q.pointer[k] \in DOMAIN Rank BY <1>1, PathProperties
  <2>3. /\ Rank[p.pointer[k]] \in Nat /\ Rank[q.pointer[k]] \in Nat
        /\ Rank[p.pointer[k]] # Rank[q.pointer[k]]
    BY <2>1, <2>2, RankAssumption
  <2>4. CASE Rank[p.pointer[k]] < Rank[q.pointer[k]] BY <2>1, <2>4 DEF PointerPrecedes
  <2>5. CASE Rank[q.pointer[k]] < Rank[p.pointer[k]]
    <3>1. SubSeq(q.pointer, 1, k - 1) = SubSeq(p.pointer, 1, k - 1) BY <2>1
    <3> QED BY <2>5, <3>1 DEF PointerPrecedes
  <2> QED BY <2>3, <2>4, <2>5
<1> QED BY <1>2, <1>3 DEF Precedes

(* Two paths cannot each be before the other at their own place. *)
LEMMA PointerPrecedesIsAsymmetric ==
  ASSUME NEW p \in Path, NEW q \in Path, ~Overlap(p, q), PointerPrecedes(p, q)
  PROVE  ~PointerPrecedes(q, p)
<1> SUFFICES ASSUME PointerPrecedes(q, p) PROVE FALSE OBVIOUS
<1>1. PICK k \in DOMAIN p \cap DOMAIN q :
        SubSeq(p, 1, k - 1) = SubSeq(q, 1, k - 1) /\ Rank[p[k]] < Rank[q[k]]
  BY DEF PointerPrecedes, IsStrictPrefix, Overlap
<1>2. PICK l \in DOMAIN p \cap DOMAIN q :
        SubSeq(q, 1, l - 1) = SubSeq(p, 1, l - 1) /\ Rank[q[l]] < Rank[p[l]]
  BY DEF PointerPrecedes, IsStrictPrefix, Overlap
<1>3. /\ Len(p) \in Nat /\ k \in 1..Len(p) /\ l \in 1..Len(p)
      /\ Len(q) \in Nat /\ k \in 1..Len(q) /\ l \in 1..Len(q)
      /\ p[k] \in DOMAIN Rank /\ q[k] \in DOMAIN Rank
      /\ p[l] \in DOMAIN Rank /\ q[l] \in DOMAIN Rank
  BY PathProperties
<1>4. /\ Rank[p[k]] \in Nat /\ Rank[q[k]] \in Nat /\ Rank[p[l]] \in Nat /\ Rank[q[l]] \in Nat
  BY <1>3, RankAssumption
<1>5. ASSUME NEW i \in 1..Len(p), NEW j \in 1..Len(p), i < j, i \in 1..Len(q), j \in 1..Len(q),
             SubSeq(p, 1, j - 1) = SubSeq(q, 1, j - 1)
      PROVE  p[i] = q[i]
  <2> DEFINE b == j - 1
  <2>1. b \in 0..Len(p) /\ b \in 0..Len(q) /\ i \in 1..b BY <1>3, <1>5
  <2>2. SubSeq(p, 1, b)[i] = p[i] /\ SubSeq(q, 1, b)[i] = q[i]
    <3> HIDE DEF b
    <3> QED BY <2>1, Beginning
  <2> QED BY <1>5, <2>2
<1>6. CASE k < l
  <2>1. p[k] = q[k] BY <1>2, <1>3, <1>5, <1>6
  <2> QED BY <1>1, <1>4, <2>1
<1>7. CASE l < k
  <2>1. p[l] = q[l] BY <1>1, <1>3, <1>5, <1>7
  <2> QED BY <1>2, <1>4, <2>1
<1>8. CASE k = l BY <1>1, <1>2, <1>4, <1>8
<1> QED BY <1>3, <1>6, <1>7, <1>8

LEMMA PrecedesIsAsymmetric ==
  ASSUME NEW P, IsOrderable(P), NEW p \in P, NEW q \in P, p # q, Precedes(p, q)
  PROVE  ~Precedes(q, p)
<1>1. /\ p.owner \in Nat /\ q.owner \in Nat /\ p.pointer \in Path /\ q.pointer \in Path
      /\ ~Overlap(p.pointer, q.pointer)
  BY DEF IsOrderable
<1> QED BY <1>1, PointerPrecedesIsAsymmetric DEF Precedes

LEMMA FirstIsOne ==
  ASSUME NEW P, IsOrderable(P), NEW S \in SUBSET P, NEW p \in First(S), NEW q \in First(S)
  PROVE  p = q
  BY PrecedesIsAsymmetric DEF First

(* What remains of the ordered patches: with each patch all later ones. *)
Remainders(P) ==
  {S \in SUBSET P : \A p \in S, q \in P : p # q /\ Precedes(p, q) => q \in S}

LEMMA RemainderWithoutFirst ==
  ASSUME NEW P, IsOrderable(P), NEW S \in Remainders(P), NEW p \in First(S)
  PROVE  S \ {p} \in Remainders(P) /\ p \in S
<1>1. S \in SUBSET P /\ p \in S /\ \A q \in S \ {p} : Precedes(p, q) BY DEF Remainders, First
<1>2. ASSUME NEW a \in S \ {p}, NEW q \in P, a # q, Precedes(a, q) PROVE q \in S \ {p}
  <2>1. q \in S BY <1>1, <1>2 DEF Remainders
  <2>2. ~Precedes(a, p) BY <1>1, <1>2, PrecedesIsAsymmetric
  <2> QED BY <1>2, <2>1, <2>2
<1> QED BY <1>1, <1>2 DEF Remainders

(* Of two remainders one is part of the other. *)
LEMMA RemaindersAreNested ==
  ASSUME NEW P, IsOrderable(P), NEW S \in Remainders(P), NEW T \in Remainders(P)
  PROVE  S \subseteq T \/ T \subseteq S
<1> SUFFICES ASSUME NEW a \in S, a \notin T, NEW b \in T, b \notin S PROVE FALSE OBVIOUS
<1>1. a \in P /\ b \in P /\ a # b BY DEF Remainders
<1>2. Precedes(a, b) \/ Precedes(b, a) BY <1>1, PrecedesIsTotal
<1> QED BY <1>1, <1>2 DEF Remainders

LEMMA CompatibleIsOrderable ==
  ASSUME NEW overlays, AreOverlays(overlays), AreCompatible(overlays)
  PROVE  IsOrderable(Range(Patches(overlays)))
<1>1. \A p \in Range(Patches(overlays)) : p.owner \in Nat /\ p.pointer \in Path
  BY PatchProperties
<1> QED BY <1>1, CompatiblePatches DEF IsOrderable

(* Overlays in another order are the same patches, compatible as before.   *)
LEMMA ReorderingKeeps ==
  ASSUME NEW s, NEW t, IsReordering(s, t)
  PROVE  /\ Range(Patches(s)) \subseteq Range(Patches(t))
         /\ AreCompatible(t) => AreCompatible(s)
<1>1. PICK place \in Bijection(DOMAIN s, DOMAIN t) : \A j \in DOMAIN s : t[place[j]] = s[j]
  BY DEF IsReordering
<1>2. /\ \A j \in DOMAIN s : place[j] \in DOMAIN t
      /\ \A j, k \in DOMAIN s : place[j] = place[k] => j = k
  BY <1>1 DEF Bijection, Injection, IsInjective
<1>3. ASSUME NEW a \in DOMAIN Patches(s)
      PROVE  /\ a[1] \in DOMAIN s /\ a = <<a[1], a[2]>>
             /\ <<place[a[1]], a[2]>> \in DOMAIN Patches(t)
             /\ Patches(t)[<<place[a[1]], a[2]>>] = Patches(s)[a]
  <2>1. a \in UNION {{j} \X DOMAIN s[j].patches : j \in DOMAIN s} BY DEF Patches
  <2>2. PICK j \in DOMAIN s : a \in {j} \X DOMAIN s[j].patches BY <2>1
  <2>3. a[1] = j /\ a = <<a[1], a[2]>> /\ a[2] \in DOMAIN s[j].patches BY <2>2
  <2> DEFINE b == <<place[a[1]], a[2]>>
  <2>4. place[j] \in DOMAIN t /\ t[place[j]] = s[j] BY <1>1, <1>2
  <2>5. b \in {place[j]} \X DOMAIN t[place[j]].patches BY <2>3, <2>4
  <2>6. b \in UNION {{i} \X DOMAIN t[i].patches : i \in DOMAIN t} BY <2>4, <2>5
  <2>7. b \in DOMAIN Patches(t) BY <2>6 DEF Patches
  <2>8. b[1] = place[j] /\ b[2] = a[2] BY <2>3
  <2>9. Patches(t)[b] = [owner |-> t[b[1]].name,
                         pointer |-> t[b[1]].patches[b[2]].pointer,
                         value |-> t[b[1]].patches[b[2]].value]
    BY <2>6 DEF Patches
  <2>10. Patches(s)[a] = [owner |-> s[a[1]].name,
                          pointer |-> s[a[1]].patches[a[2]].pointer,
                          value |-> s[a[1]].patches[a[2]].value]
    BY <2>1 DEF Patches
  <2>11. Patches(t)[b] = Patches(s)[a] BY <2>3, <2>4, <2>8, <2>9, <2>10
  <2> QED BY <2>2, <2>3, <2>7, <2>11
<1>4. Range(Patches(s)) \subseteq Range(Patches(t))
  <2>1. ASSUME NEW p \in Range(Patches(s)) PROVE p \in Range(Patches(t))
    <3>1. PICK a \in DOMAIN Patches(s) : p = Patches(s)[a] BY DEF Range
    <3>2. \E b \in DOMAIN Patches(t) : Patches(t)[b] = p BY <1>3, <3>1
    <3> QED BY <3>2 DEF Range
  <2> QED BY <2>1
<1>5. ASSUME AreCompatible(t) PROVE AreCompatible(s)
  <2>1. \A j \in DOMAIN s : IsOverlay(s[j]) BY <1>1, <1>2, <1>5 DEF AreCompatible
  <2>2. NamesUnique(s) BY <1>1, <1>2, <1>5 DEF AreCompatible, NamesUnique
  <2>3. ASSUME NEW a \in DOMAIN Patches(s), NEW b \in DOMAIN Patches(s), a # b
        PROVE  ~Overlap(Patches(s)[a].pointer, Patches(s)[b].pointer)
    <3>1. /\ a[1] \in DOMAIN s /\ a = <<a[1], a[2]>>
          /\ b[1] \in DOMAIN s /\ b = <<b[1], b[2]>>
      BY <1>3
    <3>2. <<place[a[1]], a[2]>> # <<place[b[1]], b[2]>>
      <4> SUFFICES ASSUME place[a[1]] = place[b[1]], a[2] = b[2] PROVE FALSE OBVIOUS
      <4>1. a[1] = b[1] BY <1>2, <3>1
      <4> QED BY <2>3, <3>1, <4>1
    <3> QED BY <1>3, <1>5, <3>2 DEF AreCompatible, Disjoint
  <2> QED BY <2>1, <2>2, <2>3 DEF AreCompatible, Disjoint
<1> QED BY <1>4, <1>5

-----------------------------------------------------------------------------
(* What a document looks like while patches that are not in one another's  *)
(* way are applied at the nodes they name.                                 *)
InEffect(doc, applied) ==
  /\ \A patch \in applied :
       /\ patch.pointer \in DOMAIN base
       /\ \A p \in Path : IsPrefix(patch.pointer, p) =>
            /\ p \in DOMAIN doc <=> Rest(patch.pointer, p) \in DOMAIN patch.value
            /\ p \in DOMAIN doc => doc[p] = patch.value[Rest(patch.pointer, p)]
  /\ \A p \in Path : (\A patch \in applied : ~IsPrefix(patch.pointer, p)) =>
       /\ p \in DOMAIN doc <=> p \in DOMAIN base
       /\ p \in DOMAIN doc => doc[p] = base[p]

LEMMA InEffectGrows ==
  ASSUME NEW doc, IsDocument(doc), NEW applied, InEffect(doc, applied),
         NEW patch, IsDocument(patch.value), patch.pointer \in DOMAIN doc,
         \A q \in applied : q.pointer \in Path /\ ~Overlap(q.pointer, patch.pointer)
  PROVE  InEffect(Replace(doc, patch.pointer, patch.value), applied \cup {patch})
<1> DEFINE n == patch.pointer
           R == Replace(doc, n, patch.value)
<1>1. n \in Path BY DocumentNodes
<1>2. /\ \A p \in Path : IsPrefix(n, p) =>
           /\ p \in DOMAIN R <=> Rest(n, p) \in DOMAIN patch.value
           /\ p \in DOMAIN R => R[p] = patch.value[Rest(n, p)]
      /\ \A p \in Path : ~IsPrefix(n, p) =>
           /\ p \in DOMAIN R <=> p \in DOMAIN doc
           /\ p \in DOMAIN R => R[p] = doc[p]
  BY <1>1, DocumentNodes, ReplaceProperties
<1> HIDE DEF R
<1>3. \A q \in applied : ~IsPrefix(q.pointer, n) BY DEF Overlap
<1>4. n \in DOMAIN base BY <1>1, <1>3 DEF InEffect
<1>5. ASSUME NEW q \in applied, NEW p \in Path, IsPrefix(q.pointer, p)
      PROVE  /\ p \in DOMAIN R <=> Rest(q.pointer, p) \in DOMAIN q.value
             /\ p \in DOMAIN R => R[p] = q.value[Rest(q.pointer, p)]
  <2>1. ~IsPrefix(n, p) BY <1>1, <1>5, PrefixesOverlap
  <2>2. /\ p \in DOMAIN doc <=> Rest(q.pointer, p) \in DOMAIN q.value
        /\ p \in DOMAIN doc => doc[p] = q.value[Rest(q.pointer, p)]
    BY <1>5 DEF InEffect
  <2> QED BY <1>2, <2>1, <2>2
<1>6. ASSUME NEW p \in Path, \A q \in applied \cup {patch} : ~IsPrefix(q.pointer, p)
      PROVE  /\ p \in DOMAIN R <=> p \in DOMAIN base
             /\ p \in DOMAIN R => R[p] = base[p]
  <2>1. ~IsPrefix(n, p) BY <1>6
  <2>2. /\ p \in DOMAIN doc <=> p \in DOMAIN base
        /\ p \in DOMAIN doc => doc[p] = base[p]
    BY <1>6 DEF InEffect
  <2> QED BY <1>2, <2>1, <2>2
<1>7. \A q \in applied : q.pointer \in DOMAIN base BY DEF InEffect
<1>8. InEffect(R, applied \cup {patch})
  BY <1>2, <1>4, <1>5, <1>6, <1>7 DEF InEffect
<1> QED BY <1>8 DEF R

-----------------------------------------------------------------------------
(* A call cannot go on: a pointer leads nowhere, or all is done in vain.   *)
IsStuck(doc, left) ==
  IF left = {} THEN ~IsDataProduct(doc)
  ELSE \E patch \in First(left) : Located(doc, patch.pointer) = {}

KeepsIdentity(doc) ==
  \A field \in Identity :
    /\ field \in DOMAIN doc /\ doc[field] = base[field]
    /\ \A k \in 0..(Len(field) - 1) : SubSeq(field, 1, k) \in Objects(doc)

(* What holds of a call by itself. *)
CallInv(c) ==
  /\ phase[c] \in {"given", "parsed", "applying", "refused", "accepted"}
  /\ IsDocument(document[c]) /\ KeepsIdentity(document[c])
  /\ pending[c] \subseteq PatchesOf(c)
  /\ phase[c] = "parsed" => \A j \in DOMAIN arguments[c] : IsOverlay(arguments[c][j])
  /\ phase[c] \in {"given", "parsed"} => document[c] = base /\ pending[c] = {}
  /\ phase[c] \in {"applying", "accepted"} => AreCompatible(arguments[c])
  /\ phase[c] = "accepted" => pending[c] = {} /\ IsDataProduct(document[c])
  /\ phase[c] = "refused" => ~AreCompatible(arguments[c]) \/ IsStuck(document[c], pending[c])
  /\ phase[c] \in {"applying", "accepted"} /\ PlainlyWritten(c) =>
       InEffect(document[c], PatchesOf(c) \ pending[c])

(* The documents that calls go through: from one with patches left over    *)
(* the first of them leads to the next.                                    *)
Advances(h, left) ==
  \E patch \in First(left) :
    /\ left \ {patch} \in DOMAIN h
    /\ \E n \in Located(h[left], patch.pointer) :
         h[left \ {patch}] = Replace(h[left], n, patch.value)

IsHistory(h, P) ==
  /\ DOMAIN h \subseteq Remainders(P)
  /\ P \in DOMAIN h /\ h[P] = base
  /\ \A S, T \in DOMAIN h : T \subseteq S /\ T # S => Advances(h, S)

HasStarted(c) ==
  phase[c] \in {"applying", "accepted", "refused"} /\ AreCompatible(arguments[c])

(* All calls go through the same documents, each as far as it has come.    *)
HistoryInv ==
  \E P, h :
    /\ IsHistory(h, P)
    /\ \A c \in Calls : PatchesOf(c) = P
    /\ \A c \in Calls : HasStarted(c) =>
         pending[c] \in DOMAIN h /\ document[c] = h[pending[c]]

GivenInv ==
  /\ IsContract(base)
  /\ \A c, d \in Calls : AreOverlays(arguments[c]) /\ IsReordering(arguments[c], arguments[d])

FunctionInv ==
  /\ phase \in [Calls -> {"given", "parsed", "applying", "refused", "accepted"}]
  /\ DOMAIN document = Calls /\ DOMAIN pending = Calls

IInv ==
  /\ GivenInv
  /\ FunctionInv
  /\ \A c \in Calls : CallInv(c)
  /\ HistoryInv

-----------------------------------------------------------------------------
LEMMA SamePatches ==
  ASSUME GivenInv, NEW c \in Calls, NEW d \in Calls
  PROVE  /\ PatchesOf(c) = PatchesOf(d)
         /\ AreCompatible(arguments[c]) <=> AreCompatible(arguments[d])
<1>1. IsReordering(arguments[c], arguments[d]) /\ IsReordering(arguments[d], arguments[c])
  BY DEF GivenInv
<1>2. /\ Range(Patches(arguments[c])) \subseteq Range(Patches(arguments[d]))
      /\ AreCompatible(arguments[d]) => AreCompatible(arguments[c])
  BY <1>1, ReorderingKeeps
<1>3. /\ Range(Patches(arguments[d])) \subseteq Range(Patches(arguments[c]))
      /\ AreCompatible(arguments[c]) => AreCompatible(arguments[d])
  BY <1>1, ReorderingKeeps
<1> QED BY <1>2, <1>3 DEF PatchesOf

LEMMA InitIInv == Init => IInv
<1> SUFFICES ASSUME Init PROVE IInv OBVIOUS
<1>1. GivenInv /\ FunctionInv BY DEF Init, GivenInv, FunctionInv
<1>2. ASSUME NEW c \in Calls PROVE CallInv(c)
  <2>1. phase[c] = "given" /\ document[c] = base /\ pending[c] = {} BY DEF Init
  <2>2. IsDocument(base) /\ KeepsIdentity(base) BY <1>1 DEF GivenInv, IsContract, KeepsIdentity
  <2> QED BY <2>1, <2>2 DEF CallInv
<1>3. HistoryInv
  <2>1. PICK P : \A c \in Calls : PatchesOf(c) = P BY <1>1, SamePatches
  <2> DEFINE h == [S \in {P} |-> base]
  <2>2. P \in Remainders(P) BY DEF Remainders
  <2>3. DOMAIN h = {P} /\ h[P] = base OBVIOUS
  <2> HIDE DEF h
  <2>4. IsHistory(h, P) BY <2>2, <2>3 DEF IsHistory
  <2>5. \A c \in Calls : ~HasStarted(c) BY DEF Init, HasStarted
  <2> QED BY <2>1, <2>4, <2>5 DEF HistoryInv
<1> QED BY <1>1, <1>2, <1>3 DEF IInv

(* A step of one call changes nothing for another. *)
LEMMA Stays ==
  ASSUME NEW c \in Calls, CallInv(c), UNCHANGED <<base, arguments>>,
         phase'[c] = phase[c], document'[c] = document[c], pending'[c] = pending[c]
  PROVE  CallInv(c)'
  BY DEF CallInv, KeepsIdentity, PatchesOf, PlainlyWritten, InEffect

LEMMA GivenStays ==
  ASSUME IInv, UNCHANGED <<base, arguments>>
  PROVE  /\ GivenInv'
         /\ \A c \in Calls : PatchesOf(c)' = PatchesOf(c)
         /\ \A c \in Calls : PlainlyWritten(c)' = PlainlyWritten(c)
         /\ \A doc : KeepsIdentity(doc)' = KeepsIdentity(doc)
         /\ \A doc, applied : InEffect(doc, applied)' = InEffect(doc, applied)
         /\ \A h, P : IsHistory(h, P)' = IsHistory(h, P)
  BY DEF IInv, GivenInv, PatchesOf, PlainlyWritten, KeepsIdentity, InEffect, IsHistory

(* Calls that apply no patch in this step keep to the history. *)
LEMMA HistoryStays ==
  ASSUME IInv, UNCHANGED <<base, arguments>>,
         \A c \in Calls : HasStarted(c)' =>
           \/ HasStarted(c) /\ pending'[c] = pending[c] /\ document'[c] = document[c]
           \/ pending'[c] = PatchesOf(c) /\ document'[c] = base
  PROVE  HistoryInv'
<1>1. PICK P, h :
        /\ IsHistory(h, P)
        /\ \A c \in Calls : PatchesOf(c) = P
        /\ \A c \in Calls : HasStarted(c) =>
             pending[c] \in DOMAIN h /\ document[c] = h[pending[c]]
  BY DEF IInv, HistoryInv
<1>2. IsHistory(h, P)' /\ \A c \in Calls : PatchesOf(c)' = P BY <1>1, GivenStays
<1>3. P \in DOMAIN h /\ h[P] = base BY <1>1 DEF IsHistory
<1>4. ASSUME NEW c \in Calls, HasStarted(c)'
      PROVE  pending'[c] \in DOMAIN h /\ document'[c] = h[pending'[c]]
  BY <1>1, <1>3, <1>4
<1> QED BY <1>2, <1>4 DEF HistoryInv

(* What a step has to show of the call that makes it. *)
LEMMA StepOfOne ==
  ASSUME IInv, NEW c \in Calls, UNCHANGED <<base, arguments>>,
         FunctionInv', CallInv(c)', HistoryInv',
         \A d \in Calls \ {c} :
           phase'[d] = phase[d] /\ document'[d] = document[d] /\ pending'[d] = pending[d]
  PROVE  IInv'
<1>1. GivenInv' BY GivenStays
<1>2. ASSUME NEW d \in Calls PROVE CallInv(d)'
  <2>1. CASE d = c BY <2>1
  <2>2. CASE d # c
    <3>1. CallInv(d) BY DEF IInv
    <3> QED BY <2>2, <3>1, Stays
  <2> QED BY <2>1, <2>2
<1> QED BY <1>1, <1>2 DEF IInv

LEMMA ParseIInv ==
  ASSUME IInv, NEW c \in Calls, Parse(c)
  PROVE  IInv'
<1>1. /\ phase[c] = "given" /\ phase'[c] \in {"parsed", "refused"}
      /\ phase'[c] = "parsed" <=> \A k \in DOMAIN arguments[c] : IsOverlay(arguments[c][k])
      /\ \A d \in Calls \ {c} : phase'[d] = phase[d]
      /\ UNCHANGED <<base, arguments, document, pending>>
  BY DEF Parse, Goto, IInv, FunctionInv
<1>2. FunctionInv' BY DEF Parse, Goto, IInv, FunctionInv
<1>3. CallInv(c) BY DEF IInv
<1>4. CallInv(c)'
  <2>1. phase'[c] = "refused" => ~AreCompatible(arguments'[c])
    BY <1>1 DEF AreCompatible
  <2>2. PatchesOf(c)' = PatchesOf(c) /\ KeepsIdentity(document[c])'
    BY <1>1, <1>3, GivenStays DEF CallInv
  <2> QED BY <1>1, <1>3, <2>1, <2>2 DEF CallInv
<1>5. HistoryInv'
  <2>1. ~HasStarted(c)' BY <1>1 DEF HasStarted, AreCompatible
  <2>2. \A d \in Calls : HasStarted(d)' => HasStarted(d) BY <1>1, <2>1 DEF HasStarted
  <2> QED BY <1>1, <2>2, HistoryStays
<1> QED BY <1>1, <1>2, <1>4, <1>5, StepOfOne

LEMMA RejectConflictIInv ==
  ASSUME IInv, NEW c \in Calls, RejectConflict(c)
  PROVE  IInv'
<1>1. /\ phase[c] = "parsed" /\ phase'[c] = "refused"
      /\ \A d \in Calls \ {c} : phase'[d] = phase[d]
      /\ UNCHANGED <<base, arguments, document, pending>>
  BY DEF RejectConflict, Goto, IInv, FunctionInv
<1>2. FunctionInv' BY DEF RejectConflict, Goto, IInv, FunctionInv
<1>3. CallInv(c) BY DEF IInv
<1>4. ~AreCompatible(arguments[c]) /\ ~AreCompatible(arguments'[c])
  BY <1>1 DEF RejectConflict, AreCompatible
<1>5. CallInv(c)'
  <2>1. PatchesOf(c)' = PatchesOf(c) /\ KeepsIdentity(document[c])'
    BY <1>1, <1>3, GivenStays DEF CallInv
  <2> QED BY <1>1, <1>3, <1>4, <2>1 DEF CallInv
<1>6. HistoryInv'
  <2>1. ~HasStarted(c)' BY <1>4 DEF HasStarted
  <2>2. \A d \in Calls : HasStarted(d)' => HasStarted(d) BY <1>1, <2>1 DEF HasStarted
  <2> QED BY <1>1, <2>2, HistoryStays
<1> QED BY <1>1, <1>2, <1>5, <1>6, StepOfOne

LEMMA OrderPatchesIInv ==
  ASSUME IInv, NEW c \in Calls, OrderPatches(c)
  PROVE  IInv'
<1>1. /\ phase[c] = "parsed" /\ phase'[c] = "applying" /\ pending'[c] = PatchesOf(c)
      /\ \A d \in Calls \ {c} : phase'[d] = phase[d] /\ pending'[d] = pending[d]
      /\ UNCHANGED <<base, arguments, document>>
  BY DEF OrderPatches, Goto, IInv, FunctionInv
<1>2. FunctionInv' BY DEF OrderPatches, Goto, IInv, FunctionInv
<1>3. CallInv(c) BY DEF IInv
<1>4. document[c] = base BY <1>1, <1>3 DEF CallInv
<1>5. CallInv(c)'
  <2>1. AreCompatible(arguments[c])
    BY <1>1, <1>3 DEF CallInv, OrderPatches, AreCompatible
  <2>2. InEffect(base, {}) BY DEF InEffect
  <2>3. /\ PatchesOf(c)' = PatchesOf(c) /\ KeepsIdentity(document[c])'
        /\ InEffect(document[c], {})'
    BY <1>1, <1>3, <1>4, <2>2, GivenStays DEF CallInv
  <2>4. PatchesOf(c)' \ pending'[c] = {} BY <1>1, <2>3
  <2>5. InEffect(document[c], PatchesOf(c) \ pending[c])' BY <2>3, <2>4
  <2>6. document'[c] = document[c] /\ arguments' = arguments /\ base' = base BY <1>1
  <2> QED BY <1>1, <1>3, <2>1, <2>3, <2>5, <2>6 DEF CallInv
<1>6. HistoryInv'
  <2>1. \A d \in Calls : HasStarted(d)' => d = c \/ HasStarted(d) BY <1>1 DEF HasStarted
  <2>2. \A d \in Calls : d = c \/ pending'[d] = pending[d] BY <1>1
  <2> QED BY <1>1, <1>4, <2>1, <2>2, HistoryStays
<1> QED BY <1>1, <1>2, <1>5, <1>6, StepOfOne

LEMMA RejectMissingIInv ==
  ASSUME IInv, NEW c \in Calls, RejectMissing(c)
  PROVE  IInv'
<1>1. /\ phase[c] = "applying" /\ phase'[c] = "refused"
      /\ \A d \in Calls \ {c} : phase'[d] = phase[d]
      /\ UNCHANGED <<base, arguments, document, pending>>
  BY DEF RejectMissing, Goto, IInv, FunctionInv
<1>2. FunctionInv' BY DEF RejectMissing, Goto, IInv, FunctionInv
<1>3. CallInv(c) BY DEF IInv
<1>4. IsStuck(document'[c], pending'[c])
  BY <1>1 DEF RejectMissing, IsStuck, First
<1>5. CallInv(c)'
  <2>1. PatchesOf(c)' = PatchesOf(c) /\ KeepsIdentity(document[c])'
    BY <1>1, <1>3, GivenStays DEF CallInv
  <2> QED BY <1>1, <1>3, <1>4, <2>1 DEF CallInv
<1>6. HistoryInv'
  <2>1. \A d \in Calls : HasStarted(d)' => HasStarted(d) BY <1>1 DEF HasStarted
  <2> QED BY <1>1, <2>1, HistoryStays
<1> QED BY <1>1, <1>2, <1>5, <1>6, StepOfOne

LEMMA ValidateIInv ==
  ASSUME IInv, NEW c \in Calls, Validate(c)
  PROVE  IInv'
<1>1. /\ phase[c] = "applying" /\ pending[c] = {} /\ phase'[c] \in {"accepted", "refused"}
      /\ phase'[c] = "accepted" <=> IsDataProduct(document[c])
      /\ \A d \in Calls \ {c} : phase'[d] = phase[d]
      /\ UNCHANGED <<base, arguments, document, pending>>
  BY DEF Validate, Goto, IInv, FunctionInv
<1>2. FunctionInv' BY DEF Validate, Goto, IInv, FunctionInv
<1>3. CallInv(c) BY DEF IInv
<1>4. phase'[c] = "refused" => IsStuck(document'[c], pending'[c])
  BY <1>1 DEF IsStuck
<1>5. CallInv(c)'
  <2>1. /\ PatchesOf(c)' = PatchesOf(c) /\ KeepsIdentity(document[c])'
        /\ PlainlyWritten(c)' = PlainlyWritten(c)
        /\ InEffect(document[c], PatchesOf(c) \ pending[c])'
             = InEffect(document[c], PatchesOf(c) \ pending[c])
    BY <1>1, <1>3, GivenStays DEF CallInv
  <2> QED BY <1>1, <1>3, <1>4, <2>1 DEF CallInv
<1>6. HistoryInv'
  <2>1. \A d \in Calls : HasStarted(d)' => HasStarted(d) BY <1>1 DEF HasStarted
  <2> QED BY <1>1, <2>1, HistoryStays
<1> QED BY <1>1, <1>2, <1>5, <1>6, StepOfOne

Continues(g, h, P) ==
  /\ IsHistory(g, P)
  /\ DOMAIN h \subseteq DOMAIN g
  /\ \A S \in DOMAIN h : g[S] = h[S]

(* A call that applies a patch goes on with the history, or makes it.      *)
LEMMA HistoryGrows ==
  ASSUME NEW P, IsOrderable(P), NEW h, IsHistory(h, P), NEW left \in DOMAIN h,
         IsDocument(h[left]), NEW patch \in First(left), NEW n \in Located(h[left], patch.pointer)
  PROVE  \E g : /\ Continues(g, h, P)
                /\ left \ {patch} \in DOMAIN g
                /\ g[left \ {patch}] = Replace(h[left], n, patch.value)
<1> DEFINE next == left \ {patch}
           doc == Replace(h[left], n, patch.value)
<1>1. /\ left \in Remainders(P) /\ left \in SUBSET P /\ patch \in left /\ patch \in P
      /\ next \in Remainders(P) /\ next # left /\ next \subseteq left
      /\ patch.pointer \in Path
  BY RemainderWithoutFirst DEF IsHistory, Remainders, IsOrderable
<1>2. \A p \in First(left) : p = patch BY <1>1, FirstIsOne
<1>3. \A m \in Located(h[left], patch.pointer) : m = n BY <1>1, LocatedIsOne
<1>4. Advances(h, left) => next \in DOMAIN h /\ h[next] = doc
  BY <1>2, <1>3 DEF Advances
<1>5. next \in DOMAIN h => Advances(h, left) BY <1>1 DEF IsHistory
<1>6. CASE next \in DOMAIN h BY <1>4, <1>5, <1>6 DEF Continues
<1>7. CASE next \notin DOMAIN h
  <2> DEFINE g == [S \in DOMAIN h \cup {next} |-> IF S = next THEN doc ELSE h[S]]
  <2>1. /\ DOMAIN g = DOMAIN h \cup {next} /\ g[next] = doc
        /\ \A S \in DOMAIN h : g[S] = h[S]
    BY <1>7
  <2> HIDE DEF g, next, doc
  <2>2. ASSUME NEW S \in DOMAIN h, Advances(h, S) PROVE Advances(g, S)
    BY <2>1, <2>2 DEF Advances
  <2>3. Advances(g, left) BY <2>1, <1>1 DEF Advances, next, doc
  <2>4. ASSUME NEW S \in DOMAIN g, NEW T \in DOMAIN g, T \subseteq S, T # S
        PROVE  Advances(g, S)
    <3>1. CASE S \in DOMAIN h /\ T \in DOMAIN h
      <4>1. Advances(h, S) BY <2>4, <3>1 DEF IsHistory
      <4> QED BY <2>2, <3>1, <4>1
    <3>2. CASE S = next
      <4>1. T \in DOMAIN h BY <2>1, <2>4, <3>2
      <4>2. T \subseteq left /\ T # left BY <1>1, <2>4, <3>2
      <4>3. Advances(h, left) BY <4>1, <4>2 DEF IsHistory
      <4> QED BY <1>4, <1>7, <4>3
    <3>3. CASE S \in DOMAIN h /\ T = next
      <4>1. S \in Remainders(P) BY <3>3 DEF IsHistory
      <4>2. S \subseteq left \/ left \subseteq S BY <1>1, <4>1, RemaindersAreNested
      <4>3. S = left \/ (left \subseteq S /\ left # S)
        <5>1. ASSUME S \subseteq left, patch \notin S PROVE S \subseteq T BY <3>3, <5>1 DEF next
        <5>2. ASSUME S \subseteq left, patch \in S PROVE S = left BY <2>4, <3>3, <5>2 DEF next
        <5> QED BY <2>4, <4>2, <5>1, <5>2
      <4>4. ASSUME left \subseteq S, left # S PROVE Advances(g, S)
        <5>1. Advances(h, S) BY <3>3, <4>4 DEF IsHistory
        <5> QED BY <2>2, <3>3, <5>1
      <4> QED BY <2>3, <4>3, <4>4
    <3> QED BY <2>1, <3>1, <3>2, <3>3
  <2>5. IsHistory(g, P) BY <1>1, <2>1, <2>4 DEF IsHistory
  <2>6. Continues(g, h, P) BY <2>1, <2>5 DEF Continues
  <2> QED BY <2>1, <2>6 DEF next, doc
<1> QED BY <1>6, <1>7

LEMMA ReplaceNextIInv ==
  ASSUME IInv, NEW c \in Calls, ReplaceNext(c)
  PROVE  IInv'
<1>0. PICK patch \in First(pending[c]) :
        /\ \E n \in Located(document[c], patch.pointer) :
             document' = [document EXCEPT ![c] = Replace(document[c], n, patch.value)]
        /\ pending' = [pending EXCEPT ![c] = pending[c] \ {patch}]
  BY DEF ReplaceNext
<1>1. PICK n \in Located(document[c], patch.pointer) :
        document' = [document EXCEPT ![c] = Replace(document[c], n, patch.value)]
  BY <1>0
<1>2. /\ phase[c] = "applying" /\ UNCHANGED <<base, arguments, phase>>
      /\ FunctionInv /\ CallInv(c) /\ IsContract(base) /\ AreOverlays(arguments[c])
  BY DEF ReplaceNext, IInv, GivenInv
<1>3. /\ document'[c] = Replace(document[c], n, patch.value)
      /\ pending'[c] = pending[c] \ {patch}
      /\ \A d \in Calls \ {c} : document'[d] = document[d] /\ pending'[d] = pending[d]
      /\ FunctionInv'
  BY <1>0, <1>1, <1>2 DEF FunctionInv
<1>4. /\ patch \in pending[c] /\ patch \in PatchesOf(c) /\ AreCompatible(arguments[c])
      /\ IsDocument(document[c]) /\ KeepsIdentity(document[c])
  BY <1>2 DEF CallInv, First
<1>5. /\ patch.pointer \in Path /\ patch.pointer # <<>> /\ IsDocument(patch.value)
      /\ ~TouchesIdentity(patch.pointer)
      /\ \A q \in PatchesOf(c) : q.pointer \in Path
      /\ \A q \in PatchesOf(c) : q # patch => ~Overlap(q.pointer, patch.pointer)
  BY <1>2, <1>4, PatchProperties, CompatiblePatches DEF PatchesOf
<1>6. n \in DOMAIN document[c] /\ n \in Path /\ n # <<>>
  BY <1>4, <1>5, LocatedProperties, PathProperties
<1>7. IsDocument(document'[c]) BY <1>3, <1>4, <1>5, <1>6, ReplaceIsDocument
<1>8. KeepsIdentity(document'[c])
  <2> DEFINE R == document'[c]
  <2>1. \A p \in Path : ~IsPrefix(n, p) =>
          /\ p \in DOMAIN R <=> p \in DOMAIN document[c]
          /\ p \in DOMAIN R => R[p] = document[c][p]
    BY <1>3, <1>4, <1>5, <1>6, DocumentNodes, ReplaceProperties
  <2>2. ASSUME NEW field \in Identity
        PROVE  /\ field \in DOMAIN R /\ R[field] = base[field]
               /\ \A k \in 0..(Len(field) - 1) : SubSeq(field, 1, k) \in Objects(R)
    <3>1. field \in Path /\ Len(field) \in Nat
      BY IdentityAssumption, PathProperties DEF Path
    <3>2. /\ field \in DOMAIN document[c] /\ document[c][field] = base[field]
          /\ \A k \in 0..(Len(field) - 1) : SubSeq(field, 1, k) \in Objects(document[c])
      BY <1>4 DEF KeepsIdentity
    <3>3. ~IsPrefix(n, field) BY <1>4, <1>5, <3>2, IdentityIsOutOfReach
    <3>4. ASSUME NEW k \in 0..(Len(field) - 1) PROVE SubSeq(field, 1, k) \in Objects(R)
      <4> DEFINE b == SubSeq(field, 1, k)
      <4>1. k \in 0..Len(field) BY <3>1
      <4>2. b \in Path /\ Len(b) = k /\ \A l \in 1..k : b[l] = field[l]
        BY <3>1, <4>1, Beginning
      <4> HIDE DEF b
      <4>3. IsPrefix(b, field) BY <3>1, <4>1, <4>2, PrefixMeans
      <4>4. ~IsPrefix(n, b) BY <1>6, <3>1, <3>3, <4>2, <4>3, PrefixTransitive
      <4>5. b \in DOMAIN document[c] /\ document[c][b] = "object" BY <3>2 DEF b, Objects
      <4>6. b \in DOMAIN R /\ R[b] = "object" BY <2>1, <4>2, <4>4, <4>5
      <4> QED BY <4>6 DEF Objects, b
    <3> QED BY <2>1, <3>1, <3>2, <3>3, <3>4
  <2> QED BY <2>2 DEF KeepsIdentity
<1>9. ASSUME PlainlyWritten(c)
      PROVE  InEffect(document'[c], PatchesOf(c) \ pending'[c])
  <2>1. n = patch.pointer BY <1>4, <1>5, <1>9, PlainPointer DEF PlainlyWritten
  <2>2. InEffect(document[c], PatchesOf(c) \ pending[c]) BY <1>2, <1>9 DEF CallInv
  <2>3. PatchesOf(c) \ pending'[c] = (PatchesOf(c) \ pending[c]) \cup {patch}
    BY <1>3, <1>4
  <2>4. \A q \in PatchesOf(c) \ pending[c] :
          q.pointer \in Path /\ ~Overlap(q.pointer, patch.pointer)
    BY <1>4, <1>5
  <2>5. InEffect(Replace(document[c], patch.pointer, patch.value),
                 (PatchesOf(c) \ pending[c]) \cup {patch})
    BY <1>4, <1>5, <1>6, <2>1, <2>2, <2>4, InEffectGrows
  <2> QED BY <1>3, <2>1, <2>3, <2>5
<1>10. CallInv(c)'
  <2>1. /\ PatchesOf(c)' = PatchesOf(c)
        /\ KeepsIdentity(document[c])'
        /\ PlainlyWritten(c)' = PlainlyWritten(c)
    BY <1>2, <1>8, GivenStays
  <2>2. ASSUME PlainlyWritten(c) PROVE InEffect(document[c], PatchesOf(c) \ pending[c])'
    BY <1>2, <1>9, <2>1, <2>2, GivenStays
  <2>3. pending'[c] \subseteq PatchesOf(c) BY <1>2, <1>3 DEF CallInv
  <2>4. phase'[c] = "applying" /\ arguments' = arguments BY <1>2
  <2> QED BY <1>4, <1>7, <2>1, <2>2, <2>3, <2>4 DEF CallInv
<1>11. HistoryInv'
  <2>1. PICK P, h :
          /\ IsHistory(h, P)
          /\ \A d \in Calls : PatchesOf(d) = P
          /\ \A d \in Calls : HasStarted(d) =>
               pending[d] \in DOMAIN h /\ document[d] = h[pending[d]]
    BY DEF IInv, HistoryInv
  <2>2. pending[c] \in DOMAIN h /\ document[c] = h[pending[c]]
    BY <1>2, <1>4, <2>1 DEF HasStarted
  <2>3. IsOrderable(P) BY <1>2, <1>4, <2>1, CompatibleIsOrderable DEF PatchesOf
  <2>4. PICK g : /\ Continues(g, h, P)
                 /\ pending[c] \ {patch} \in DOMAIN g
                 /\ g[pending[c] \ {patch}] = Replace(h[pending[c]], n, patch.value)
    BY <1>4, <2>1, <2>2, <2>3, HistoryGrows
  <2>5. IsHistory(g, P)' /\ \A d \in Calls : PatchesOf(d)' = P BY <1>2, <2>1, <2>4, GivenStays DEF Continues
  <2>6. ASSUME NEW d \in Calls, HasStarted(d)'
        PROVE  pending'[d] \in DOMAIN g /\ document'[d] = g[pending'[d]]
    <3>1. CASE d = c BY <1>0, <1>3, <2>2, <2>4, <3>1
    <3>2. CASE d # c
      <4>1. HasStarted(d) BY <1>2, <2>6 DEF HasStarted
      <4> QED BY <1>3, <2>1, <2>4, <3>2, <4>1 DEF Continues
    <3> QED BY <3>1, <3>2
  <2> QED BY <2>5, <2>6 DEF HistoryInv
<1> QED BY <1>2, <1>3, <1>10, <1>11, StepOfOne

LEMMA StutterIInv ==
  ASSUME IInv, UNCHANGED vars
  PROVE  IInv'
<1>1. /\ UNCHANGED <<base, arguments>> /\ UNCHANGED <<phase, document, pending>>
  BY DEF vars
<1>2. GivenInv' /\ FunctionInv' BY <1>1, GivenStays DEF IInv, FunctionInv
<1>3. \A c \in Calls : CallInv(c)' BY <1>1, Stays DEF IInv
<1>4. HistoryInv'
  <2>1. \A c \in Calls : HasStarted(c)' => HasStarted(c) BY <1>1 DEF HasStarted
  <2> QED BY <1>1, <2>1, HistoryStays
<1> QED BY <1>2, <1>3, <1>4 DEF IInv

LEMMA NextIInv ==
  ASSUME IInv, [Next]_vars
  PROVE  IInv'
  BY ParseIInv, RejectConflictIInv, OrderPatchesIInv, ReplaceNextIInv, RejectMissingIInv,
     ValidateIInv, StutterIInv DEF Next, Return

(* Every reachable state of any number of calls satisfies the invariant.   *)
THEOREM Invariance == Spec => []IInv
  BY InitIInv, NextIInv, PTL DEF Spec

-----------------------------------------------------------------------------
(* The document of every call stays one that can be read as JSON.          *)
THEOREM TypeCorrect == Spec => []TypeOK
<1>1. IInv => TypeOK
  BY DEF IInv, FunctionInv, CallInv, TypeOK
<1> QED
  BY <1>1, Invariance, PTL

(* API version, kind, version and name survive whatever overlays accepted, *)
(* however their pointers are written.                                     *)
THEOREM Identities == Spec => []IdentityIsKept
<1>1. IInv => IdentityIsKept
  BY DEF IInv, CallInv, KeepsIdentity, IdentityIsKept
<1> QED
  BY <1>1, Invariance, PTL

(* What lies below the node of an applied patch is its value. *)
LEMMA BelowIsValue ==
  ASSUME NEW doc, NEW n \in Path, NEW value,
         DOMAIN doc \subseteq Path, IsDocument(value),
         \A p \in Path : IsPrefix(n, p) =>
           /\ p \in DOMAIN doc <=> Rest(n, p) \in DOMAIN value
           /\ p \in DOMAIN doc => doc[p] = value[Rest(n, p)]
  PROVE  Below(doc, n) = value
<1> DEFINE Ends == {SubSeq(p, Len(n) + 1, Len(p)) : p \in {p \in DOMAIN doc : IsPrefix(n, p)}}
<1>1. DOMAIN value \subseteq Path /\ value = [q \in DOMAIN value |-> value[q]]
  BY DocumentNodes
<1>2. ASSUME NEW q \in DOMAIN value
      PROVE  /\ n \o q \in DOMAIN doc /\ IsPrefix(n, n \o q)
             /\ q = SubSeq(n \o q, Len(n) + 1, Len(n \o q))
             /\ doc[n \o q] = value[q]
  <2>1. q \in Path BY <1>1
  <2>2. n \o q \in Path /\ IsPrefix(n, n \o q) /\ Rest(n, n \o q) = q BY <2>1, Joined
  <2>3. n \o q \in DOMAIN doc /\ doc[n \o q] = value[q] BY <2>2
  <2> QED BY <2>2, <2>3 DEF Rest
<1>3. ASSUME NEW p \in DOMAIN doc, IsPrefix(n, p)
      PROVE  SubSeq(p, Len(n) + 1, Len(p)) \in DOMAIN value
  BY <1>3 DEF Rest
<1>4. Ends = DOMAIN value
  <2>1. ASSUME NEW q \in DOMAIN value PROVE q \in Ends BY <1>2
  <2>2. ASSUME NEW q \in Ends PROVE q \in DOMAIN value BY <1>3
  <2> QED BY <2>1, <2>2
<1>5. Below(doc, n) = [q \in Ends |-> doc[n \o q]] BY DEF Below
<1> HIDE DEF Ends
<1>6. [q \in Ends |-> doc[n \o q]] = [q \in DOMAIN value |-> value[q]] BY <1>2, <1>4
<1> QED BY <1>1, <1>5, <1>6

(* An accepted document is the contract with every patch in it, whole, and *)
(* nothing else changed, unless an index is written in an unusual way.     *)
THEOREM Effects == Spec => []PatchesTakeEffect
<1>1. ASSUME IInv, NEW c \in Calls, phase[c] = "accepted", PlainlyWritten(c)
      PROVE  /\ \A patch \in PatchesOf(c) :
                  /\ patch.pointer \in DOMAIN base
                  /\ Below(document[c], patch.pointer) = patch.value
             /\ \A p \in DOMAIN base \cup DOMAIN document[c] :
                  \/ \E patch \in PatchesOf(c) : IsPrefix(patch.pointer, p)
                  \/ /\ p \in DOMAIN base \cap DOMAIN document[c]
                     /\ document[c][p] = base[p]
  <2>1. /\ pending[c] = {} /\ IsDocument(document[c])
        /\ InEffect(document[c], PatchesOf(c) \ pending[c])
        /\ AreOverlays(arguments[c]) /\ IsDocument(base)
    BY <1>1 DEF IInv, CallInv, GivenInv, IsContract
  <2>2. PatchesOf(c) \ pending[c] = PatchesOf(c) BY <2>1
  <2>3. InEffect(document[c], PatchesOf(c)) BY <2>1, <2>2
  <2>4. DOMAIN document[c] \subseteq Path /\ DOMAIN base \subseteq Path
    BY <2>1, DocumentNodes
  <2>5. ASSUME NEW patch \in PatchesOf(c)
        PROVE  /\ patch.pointer \in DOMAIN base
               /\ Below(document[c], patch.pointer) = patch.value
    <3>1. patch.pointer \in Path /\ IsDocument(patch.value)
      BY <2>1, PatchProperties DEF PatchesOf
    <3>2. /\ patch.pointer \in DOMAIN base
          /\ \A p \in Path : IsPrefix(patch.pointer, p) =>
               /\ p \in DOMAIN document[c] <=> Rest(patch.pointer, p) \in DOMAIN patch.value
               /\ p \in DOMAIN document[c] =>
                    document[c][p] = patch.value[Rest(patch.pointer, p)]
      BY <2>3 DEF InEffect
    <3> QED BY <2>4, <3>1, <3>2, BelowIsValue
  <2>6. ASSUME NEW p \in DOMAIN base \cup DOMAIN document[c],
               \A patch \in PatchesOf(c) : ~IsPrefix(patch.pointer, p)
        PROVE  p \in DOMAIN base \cap DOMAIN document[c] /\ document[c][p] = base[p]
    BY <2>3, <2>4, <2>6 DEF InEffect
  <2> QED BY <2>5, <2>6
<1>2. IInv => PatchesTakeEffect
  BY <1>1 DEF PatchesTakeEffect
<1> QED
  BY <1>2, Invariance, PTL

(* Of two calls that are over neither has come further than the other: the *)
(* one left behind could have gone on as the other did.                    *)
LEMMA NoneIsAhead ==
  ASSUME NEW P, IsOrderable(P), NEW h, IsHistory(h, P), NEW S \in DOMAIN h, NEW T \in DOMAIN h,
         IsStuck(h[S], S), T \subseteq S
  PROVE  T = S
<1> SUFFICES ASSUME T # S PROVE FALSE OBVIOUS
<1>1. S # {} /\ S \in SUBSET P BY DEF IsHistory, Remainders
<1>2. PICK p \in First(S) : Located(h[S], p.pointer) = {} BY <1>1 DEF IsStuck
<1>3. PICK q \in First(S) : Located(h[S], q.pointer) # {}
  BY DEF IsHistory, Advances
<1>4. p = q BY <1>1, FirstIsOne
<1> QED BY <1>2, <1>3, <1>4

(* Two calls with the same overlays both fail or return the same document, *)
(* whatever the order of the arguments, also where indexes that are        *)
(* written in two ways make one patch undo another.                        *)
THEOREM AnyOrder == Spec => []SameForEveryOrder
<1>1. ASSUME IInv, Over, NEW c \in Calls, NEW d \in Calls
      PROVE  phase[c] = phase[d] /\ (phase[c] = "accepted" => document[c] = document[d])
  <2>1. /\ phase[c] \in {"refused", "accepted"} /\ phase[d] \in {"refused", "accepted"}
        /\ CallInv(c) /\ CallInv(d) /\ GivenInv
    BY <1>1 DEF Over, IInv
  <2>2. AreCompatible(arguments[c]) <=> AreCompatible(arguments[d]) BY <2>1, SamePatches
  <2>3. CASE ~AreCompatible(arguments[c]) BY <2>1, <2>2, <2>3 DEF CallInv
  <2>4. CASE AreCompatible(arguments[c])
    <3>1. PICK P, h :
            /\ IsHistory(h, P)
            /\ \A e \in Calls : PatchesOf(e) = P
            /\ \A e \in Calls : HasStarted(e) =>
                 pending[e] \in DOMAIN h /\ document[e] = h[pending[e]]
      BY <1>1 DEF IInv, HistoryInv
    <3>2. HasStarted(c) /\ HasStarted(d) BY <2>1, <2>2, <2>4 DEF HasStarted
    <3>3. /\ pending[c] \in DOMAIN h /\ document[c] = h[pending[c]]
          /\ pending[d] \in DOMAIN h /\ document[d] = h[pending[d]]
      BY <3>1, <3>2
    <3>4. IsOrderable(P)
      <4>1. AreOverlays(arguments[c]) /\ P = PatchesOf(c) BY <2>1, <3>1 DEF GivenInv
      <4> QED BY <2>4, <4>1, CompatibleIsOrderable DEF PatchesOf
    <3>5. /\ phase[c] = "accepted" => pending[c] = {} /\ IsDataProduct(document[c])
          /\ phase[c] = "refused" => IsStuck(document[c], pending[c])
          /\ phase[d] = "accepted" => pending[d] = {} /\ IsDataProduct(document[d])
          /\ phase[d] = "refused" => IsStuck(document[d], pending[d])
      BY <2>1, <2>2, <2>4 DEF CallInv
    <3>6. pending[c] \subseteq pending[d] \/ pending[d] \subseteq pending[c]
      BY <3>1, <3>3, <3>4, RemaindersAreNested DEF IsHistory
    <3>7. ASSUME pending[c] \subseteq pending[d] PROVE pending[c] = pending[d]
      <4>1. CASE phase[d] = "accepted" BY <3>5, <3>7, <4>1
      <4>2. CASE phase[d] = "refused"
        <5>1. IsStuck(h[pending[d]], pending[d]) BY <3>3, <3>5, <4>2
        <5> QED BY <3>1, <3>3, <3>4, <3>7, <5>1, NoneIsAhead
      <4> QED BY <2>1, <4>1, <4>2
    <3>8. ASSUME pending[d] \subseteq pending[c] PROVE pending[c] = pending[d]
      <4>1. CASE phase[c] = "accepted" BY <3>5, <3>8, <4>1
      <4>2. CASE phase[c] = "refused"
        <5>1. IsStuck(h[pending[c]], pending[c]) BY <3>3, <3>5, <4>2
        <5> QED BY <3>1, <3>3, <3>4, <3>8, <5>1, NoneIsAhead
      <4> QED BY <2>1, <4>1, <4>2
    <3>9. pending[c] = pending[d] /\ document[c] = document[d]
      BY <3>3, <3>6, <3>7, <3>8
    <3> QED BY <2>1, <3>5, <3>9 DEF IsStuck
  <2> QED BY <2>3, <2>4
<1>2. IInv => SameForEveryOrder
  BY <1>1 DEF SameForEveryOrder
<1> QED
  BY <1>2, Invariance, PTL
=============================================================================
