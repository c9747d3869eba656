----------------------------- MODULE UrlProofs -----------------------------
(***************************************************************************)
(* Proofs about normalizeHTTP, for host names of any length and texts of   *)
(* any shape, and for every value of the limits: isValidFQDN accepts       *)
(* exactly the domain names, what was stored is accepted again and stays   *)
(* as it is, and it is an HTTP URL with a host.                            *)
(***************************************************************************)
EXTENDS UrlNormalize, SequenceTheorems, WellFoundedInduction, TLAPS

(***************************************************************************)
(* Cuts.                                                                   *)
(***************************************************************************)
LEMMA LeastOf ==
    ASSUME NEW S, S \subseteq Nat, S # {}
    PROVE  \E m \in S : \A k \in S : m <= k
    <1> DEFINE R == OpToRel(<, Nat)
    <1>1. IsWellFoundedOn(R, Nat)
        BY NatLessThanWellFounded
    <1> HIDE DEF R
    <1>2. PICK m \in S : \A k \in S : ~ (<<k, m>> \in R)
        BY <1>1, WFMin
    <1>3. ASSUME NEW k \in S PROVE m <= k
        <2>1. ~ (<<k, m>> \in R)
            BY <1>2
        <2>2. R = {ss \in Nat \X Nat : ss[1] < ss[2]}
            BY DEF R, OpToRel
        <2> QED BY <2>1, <2>2
    <1> QED BY <1>3

LEMMA GreatestOf ==
    ASSUME NEW S, NEW n \in Nat, S \subseteq 0..n, S # {}
    PROVE  \E m \in S : \A k \in S : k <= m
    <1> DEFINE T == {n - k : k \in S}
    <1>0. \A k \in S : k \in 0..n /\ n - k \in Nat
        OBVIOUS
    <1>1. T \subseteq Nat /\ T # {}
        BY <1>0
    <1>2. PICK m \in T : \A k \in T : m <= k
        BY <1>1, LeastOf
    <1>3. PICK i \in S : m = n - i
        BY <1>2
    <1>4. ASSUME NEW k \in S PROVE k <= i
        <2>1. n - i <= n - k
            BY <1>2, <1>3
        <2> QED BY <2>1
    <1> QED BY <1>4

\* Neighbours among the cuts of a text; there is a label between them.
Neighbours(t, c, d) ==
    /\ c \in Cuts(t) /\ d \in Cuts(t) /\ c < d
    /\ \A k \in Cuts(t) : k <= c \/ k >= d

LEMMA CutsOf ==
    ASSUME NEW t \in Seq(Char)
    PROVE  /\ Len(t) \in Nat /\ DOMAIN t = 1..Len(t)
           /\ Cuts(t) \subseteq 0..(Len(t) + 1)
           /\ 0 \in Cuts(t) /\ Len(t) + 1 \in Cuts(t)
           /\ \A i \in 1..Len(t) : i \in Cuts(t) <=> t[i] = "."
           /\ \A i \in 1..Len(t) : t[i] \in Char
    BY LenProperties DEF Cuts

\* The nearest cuts left of i, and from i on.
LEMMA CutsAround ==
    ASSUME NEW t \in Seq(Char), NEW i \in 1..(Len(t) + 1)
    PROVE  \E c, d \in Nat : Neighbours(t, c, d) /\ c < i /\ i <= d
    <1> DEFINE Left == {k \in Cuts(t) : k < i}
               Right == {k \in Cuts(t) : k >= i}
    <1>1. Left \subseteq 0..(Len(t) + 1) /\ Left # {} /\ Len(t) + 1 \in Nat
        BY CutsOf
    <1>2. PICK c \in Left : \A k \in Left : k <= c
        BY <1>1, GreatestOf
    <1>3. Right \subseteq Nat /\ Right # {}
        BY CutsOf
    <1>4. PICK d \in Right : \A k \in Right : d <= k
        BY <1>3, LeastOf
    <1>5. ASSUME NEW k \in Cuts(t) PROVE k <= c \/ k >= d
        <2>1. k \in Left \/ k \in Right
            BY CutsOf
        <2> QED BY <1>2, <1>4, <2>1
    <1>6. c \in Nat /\ d \in Nat /\ c < i /\ i <= d
        BY CutsOf
    <1>7. Neighbours(t, c, d)
        BY <1>5, <1>6 DEF Neighbours
    <1> QED BY <1>6, <1>7

\* The text between two positions.
Between(t, c, d) == SubSeq(t, c + 1, d - 1)

\* A label is what is between two neighbours.
LEMMA LabelBetween ==
    ASSUME NEW t \in Seq(Char), NEW c \in Nat, NEW d \in Nat, Neighbours(t, c, d)
    PROVE  /\ c \in 0..Len(t) /\ d \in 1..(Len(t) + 1)
           /\ Len(Between(t, c, d)) = d - c - 1
           /\ DOMAIN Between(t, c, d) = 1..(d - c - 1)
           /\ \A j \in 1..(d - c - 1) : Between(t, c, d)[j] = t[c + j]
           /\ \A j \in 1..(d - c - 1) : t[c + j] \in Char \ {"."}
    <1>1. c \in 0..Len(t) /\ d \in 1..(Len(t) + 1) /\ c < d
        BY CutsOf DEF Neighbours
    <1>2. \A j \in (c + 1)..(d - 1) : j \in 1..Len(t)
        BY <1>1, CutsOf
    <1>3. \A j \in (c + 1)..(d - 1) : t[j] \in Char /\ t[j] # "."
        <2> SUFFICES ASSUME NEW j \in (c + 1)..(d - 1) PROVE t[j] \in Char /\ t[j] # "."
            OBVIOUS
        <2>1. j \notin Cuts(t)
            BY <1>1, CutsOf DEF Neighbours
        <2> QED BY <1>2, <2>1, CutsOf
    <1> DEFINE l == Between(t, c, d)
    <1>4. /\ l \in Seq(Char)
          /\ Len(l) = IF c + 1 <= d - 1 THEN d - 1 - (c + 1) + 1 ELSE 0
          /\ \A j \in 1..(d - 1 - (c + 1) + 1) : l[j] = t[c + 1 + j - 1]
        <2>1. c + 1 \in Int /\ d - 1 \in Int
            BY <1>1, CutsOf
        <2> QED BY <1>3, <2>1, SubSeqProperties DEF Between
    <1> HIDE DEF l
    <1>5. Len(l) = d - c - 1 /\ DOMAIN l = 1..(d - c - 1)
        BY <1>1, <1>4, CutsOf, LenProperties
    <1>6. ASSUME NEW j \in 1..(d - c - 1)
          PROVE  l[j] = t[c + j] /\ t[c + j] \in Char \ {"."}
        <2>1. c + j \in (c + 1)..(d - 1) /\ c + 1 + j - 1 = c + j
            BY <1>1, CutsOf
        <2>2. j \in 1..(d - 1 - (c + 1) + 1)
            BY <1>1, CutsOf
        <2>3. l[j] = t[c + 1 + j - 1]
            BY <1>4, <2>2
        <2> QED BY <1>3, <2>1, <2>3
    <1> QED BY <1>1, <1>5, <1>6 DEF l

\* The labels of a text are what is between neighbours.
LEMMA LabelsAre ==
    ASSUME NEW t
    PROVE  Labels(t) = {Between(t, c[1], c[2]) :
                           c \in {d \in Cuts(t) \X Cuts(t) : Neighbours(t, d[1], d[2])}}
    BY DEF Labels, Neighbours, Between

LEMMA LabelsValid ==
    ASSUME NEW t \in Seq(Char)
    PROVE  (\A label \in Labels(t) : IsValidFQDNLabel(label)) <=>
           (\A c, d \in Nat : Neighbours(t, c, d) =>
                                 IsValidFQDNLabel(Between(t, c, d)))
    <1>1. ASSUME NEW c \in Nat, NEW d \in Nat, Neighbours(t, c, d)
          PROVE  Between(t, c, d) \in Labels(t)
        <2>1. <<c, d>> \in {e \in Cuts(t) \X Cuts(t) : Neighbours(t, e[1], e[2])}
            BY <1>1 DEF Neighbours
        <2>2. \E e \in {e \in Cuts(t) \X Cuts(t) : Neighbours(t, e[1], e[2])} :
                  Between(t, c, d) = Between(t, e[1], e[2])
            <3>1. <<c, d>>[1] = c /\ <<c, d>>[2] = d
                OBVIOUS
            <3> WITNESS <<c, d>> \in {e \in Cuts(t) \X Cuts(t) : Neighbours(t, e[1], e[2])}
            <3> QED BY <3>1
        <2> QED BY <2>2, LabelsAre
    <1>2. ASSUME NEW label \in Labels(t)
          PROVE  \E c, d \in Nat : /\ Neighbours(t, c, d)
                                   /\ label = Between(t, c, d)
        <2>1. PICK e \in {d \in Cuts(t) \X Cuts(t) : Neighbours(t, d[1], d[2])} :
                      label = Between(t, e[1], e[2])
            BY LabelsAre
        <2>2. e[1] \in Nat /\ e[2] \in Nat
            BY CutsOf
        <2> QED BY <2>1, <2>2
    <1> QED BY <1>1, <1>2

-----------------------------------------------------------------------------
(***************************************************************************)
(* Names.                                                                  *)
(***************************************************************************)

\* What IsDomainName says of the text without its final dot.
In(t, i, chars) == i \in DOMAIN t /\ t[i] \in chars

Shape(t) ==
    \A i \in DOMAIN t :
        \/ t[i] = "alnum"
        \/ t[i] = "-" /\ In(t, i - 1, {"alnum", "-"}) /\ In(t, i + 1, {"alnum", "-"})
        \/ t[i] = "." /\ In(t, i - 1, {"alnum"}) /\ In(t, i + 1, {"alnum"})

ShortRuns(t) ==
    \A i \in 1..(Len(t) - LabelMax) : \E j \in i..(i + LabelMax) : t[j] = "."

LEMMA DomainNameIs ==
    ASSUME NEW s
    PROVE  IsDomainName(s) <=> /\ Len(s) <= NameMax
                               /\ WithoutFinalDot(s) # <<>>
                               /\ Shape(WithoutFinalDot(s))
                               /\ ShortRuns(WithoutFinalDot(s))
    BY DEF IsDomainName, Shape, ShortRuns, In

LEMMA WithoutFinalDotType ==
    ASSUME NEW s \in Seq(Char)
    PROVE  WithoutFinalDot(s) \in Seq(Char)
    <1>1. Len(s) \in Nat /\ \A i \in 1..(Len(s) - 1) : s[i] \in Char
        BY LenProperties
    <1>2. SubSeq(s, 1, Len(s) - 1) \in Seq(Char)
        <2>1. 1 \in Int /\ Len(s) - 1 \in Int
            BY <1>1
        <2> QED BY <1>1, <2>1, SubSeqProperties
    <1> QED BY <1>2 DEF WithoutFinalDot

\* Valid labels make a domain name.
LEMMA LabelsMakeName ==
    ASSUME NEW t \in Seq(Char),
           \A c, d \in Nat : Neighbours(t, c, d) =>
                                IsValidFQDNLabel(Between(t, c, d))
    PROVE  t # <<>> /\ Shape(t) /\ ShortRuns(t)
    <1> USE LimitsAssumption
    <1>0. Len(t) \in Nat /\ DOMAIN t = 1..Len(t)
        BY CutsOf
    \* What a valid label says of the text.
    <1>1. ASSUME NEW c \in Nat, NEW d \in Nat, Neighbours(t, c, d)
          PROVE  /\ d - c - 1 \in 1..LabelMax
                 /\ c + 1 \in 1..Len(t) /\ d - 1 \in 1..Len(t)
                 /\ \A k \in (c + 1)..(d - 1) : t[k] \in {"alnum", "-"}
                 /\ t[c + 1] = "alnum" /\ t[d - 1] = "alnum"
        <2> DEFINE l == Between(t, c, d)
        <2>1. /\ Len(l) = d - c - 1 /\ DOMAIN l = 1..(d - c - 1)
              /\ \A j \in 1..(d - c - 1) : l[j] = t[c + j]
              /\ c \in 0..Len(t) /\ d \in 1..(Len(t) + 1)
            BY <1>1, LabelBetween
        <2>2. IsValidFQDNLabel(l)
            BY <1>1
        <2> HIDE DEF l
        <2>3. /\ d - c - 1 \in 1..LabelMax
              /\ \A j \in 1..(d - c - 1) : t[c + j] \in {"alnum", "-"}
            BY <2>1, <2>2 DEF IsValidFQDNLabel
        <2>4. l[1] = t[c + 1] /\ l[Len(l)] = t[c + (d - c - 1)]
            BY <2>1, <2>3
        <2>5. t[c + 1] # "-" /\ t[d - 1] # "-"
            <3>1. c + (d - c - 1) = d - 1
                OBVIOUS
            <3> QED BY <2>2, <2>4, <3>1 DEF IsValidFQDNLabel
        <2>6. ASSUME NEW k \in (c + 1)..(d - 1) PROVE t[k] \in {"alnum", "-"}
            <3>1. k - c \in 1..(d - c - 1) /\ c + (k - c) = k
                OBVIOUS
            <3> QED BY <2>3, <3>1
        <2>7. c + 1 \in (c + 1)..(d - 1) /\ d - 1 \in (c + 1)..(d - 1)
            BY <2>3
        <2>8. c + 1 \in 1..Len(t) /\ d - 1 \in 1..Len(t)
            BY <1>0, <2>1, <2>3
        <2> QED BY <2>3, <2>5, <2>6, <2>7, <2>8
    <1>2. t # <<>>
        <2>1. SUFFICES ASSUME t = <<>> PROVE FALSE
            OBVIOUS
        <2>2. 1 \in 1..(Len(t) + 1)
            BY <1>0
        <2>3. PICK c \in Nat, d \in Nat : Neighbours(t, c, d)
            BY <2>2, CutsAround
        <2> QED BY <1>1, <2>1, <2>3, EmptySeq
    <1>3. ASSUME NEW i \in 1..Len(t)
          PROVE  \/ t[i] = "alnum"
                 \/ t[i] = "-" /\ In(t, i - 1, {"alnum", "-"}) /\ In(t, i + 1, {"alnum", "-"})
                 \/ t[i] = "." /\ In(t, i - 1, {"alnum"}) /\ In(t, i + 1, {"alnum"})
        <2>1. i \in 1..(Len(t) + 1) /\ i + 1 \in 1..(Len(t) + 1)
            BY <1>0
        <2>2. PICK c \in Nat, d \in Nat : Neighbours(t, c, d) /\ c < i /\ i <= d
            BY <2>1, CutsAround
        <2>3. CASE t[i] = "."
            <3>1. i \in Cuts(t)
                BY <2>3, CutsOf
            <3>2. i = d
                BY <2>2, <3>1 DEF Neighbours
            <3>3. PICK e \in Nat, f \in Nat : Neighbours(t, e, f) /\ e < i + 1 /\ i + 1 <= f
                BY <2>1, CutsAround
            <3>4. i = e
                BY <3>1, <3>3 DEF Neighbours
            <3>5. In(t, i - 1, {"alnum"})
                BY <1>0, <1>1, <2>2, <3>2 DEF In
            <3>6. In(t, i + 1, {"alnum"})
                BY <1>0, <1>1, <3>3, <3>4 DEF In
            <3> QED BY <2>3, <3>5, <3>6
        <2>4. CASE t[i] # "."
            <3>1. i \notin Cuts(t) /\ d \in Cuts(t)
                BY <2>2, <2>4, CutsOf DEF Neighbours
            <3>2. i < d
                BY <2>2, <3>1
            <3>3. i \in (c + 1)..(d - 1)
                BY <2>2, <3>2
            <3>4. t[i] \in {"alnum", "-"}
                BY <1>1, <2>2, <3>3
            <3>5. ASSUME t[i] = "-"
                  PROVE  In(t, i - 1, {"alnum", "-"}) /\ In(t, i + 1, {"alnum", "-"})
                <4>1. i # c + 1 /\ i # d - 1
                    BY <1>1, <2>2, <3>5
                <4>2. i - 1 \in (c + 1)..(d - 1) /\ i + 1 \in (c + 1)..(d - 1)
                    BY <3>3, <4>1
                <4>3. c + 1 \in 1..Len(t) /\ d - 1 \in 1..Len(t)
                    BY <1>1, <2>2
                <4>4. i - 1 \in 1..Len(t) /\ i + 1 \in 1..Len(t)
                    BY <1>0, <4>2, <4>3
                <4>5. t[i - 1] \in {"alnum", "-"} /\ t[i + 1] \in {"alnum", "-"}
                    BY <1>1, <2>2, <4>2
                <4> QED BY <1>0, <4>4, <4>5 DEF In
            <3> QED BY <3>4, <3>5
        <2> QED BY <2>3, <2>4
    <1>4. ASSUME NEW i \in 1..(Len(t) - LabelMax)
          PROVE  \E j \in i..(i + LabelMax) : t[j] = "."
        <2>1. i \in 1..(Len(t) + 1)
            BY <1>0
        <2>2. PICK c \in Nat, d \in Nat : Neighbours(t, c, d) /\ c < i /\ i <= d
            BY <2>1, CutsAround
        <2>3. d - c - 1 <= LabelMax
            BY <1>1, <2>2
        <2>4. d \in i..(i + LabelMax) /\ d \in 1..Len(t)
            BY <1>0, <2>2, <2>3
        <2>5. t[d] = "."
            BY <2>2, <2>4, CutsOf DEF Neighbours
        <2> QED BY <2>4, <2>5
    <1> QED BY <1>0, <1>2, <1>3, <1>4 DEF Shape, ShortRuns

\* The labels of a domain name are valid.
LEMMA NameMakesLabels ==
    ASSUME NEW t \in Seq(Char), t # <<>>, Shape(t), ShortRuns(t),
           NEW c \in Nat, NEW d \in Nat, Neighbours(t, c, d)
    PROVE  IsValidFQDNLabel(Between(t, c, d))
    <1> USE LimitsAssumption
    <1> DEFINE l == Between(t, c, d)
    <1>0. Len(t) \in Nat \ {0} /\ DOMAIN t = 1..Len(t)
        BY CutsOf, EmptySeq
    <1>1. /\ c \in 0..Len(t) /\ d \in 1..(Len(t) + 1)
          /\ Len(l) = d - c - 1 /\ DOMAIN l = 1..(d - c - 1)
          /\ \A j \in 1..(d - c - 1) : l[j] = t[c + j]
          /\ \A j \in 1..(d - c - 1) : t[c + j] \in Char \ {"."}
        <2>1. /\ Len(l) = d - c - 1 /\ DOMAIN l = 1..(d - c - 1)
              /\ \A j \in 1..(d - c - 1) : l[j] = t[c + j]
              /\ c \in 0..Len(t) /\ d \in 1..(Len(t) + 1)
            BY LabelBetween
        <2>2. \A j \in 1..(d - c - 1) : t[c + j] \in Char \ {"."}
            BY LabelBetween
        <2> HIDE DEF l
        <2> QED BY <2>1, <2>2
    <1> HIDE DEF l
    <1>2. c < d
        BY DEF Neighbours
    <1>3. c = 0 \/ (c \in 1..Len(t) /\ t[c] = ".")
        BY <1>0, <1>1, CutsOf DEF Neighbours
    <1>4. d = Len(t) + 1 \/ (d \in 1..Len(t) /\ t[d] = ".")
        BY <1>0, <1>1, CutsOf DEF Neighbours
    <1>5. c + 1 # d
        <2> SUFFICES ASSUME c + 1 = d PROVE FALSE
            OBVIOUS
        <2>1. CASE c = 0
            <3>1. d = 1 /\ d \in 1..Len(t) /\ t[1] = "."
                BY <1>0, <1>4, <2>1
            <3>2. In(t, 0, {"alnum"})
                BY <1>0, <3>1 DEF Shape
            <3> QED BY <1>0, <3>2 DEF In
        <2>2. CASE c \in 1..Len(t) /\ t[c] = "."
            <3>1. In(t, d, {"alnum"})
                BY <1>0, <2>2 DEF Shape
            <3> QED BY <1>0, <1>4, <3>1 DEF In
        <2> QED BY <1>3, <2>1, <2>2
    <1>6. d - c - 1 <= LabelMax
        <2> SUFFICES ASSUME d - c - 1 > LabelMax PROVE FALSE
            BY <1>1
        <2>1. c + 1 \in 1..(Len(t) - LabelMax)
            BY <1>0, <1>1
        <2>2. PICK j \in (c + 1)..(c + 1 + LabelMax) : t[j] = "."
            BY <2>1 DEF ShortRuns
        <2>3. j - c \in 1..(d - c - 1) /\ c + (j - c) = j
            BY <1>1, <2>2
        <2> QED BY <1>1, <2>2, <2>3
    <1>7. d - c - 1 \in 1..LabelMax
        BY <1>1, <1>2, <1>5, <1>6
    <1>8. ASSUME NEW k \in 1..(d - c - 1)
          PROVE  /\ c + k \in DOMAIN t /\ l[k] \in {"alnum", "-"}
                 /\ l[k] = "-" => /\ In(t, c + k - 1, {"alnum", "-"})
                                  /\ In(t, c + k + 1, {"alnum", "-"})
        <2>1. c + k \in DOMAIN t
            BY <1>0, <1>1
        <2>2. t[c + k] # "." /\ l[k] = t[c + k]
            BY <1>1
        <2> QED BY <2>1, <2>2 DEF Shape
    <1>9. l[1] # "-"
        <2> SUFFICES ASSUME l[1] = "-" PROVE FALSE
            OBVIOUS
        <2>1. 1 \in 1..(d - c - 1) /\ c + 1 - 1 = c
            BY <1>1, <1>7
        <2>2. In(t, c, {"alnum", "-"})
            BY <1>8, <2>1
        <2> QED BY <1>0, <1>3, <2>2 DEF In
    <1>10. l[Len(l)] # "-"
        <2> SUFFICES ASSUME l[Len(l)] = "-" PROVE FALSE
            OBVIOUS
        <2>1. d - c - 1 \in 1..(d - c - 1) /\ c + (d - c - 1) + 1 = d
            BY <1>1, <1>7
        <2>2. In(t, d, {"alnum", "-"})
            BY <1>1, <1>8, <2>1
        <2> QED BY <1>0, <1>4, <2>2 DEF In
    <1>11. IsValidFQDNLabel(l)
        BY <1>1, <1>7, <1>8, <1>9, <1>10 DEF IsValidFQDNLabel
    <1> QED BY <1>11 DEF l

\* isValidFQDN accepts exactly the domain names: splitting at dots, cutting
\* the final one and looking at each label alone misses nothing and refuses
\* nothing.
THEOREM FQDNExact == FQDNIsDomainName
    <1> SUFFICES ASSUME NEW s \in Name
                 PROVE  IsValidFQDN(s) <=> IsDomainName(s)
        BY DEF FQDNIsDomainName
    <1> DEFINE t == WithoutFinalDot(s)
    <1>1. t \in Seq(Char)
        BY NameAssumption, WithoutFinalDotType
    <1>2. IsValidFQDN(s) <=>
             /\ Len(s) <= NameMax
             /\ \A c, d \in Nat : Neighbours(t, c, d) =>
                                     IsValidFQDNLabel(Between(t, c, d))
        BY <1>1, LabelsValid DEF IsValidFQDN
    <1> HIDE DEF t
    <1>3. (\A c, d \in Nat : Neighbours(t, c, d) =>
                                IsValidFQDNLabel(Between(t, c, d)))
             <=> t # <<>> /\ Shape(t) /\ ShortRuns(t)
        BY <1>1, LabelsMakeName, NameMakesLabels
    <1> QED BY <1>2, <1>3, DomainNameIs DEF t

-----------------------------------------------------------------------------
(***************************************************************************)
(* Texts.                                                                  *)
(***************************************************************************)

\* A URL that was accepted got its scheme and its slashes.
LEMMA AcceptedHasSlashes ==
    ASSUME NEW raw \in URLText, Accepts(raw)
    PROVE  /\ WithScheme(raw) \in URLText
           /\ WithScheme(raw).slashes /\ ~WithScheme(raw).user
           /\ WithScheme(raw).scheme \in {"http", "HTTP", "https"}
           /\ HostIsValid(WithScheme(raw))
           /\ WithScheme(raw).port # "junk"
    <1>1. WithScheme(raw) \in URLText
        BY DEF WithScheme, URLText
    <1> QED BY <1>1 DEF Accepts, UrlIsValid

LEMMA NormalizedType ==
    ASSUME NEW w \in URLText, NEW n \in Nat, NEW scheme \in {"none", "http", "HTTP", "https", "ftp"}
    PROVE  [w EXCEPT !.scheme = scheme, !.fragment = 0, !.runes = n, !.unescaped = 0]
               \in URLText
    BY DEF URLText

LEMMA Normalized ==
    ASSUME NEW raw \in URLText
    PROVE  /\ NormalizeHTTP(raw) \in URLText
           /\ NormalizeHTTP(raw).scheme = IF WithScheme(raw).scheme = "HTTP" THEN "http"
                                          ELSE WithScheme(raw).scheme
           /\ NormalizeHTTP(raw).slashes = WithScheme(raw).slashes
           /\ NormalizeHTTP(raw).user = WithScheme(raw).user
           /\ NormalizeHTTP(raw).host = WithScheme(raw).host
           /\ NormalizeHTTP(raw).port = WithScheme(raw).port
           /\ NormalizeHTTP(raw).fragment = 0
           /\ NormalizeHTTP(raw).unescaped = 0
           /\ NormalizeHTTP(raw).garbled = raw.garbled
    <1> DEFINE w == WithScheme(raw)
    <1>1. w \in URLText
        BY DEF WithScheme, URLText
    <1>2. w.runes + 5 * raw.unescaped \in Nat
        BY <1>1 DEF URLText
    <1>3. w.garbled = raw.garbled
        BY DEF WithScheme, URLText
    <1> HIDE DEF w
    <1>4. NormalizeHTTP(raw) = [w EXCEPT !.scheme = IF @ = "HTTP" THEN "http" ELSE @,
                                         !.fragment = 0,
                                         !.runes = @ + 5 * raw.unescaped,
                                         !.unescaped = 0]
        BY DEF NormalizeHTTP, w
    <1>5. /\ NormalizeHTTP(raw).scheme = IF w.scheme = "HTTP" THEN "http" ELSE w.scheme
          /\ NormalizeHTTP(raw).slashes = w.slashes /\ NormalizeHTTP(raw).user = w.user
          /\ NormalizeHTTP(raw).host = w.host /\ NormalizeHTTP(raw).port = w.port
          /\ NormalizeHTTP(raw).fragment = 0 /\ NormalizeHTTP(raw).unescaped = 0
          /\ NormalizeHTTP(raw).garbled = w.garbled
        BY <1>1, <1>4 DEF URLText
    <1>6. NormalizeHTTP(raw) \in URLText
        <2> DEFINE scheme == IF w.scheme = "HTTP" THEN "http" ELSE w.scheme
                   n == w.runes + 5 * raw.unescaped
        <2>1. scheme \in {"none", "http", "HTTP", "https", "ftp"}
            BY <1>1 DEF URLText
        <2>2. NormalizeHTTP(raw) = [w EXCEPT !.scheme = scheme, !.fragment = 0,
                                             !.runes = n, !.unescaped = 0]
            BY <1>1, <1>4 DEF URLText
        <2> HIDE DEF scheme, n
        <2>3. n \in Nat
            BY <1>2 DEF n
        <2>4. [w EXCEPT !.scheme = scheme, !.fragment = 0, !.runes = n, !.unescaped = 0]
                  \in URLText
            BY <1>1, <2>1, <2>3, NormalizedType, Zenon
        <2> QED BY <2>2, <2>4, Zenon
    <1> QED BY <1>3, <1>5, <1>6 DEF w

LEMMA SameText ==
    ASSUME NEW a \in URLText, NEW b \in URLText,
           a.scheme = b.scheme, a.slashes = b.slashes, a.user = b.user,
           a.host = b.host, a.port = b.port, a.embeds = b.embeds,
           a.garbled = b.garbled,
           a.runes = b.runes, a.unescaped = b.unescaped, a.fragment = b.fragment
    PROVE  a = b
    BY DEF URLText

\* A stored URL that is not too long is accepted again and stays as it is:
\* normalizeHTTP adds "http://", escapes and lower case at most once.
THEOREM NormalizeStable == NormalizeIdempotent
    <1> SUFFICES ASSUME NEW raw \in RawURL, Accepts(raw),
                        Runes(NormalizeHTTP(raw)) <= MaxRunes
                 PROVE  /\ Accepts(NormalizeHTTP(raw))
                        /\ NormalizeHTTP(NormalizeHTTP(raw)) = NormalizeHTTP(raw)
        BY DEF NormalizeIdempotent
    <1> DEFINE u == NormalizeHTTP(raw)
    <1>0. raw \in URLText
        BY RawAssumption
    <1>1. /\ u \in URLText /\ u.scheme \in {"http", "https"} /\ u.slashes /\ ~u.user
          /\ u.port # "junk" /\ u.fragment = 0 /\ u.unescaped = 0 /\ ~u.garbled
          /\ u.host = WithScheme(raw).host /\ u.port = WithScheme(raw).port
        BY <1>0, AcceptedHasSlashes, Normalized DEF Accepts
    <1>2. HostIsValid(u)
        BY <1>0, <1>1, AcceptedHasSlashes DEF HostIsValid
    <1> HIDE DEF u
    <1>3. WithScheme(u) = u
        BY <1>1 DEF WithScheme
    <1>4. Accepts(u)
        BY <1>1, <1>2, <1>3 DEF Accepts, UrlIsValid, u
    <1>5. NormalizeHTTP(u) = [u EXCEPT !.scheme = IF @ = "HTTP" THEN "http" ELSE @,
                                       !.fragment = 0,
                                       !.runes = @ + 5 * u.unescaped,
                                       !.unescaped = 0]
        BY <1>3 DEF NormalizeHTTP
    <1>6. u.runes \in Nat /\ u.runes + 5 * u.unescaped = u.runes
        BY <1>1 DEF URLText
    <1>7. NormalizeHTTP(u) = u
        <2> DEFINE v == NormalizeHTTP(u)
        <2>1. v \in URLText
            BY <1>1, Normalized
        <2>2. /\ v.scheme = u.scheme /\ v.slashes = u.slashes /\ v.user = u.user
              /\ v.host = u.host /\ v.port = u.port
              /\ v.unescaped = u.unescaped /\ v.fragment = u.fragment
              /\ v.garbled = u.garbled
            BY <1>1, <1>3, Normalized
        <2>3. v.embeds = u.embeds /\ v.runes = u.runes
            BY <1>1, <1>5, <1>6 DEF URLText
        <2> QED BY <1>1, <2>1, <2>2, <2>3, SameText
    <1> QED BY <1>4, <1>7 DEF u

\* What a redirect may lead to.
HTTPWithHost(u) ==
    /\ u.scheme \in {"http", "https"} /\ u.slashes
    /\ ~u.user /\ u.fragment = 0
    /\ u.host.form = "name" => IsDomainName(u.host.name)

\* normalizeHTTP makes HTTP URLs of all it accepts, with a host and without
\* credentials or a fragment.
LEMMA NormalizedIsHTTP ==
    ASSUME NEW raw \in RawURL, Accepts(raw)
    PROVE  HTTPWithHost(NormalizeHTTP(raw))
    <1> DEFINE u == NormalizeHTTP(raw)
    <1>0. raw \in URLText
        BY RawAssumption
    <1>1. /\ u \in URLText /\ u.scheme \in {"http", "https"} /\ u.slashes /\ ~u.user
          /\ u.fragment = 0 /\ u.host = WithScheme(raw).host
        BY <1>0, AcceptedHasSlashes, Normalized
    <1>2. u.host.form = "name" => IsDomainName(u.host.name)
        <2> SUFFICES ASSUME u.host.form = "name" PROVE IsDomainName(u.host.name)
            OBVIOUS
        <2>1. IsValidFQDN(u.host.name)
            BY <1>0, <1>1, AcceptedHasSlashes DEF HostIsValid
        <2>2. u.host.name \in Name
            BY <1>1 DEF URLText, Host
        <2> QED BY <2>1, <2>2, FQDNExact DEF FQDNIsDomainName
    <1> QED BY <1>1, <1>2 DEF HTTPWithHost

=============================================================================
