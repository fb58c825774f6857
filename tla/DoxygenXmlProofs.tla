-------------------------- MODULE DoxygenXmlProofs --------------------------
(***************************************************************************)
(* Theorems about DoxygenXml, for any schema and any documents: what is    *)
(* printed is what the document's own tree makes it, whatever it is        *)
(* printed as, and so is the text taken from it.                           *)
(*                                                                         *)
(* An element is named by the way to it, so that what the code reaches by  *)
(* recursion is what has every step of its way among the parts.            *)
(***************************************************************************)
EXTENDS DoxygenXml, Iteration

(* Names.  *)

\* The first n steps of a name.
LEMMA PrefixFields ==
  ASSUME NEW p, Sequence(p), NEW n \in 1 .. Len(p)
  PROVE  /\ Sequence(Prefix(p, n)) /\ Len(Prefix(p, n)) = n /\ Prefix(p, n) # <<>>
         /\ \A i \in 1 .. n : Prefix(p, n)[i] = p[i]
<1>1. PICK S : S = ToSet(p) /\ p \in Seq(S)
  BY DEF Sequence
<1>2. PICK q : q = SubSeq(p, 1, n)
  OBVIOUS
<1>3. n \in Nat /\ n \in Int /\ 1 \in Int /\ n - 1 + 1 = n /\ \A i \in 1 .. n : p[i] \in S /\ 1 + i - 1 = i
  BY <1>1
<1>4. /\ SubSeq(p, 1, n) \in Seq(S)
      /\ Len(SubSeq(p, 1, n)) = IF 1 <= n THEN n - 1 + 1 ELSE 0
      /\ \A i \in 1 .. n - 1 + 1 : SubSeq(p, 1, n)[i] = p[1 + i - 1]
  BY <1>3, SubSeqProperties
<1>5. q \in Seq(S) /\ Len(q) = n /\ \A i \in 1 .. n : q[i] = p[i]
  BY <1>2, <1>3, <1>4
<1>6. Sequence(q)
  BY <1>5, SequenceOf
<1>7. q # <<>>
  BY <1>5
<1> QED
  BY <1>2, <1>5, <1>6, <1>7 DEF Prefix

\* Two names of the same steps are the same.
LEMMA SameName ==
  ASSUME NEW p, NEW q, Sequence(p), Sequence(q), Len(p) = Len(q), \A i \in 1 .. Len(p) : p[i] = q[i]
  PROVE  p = q
<1>1. PICK S : S = ToSet(p) \cup ToSet(q)
  OBVIOUS
<1>2. p \in Seq(S) /\ q \in Seq(S)
  BY <1>1, SuperSequence DEF Sequence
<1> QED
  BY <1>2, SeqEqual

\* All of a name, a prefix of a prefix, and what is before the last step.
LEMMA PrefixOfPrefix ==
  ASSUME NEW p, Sequence(p)
  PROVE  /\ p # <<>> => Prefix(p, Len(p)) = p
         /\ \A m \in 1 .. Len(p) : \A n \in 1 .. m : Prefix(Prefix(p, m), n) = Prefix(p, n)
         /\ Len(p) > 1 => Front(p) = Prefix(p, Len(p) - 1)
         /\ \A n \in 1 .. Len(p) - 1 : Front(Prefix(p, n + 1)) = Prefix(p, n)
<1>1. PICK l \in Nat : l = Len(p)
  BY DEF Sequence
<1>2. ASSUME p # <<>> PROVE Prefix(p, l) = p
  <2>1. l \in 1 .. l
    BY <1>1, <1>2 DEF Sequence
  <2>2. Sequence(Prefix(p, l)) /\ Len(Prefix(p, l)) = l /\ \A i \in 1 .. l : Prefix(p, l)[i] = p[i]
    BY <1>1, <2>1, PrefixFields
  <2> QED
    BY <1>1, <2>2, SameName
<1>3. ASSUME NEW m \in 1 .. l, NEW n \in 1 .. m
      PROVE  Prefix(Prefix(p, m), n) = Prefix(p, n)
  <2>1. n \in 1 .. l
    OBVIOUS
  <2>2. PICK q : q = Prefix(p, m)
    OBVIOUS
  <2>3. Sequence(q) /\ Len(q) = m /\ \A i \in 1 .. m : q[i] = p[i]
    BY <1>1, <2>2, PrefixFields
  <2>4. Sequence(Prefix(q, n)) /\ Len(Prefix(q, n)) = n /\ \A i \in 1 .. n : Prefix(q, n)[i] = q[i]
    BY <2>3, PrefixFields
  <2>5. Sequence(Prefix(p, n)) /\ Len(Prefix(p, n)) = n /\ \A i \in 1 .. n : Prefix(p, n)[i] = p[i]
    BY <1>1, <2>1, PrefixFields
  <2>6. \A i \in 1 .. n : i \in 1 .. m
    OBVIOUS
  <2> QED
    BY <2>2, <2>3, <2>4, <2>5, <2>6, SameName
<1>4. Front(p) = Prefix(p, l - 1)
  BY <1>1 DEF Front, Prefix
<1>5. ASSUME NEW n \in 1 .. l - 1 PROVE Front(Prefix(p, n + 1)) = Prefix(p, n)
  <2>1. n + 1 \in 1 .. l /\ n \in 1 .. n + 1 /\ (n + 1) - 1 = n
    OBVIOUS
  <2>2. Len(Prefix(p, n + 1)) = n + 1
    BY <1>1, <2>1, PrefixFields
  <2>3. Front(Prefix(p, n + 1)) = Prefix(Prefix(p, n + 1), n)
    BY <2>1, <2>2 DEF Front, Prefix
  <2> QED
    BY <1>3, <2>1, <2>3
<1> QED
  BY <1>1, <1>2, <1>3, <1>4, <1>5

\* A name with a step more.
LEMMA AppendFields ==
  ASSUME NEW p, Sequence(p), NEW e
  PROVE  /\ Sequence(Append(p, e)) /\ Append(p, e) # <<>>
         /\ Len(Append(p, e)) = Len(p) + 1
         /\ Last(Append(p, e)) = e
         /\ \A i \in 1 .. Len(p) : Append(p, e)[i] = p[i]
         /\ p # <<>> => Front(Append(p, e)) = p
<1>1. PICK S : S = ToSet(p) \cup {e}
  OBVIOUS
<1>2. p \in Seq(S) /\ e \in S
  BY <1>1, SuperSequence DEF Sequence
<1>3. PICK q : q = Append(p, e)
  OBVIOUS
<1>4. PICK l \in Nat : l = Len(p)
  BY DEF Sequence
<1>5. q \in Seq(S) /\ Len(q) = l + 1 /\ q[l + 1] = e /\ \A i \in 1 .. l : q[i] = p[i]
  <2>1. /\ Append(p, e) \in Seq(S) /\ Len(Append(p, e)) = Len(p) + 1
        /\ Append(p, e)[Len(p) + 1] = e
        /\ \A i \in 1 .. Len(p) : Append(p, e)[i] = p[i]
    BY <1>2, AppendProperties
  <2> QED
    BY <1>3, <1>4, <2>1
<1>6. Sequence(q) /\ q # <<>>
  BY <1>5, SequenceOf
<1>7. ASSUME p # <<>> PROVE Front(q) = p
  <2>1. l \in 1 .. l /\ l \in 1 .. Len(q) /\ (l + 1) - 1 = l /\ l + 1 > 1
    BY <1>2, <1>4, <1>5, <1>7
  <2>2. Front(q) = Prefix(q, l)
    BY <1>5, <2>1 DEF Front, Prefix
  <2>3. Sequence(Prefix(q, l)) /\ Len(Prefix(q, l)) = l /\ \A i \in 1 .. l : Prefix(q, l)[i] = q[i]
    BY <1>6, <2>1, PrefixFields
  <2>4. \A i \in 1 .. l : Prefix(q, l)[i] = p[i]
    BY <1>5, <2>3
  <2> QED
    BY <1>4, <2>2, <2>3, <2>4, SameName
<1> QED
  BY <1>3, <1>4, <1>5, <1>6, <1>7 DEF Last

-----------------------------------------------------------------------------
(* Rows and classes.  *)

Classes == DOMAIN Rows \cup {""}

\* The child of a class with a tag.
LEMMA KidOfTag ==
  ASSUME NEW cls, NEW tag \in KidTags(cls)
  PROVE  KidOf(cls, tag) \in KidsOf(cls) /\ KidOf(cls, tag).tag = tag
<1>1. PICK k \in KidsOf(cls) : k.tag = tag
  BY DEF KidTags
<1> QED
  BY <1>1 DEF KidOf

\* It is the only one.
LEMMA KidOfKid ==
  ASSUME NEW cls \in DOMAIN Rows, NEW k \in KidsOf(cls)
  PROVE  k.tag \in KidTags(cls) /\ KidOf(cls, k.tag) = k
<1>1. k.tag \in KidTags(cls)
  BY DEF KidTags
<1>2. KidOf(cls, k.tag) \in KidsOf(cls) /\ KidOf(cls, k.tag).tag = k.tag
  BY <1>1, KidOfTag
<1>3. IsRow(Row(cls))
  BY SchemaAssumption
<1>4. \A i, j \in DOMAIN Row(cls).kids : Row(cls).kids[i].tag = Row(cls).kids[j].tag => i = j
  BY <1>3 DEF IsRow
<1>5. PICK i \in DOMAIN Row(cls).kids : Row(cls).kids[i] = k
  BY DEF KidsOf, ToSet
<1>6. PICK j \in DOMAIN Row(cls).kids : Row(cls).kids[j] = KidOf(cls, k.tag)
  BY <1>2 DEF KidsOf, ToSet
<1> QED
  BY <1>1, <1>2, <1>4, <1>5, <1>6

\* What a row says of a child.
LEMMA KidFields ==
  ASSUME NEW cls \in DOMAIN Rows, NEW k \in KidsOf(cls)
  PROVE  /\ k.style \in {"one", "many", "text", "texts", "titled"}
         /\ IsText(k) => k.cls = ""
         /\ ~IsText(k) => k.cls \in DOMAIN Rows /\ k.cls # ""
         /\ k.style = "titled" =>
              Row(cls).content = "plain" /\ \E j \in KidsOf(cls) : j.style = "text"
         /\ Row(cls).content = "mixed" => IsText(k) \/ HasContent(k.cls)
         /\ Row(cls).content \in {"plain", "mixed"}
<1>1. IsRow(Row(cls)) /\ \A c \in DOMAIN Rows : c # ""
  BY SchemaAssumption
<1>2. k \in ToSet(Row(cls).kids)
  BY DEF KidsOf
<1>3. ToSet(Row(cls).kids) # {} => Row(cls).kids # <<>>
  BY DEF ToSet
<1> QED
  BY <1>1, <1>2, <1>3 DEF IsRow, KidsOf

\* What a paragraph of the subclasses reads.
LEMMA ParaFields ==
  /\ DOMAIN ParaClasses = {"ref", "parameterlist", "simplesect"}
  /\ ParaClasses["ref"] = "docRefTextType"
  /\ ParaClasses["parameterlist"] = "docParamListType"
  /\ ParaClasses["simplesect"] = "docSimpleSectType"
<1>1. DOMAIN ParaClasses = {"ref", "parameterlist", "simplesect"}
  BY DEF ParaClasses
<1>2. /\ ParaClasses.ref = "docRefTextType"
      /\ ParaClasses.parameterlist = "docParamListType"
      /\ ParaClasses.simplesect = "docSimpleSectType"
  BY DEF ParaClasses
<1> QED
  BY <1>1, <1>2

\* The class of a child.
LEMMA ReaderClass ==
  ASSUME NEW sub, NEW cls \in Classes, NEW tag
  PROVE  /\ ReaderOf(sub, cls, tag) \in Classes
         /\ cls = "" => ReaderOf(sub, cls, tag) = ""
<1>1. CASE cls = ""
  BY <1>1 DEF ReaderOf, Classes
<1>2. CASE cls # "" /\ tag \in KidTags(cls)
  <2>1. cls \in DOMAIN Rows
    BY <1>2 DEF Classes
  <2>2. KidOf(cls, tag) \in KidsOf(cls)
    BY <1>2, KidOfTag
  <2>3. KidOf(cls, tag).cls \in Classes
    BY <2>1, <2>2, KidFields DEF Classes
  <2> QED
    BY <1>2, <2>3 DEF ReaderOf
<1>3. CASE cls # "" /\ tag \notin KidTags(cls)
  <2>1. \A t \in DOMAIN ParaClasses : ParaClasses[t] \in DOMAIN Rows
    BY ParaFields, SchemaAssumption
  <2> QED
    BY <1>3, <2>1 DEF ReaderOf, Classes
<1> QED
  BY <1>1, <1>2, <1>3

LEMMA RootIsClass ==
  ASSUME NEW tag
  PROVE  RootClass(tag) \in Classes /\ RootClass(tag) # ""
BY SchemaAssumption DEF RootClass, Classes

\* The classes of the elements on the way to one.
ClassesOnWay(class, sub, p) ==
    /\ ClassOf(sub, p) = class[Len(p)] /\ class[1] = RootClass(p[1].tag)
    /\ \A n \in 1 .. Len(p) : class[n] \in Classes
    /\ \A n \in 1 .. Len(p) - 1 : class[n + 1] = ReaderOf(sub, class[n], p[n + 1].tag)

LEMMA ClassSteps ==
  ASSUME NEW sub, NEW p, Sequence(p), p # <<>>
  PROVE  \E class : ClassesOnWay(class, sub, p)
<1> DEFINE Steps(c) ==
      c = [n \in 1 .. Len(p) |-> IF n = 1 THEN RootClass(p[1].tag)
                                 ELSE ReaderOf(sub, c[n - 1], p[n].tag)]
<1>1. PICK l \in Nat : l = Len(p) /\ l > 0
  BY DEF Sequence
<1>2. PICK step : step = [k \in Nat \X Classes |-> ReaderOf(sub, k[2], p[k[1] + 2].tag)]
  OBVIOUS
<1>3. step \in [Nat \X Classes -> Classes]
  <2>1. ASSUME NEW k \in Nat \X Classes PROVE ReaderOf(sub, k[2], p[k[1] + 2].tag) \in Classes
    <3>1. k[2] \in Classes
      OBVIOUS
    <3> QED
      BY <3>1, ReaderClass
  <2> QED
    BY <1>2, <2>1
<1>4. PICK a \in Classes : a = RootClass(p[1].tag)
  BY RootIsClass
<1>5. PICK g : UpTo(g, l, Classes, a, step)
  BY <1>1, <1>3, UpToExists
<1>6. /\ g \in [0 .. l -> Classes] /\ g[0] = a
      /\ \A i \in 0 .. l - 1 : g[i + 1] = step[<<i, g[i]>>]
  BY <1>5 DEF UpTo
<1>7. PICK c : c = [n \in 1 .. l |-> g[n - 1]]
  OBVIOUS
<1>8. c[1] = a
  BY <1>1, <1>6, <1>7
<1>9. ASSUME NEW n \in 2 .. l PROVE c[n] = ReaderOf(sub, c[n - 1], p[n].tag)
  <2>1. PICK m \in Nat : m = n - 2 /\ m \in 0 .. l /\ m \in 0 .. l - 1 /\ m + 1 = n - 1 /\ m + 2 = n
    OBVIOUS
  <2>2. g[m + 1] = step[<<m, g[m]>>]
    BY <1>6, <2>1
  <2>3. PICK x \in Classes : x = g[m]
    BY <1>6, <2>1
  <2>4. step[<<m, x>>] = ReaderOf(sub, x, p[m + 2].tag)
    <3>1. <<m, x>> \in Nat \X Classes /\ <<m, x>>[1] = m /\ <<m, x>>[2] = x
      OBVIOUS
    <3> QED
      BY <1>2, <3>1
  <2>5. c[n] = g[m + 1] /\ c[n - 1] = g[m]
    BY <1>7, <2>1
  <2> QED
    BY <2>1, <2>2, <2>3, <2>4, <2>5
<1>10. Steps(c)
  <2>1. ASSUME NEW n \in 1 .. l
        PROVE  c[n] = IF n = 1 THEN RootClass(p[1].tag) ELSE ReaderOf(sub, c[n - 1], p[n].tag)
    <3>1. n = 1 \/ n \in 2 .. l
      OBVIOUS
    <3> QED
      BY <1>4, <1>8, <1>9, <3>1
  <2> QED
    BY <1>1, <1>7, <2>1
<1>11. PICK class : class = CHOOSE d : Steps(d)
  OBVIOUS
<1>12. Steps(class)
  BY <1>10, <1>11
<1>13. ClassOf(sub, p) = class[l]
  BY <1>1, <1>11 DEF ClassOf
<1>14. class[1] = RootClass(p[1].tag)
  BY <1>1, <1>12
<1>15. ASSUME NEW n \in 1 .. l - 1 PROVE class[n + 1] = ReaderOf(sub, class[n], p[n + 1].tag)
  <2>1. n + 1 \in 1 .. l /\ n + 1 # 1 /\ (n + 1) - 1 = n
    OBVIOUS
  <2> QED
    BY <1>1, <1>12, <2>1
<1> HIDE DEF Steps
<1> DEFINE T == {n \in Nat : n \in 1 .. l => class[n] \in Classes}
<1>16. 0 \in T
  OBVIOUS
<1>17. ASSUME NEW n \in Nat, n \in T PROVE n + 1 \in T
  <2> SUFFICES ASSUME n + 1 \in 1 .. l PROVE class[n + 1] \in Classes
    OBVIOUS
  <2>1. CASE n = 0
    <3>1. class[1] = a /\ a \in Classes
      BY <1>4, <1>14
    <3>2. n + 1 = 1
      BY <2>1
    <3> QED
      BY <3>1, <3>2
  <2>2. CASE n # 0
    <3>1. n \in 1 .. l - 1 /\ class[n] \in Classes
      BY <1>17, <2>2
    <3>2. ReaderOf(sub, class[n], p[n + 1].tag) \in Classes
      BY <3>1, ReaderClass
    <3> QED
      BY <1>15, <3>1, <3>2
  <2> QED
    BY <2>1, <2>2
<1> HIDE DEF T
<1>18. Nat \subseteq T
  BY <1>16, <1>17, Induction
<1>19. \A n \in 1 .. l : class[n] \in Classes
  BY <1>18 DEF T
<1>20. ClassesOnWay(class, sub, p)
  BY <1>1, <1>13, <1>14, <1>15, <1>19 DEF ClassesOnWay
<1> QED
  BY <1>20

\* The class of an element is what its parent's reads it by.
LEMMA ClassStep ==
  ASSUME NEW sub, NEW p, Sequence(p), p # <<>>
  PROVE  /\ ClassOf(sub, p) \in Classes
         /\ Len(p) = 1 => ClassOf(sub, p) = RootClass(p[1].tag) /\ ClassOf(sub, p) # ""
         /\ Len(p) > 1 => ClassOf(sub, p) = ReaderOf(sub, ClassOf(sub, Front(p)), Tag(p))
<1>1. PICK c : ClassesOnWay(c, sub, p)
  BY ClassSteps
<1>2. PICK l \in Nat : l = Len(p) /\ l > 0
  BY DEF Sequence
<1>3. /\ ClassOf(sub, p) = c[l] /\ c[1] = RootClass(p[1].tag)
      /\ \A n \in 1 .. l : c[n] \in Classes
      /\ \A n \in 1 .. l - 1 : c[n + 1] = ReaderOf(sub, c[n], p[n + 1].tag)
  BY <1>1, <1>2 DEF ClassesOnWay
<1>4. ClassOf(sub, p) \in Classes
  BY <1>2, <1>3
<1>5. l = 1 => ClassOf(sub, p) = RootClass(p[1].tag) /\ ClassOf(sub, p) # ""
  BY <1>3, RootIsClass
<1>6. ASSUME l > 1 PROVE ClassOf(sub, p) = ReaderOf(sub, ClassOf(sub, Front(p)), Tag(p))
  <2>1. PICK m \in Nat : m = l - 1 /\ m > 0 /\ m + 1 = l /\ m \in 1 .. l
    BY <1>6
  <2>2. PICK q : q = Prefix(p, m)
    OBVIOUS
  <2>3. q = Front(p)
    BY <1>2, <1>6, <2>1, <2>2, PrefixOfPrefix
  <2>4. Sequence(q) /\ Len(q) = m /\ q # <<>> /\ \A i \in 1 .. m : q[i] = p[i]
    BY <1>2, <2>1, <2>2, PrefixFields
  <2>5. PICK d : ClassesOnWay(d, sub, q)
    BY <2>4, ClassSteps
  <2>6. /\ ClassOf(sub, q) = d[m] /\ d[1] = RootClass(q[1].tag)
        /\ \A n \in 1 .. m - 1 : d[n + 1] = ReaderOf(sub, d[n], q[n + 1].tag)
    BY <2>4, <2>5 DEF ClassesOnWay
  <2> DEFINE T == {n \in Nat : n \in 1 .. m => d[n] = c[n]}
  <2>7. 0 \in T
    OBVIOUS
  <2>8. ASSUME NEW n \in Nat, n \in T PROVE n + 1 \in T
    <3> SUFFICES ASSUME n + 1 \in 1 .. m PROVE d[n + 1] = c[n + 1]
      OBVIOUS
    <3>1. CASE n = 0
      <4>1. 1 \in 1 .. m
        BY <2>1
      <4> QED
        BY <1>3, <2>4, <2>6, <3>1, <4>1
    <3>2. CASE n # 0
      <4>1. n \in 1 .. m - 1 /\ n \in 1 .. l - 1 /\ d[n] = c[n] /\ q[n + 1] = p[n + 1]
        BY <2>1, <2>4, <2>8, <3>2
      <4> QED
        BY <1>3, <2>6, <4>1
    <3> QED
      BY <3>1, <3>2
  <2> HIDE DEF T
  <2>9. Nat \subseteq T
    BY <2>7, <2>8, Induction
  <2>10. d[m] = c[m]
    BY <2>1, <2>9 DEF T
  <2>11. m \in 1 .. l - 1 /\ Tag(p) = p[m + 1].tag
    BY <1>2, <2>1 DEF Tag, Last
  <2> QED
    BY <1>3, <2>1, <2>3, <2>6, <2>10, <2>11
<1> QED
  BY <1>2, <1>4, <1>5, <1>6

-----------------------------------------------------------------------------
(* Documents, as Doxygen writes them or printed and parsed again.  *)

Escaped(token) == token.esc \in Nat /\ token = [kind |-> token.kind, esc |-> token.esc]

LegibleNode(doc, p, n) ==
    \/ n.type \in {"text", "cdata"} /\ Escaped(n.token)
    \/ n.type = "element" /\ n.name \in DOMAIN doc /\ n.name = Append(p, Last(n.name))

LegibleElement(doc, p) ==
    /\ p # <<>> /\ Sequence(p)
    /\ Len(p) > 1 => Front(p) \in DOMAIN doc
    /\ Sequence(doc[p].nodes)
    /\ \A a \in DOMAIN doc[p].attrs : Escaped(doc[p].attrs[a])
    /\ \A i \in DOMAIN doc[p].nodes : LegibleNode(doc, p, doc[p].nodes[i])

Legible(doc) ==
    /\ \E h \in Nat : \A p \in DOMAIN doc : Len(p) <= h
    /\ \A p \in DOMAIN doc : LegibleElement(doc, p)

\* A set of names with what is before each has all that is on the way.
LEMMA OnTheWay ==
  ASSUME NEW D, NEW p \in D, NEW n \in 1 .. Len(p),
         \A q \in D : q # <<>> /\ Sequence(q) /\ (Len(q) > 1 => Front(q) \in D)
  PROVE  Prefix(p, n) \in D
<1>1. PICK l \in Nat : l = Len(p)
  BY DEF Sequence
<1> DEFINE T == {k \in Nat : k < l => Prefix(p, l - k) \in D}
<1>2. 0 \in T
  BY <1>1, PrefixOfPrefix
<1>3. ASSUME NEW k \in Nat, k \in T PROVE k + 1 \in T
  <2> SUFFICES ASSUME k + 1 < l PROVE Prefix(p, l - (k + 1)) \in D
    OBVIOUS
  <2>1. PICK m \in Nat : m = l - (k + 1) /\ m + 1 = l - k /\ m \in 1 .. l - 1 /\ m + 1 \in 1 .. l
                          /\ m + 1 > 1
    OBVIOUS
  <2>2. PICK q : q = Prefix(p, m + 1)
    OBVIOUS
  <2>3. q \in D
    BY <1>3, <2>1, <2>2
  <2>4. Len(q) = m + 1
    BY <1>1, <2>1, <2>2, PrefixFields
  <2>5. Front(q) = Prefix(p, m)
    BY <1>1, <2>1, <2>2, PrefixOfPrefix
  <2> QED
    BY <2>1, <2>3, <2>4, <2>5
<1> HIDE DEF T
<1>4. Nat \subseteq T
  BY <1>2, <1>3, Induction
<1>5. l - n \in Nat /\ l - (l - n) = n /\ l - n < l
  BY <1>1
<1> QED
  BY <1>4, <1>5 DEF T

\* The elements read are those of a document, with all on the way.
LEMMA ReadOnTheWay ==
  ASSUME NEW sub, NEW doc, Legible(doc), NEW p \in Read(sub, doc), NEW n \in 1 .. Len(p)
  PROVE  /\ Sequence(p) /\ p # <<>> /\ p \in DOMAIN doc /\ ClassOf(sub, p) \in DOMAIN Rows
         /\ ClassOf(sub, p) # ""
         /\ Prefix(p, n) \in Read(sub, doc)
<1>1. ASSUME NEW q \in Read(sub, doc)
      PROVE  /\ q # <<>> /\ Sequence(q) /\ q \in DOMAIN doc
             /\ ClassOf(sub, q) \in DOMAIN Rows /\ ClassOf(sub, q) # ""
             /\ Len(q) > 1 => Front(q) \in Read(sub, doc)
  <2>1. q \in DOMAIN doc /\ ClassOf(sub, q) # ""
    BY DEF Read
  <2>2. LegibleElement(doc, q)
    BY <2>1 DEF Legible
  <2>3. q # <<>> /\ Sequence(q) /\ (Len(q) > 1 => Front(q) \in DOMAIN doc)
    BY <2>2 DEF LegibleElement
  <2>4. ClassOf(sub, q) \in DOMAIN Rows
    BY <2>1, <2>3, ClassStep DEF Classes
  <2>5. ASSUME Len(q) > 1 PROVE ClassOf(sub, Front(q)) # ""
    <3>1. LegibleElement(doc, Front(q))
      BY <2>3, <2>5 DEF Legible
    <3>2. Front(q) # <<>> /\ Sequence(Front(q))
      BY <3>1 DEF LegibleElement
    <3>3. ClassOf(sub, Front(q)) \in Classes
      BY <3>2, ClassStep
    <3>4. ClassOf(sub, q) = ReaderOf(sub, ClassOf(sub, Front(q)), Tag(q))
      BY <2>3, <2>5, ClassStep
    <3> QED
      BY <2>1, <3>3, <3>4, ReaderClass
  <2> QED
    BY <2>1, <2>3, <2>4, <2>5 DEF Read
<1>2. Prefix(p, n) \in Read(sub, doc)
  BY <1>1, OnTheWay
<1> QED
  BY <1>1, <1>2

-----------------------------------------------------------------------------
(* The parts of an object.  *)

\* The i-th node of an element becomes a part of its object.
PartAt(sub, doc, p, i) ==
    LET nodes == doc[p].nodes
        cls == ClassOf(sub, p)
    IN  /\ i \in Children(nodes, KidTags(cls))
        /\ KidOf(cls, Tag(nodes[i].name)).style \in {"one", "many"}
        /\ KidOf(cls, Tag(nodes[i].name)).style = "one" /\ Row(cls).content = "plain" =>
             \A j \in Children(nodes, {Tag(nodes[i].name)}) : j <= i

\* Some numbers up to a bound have a greatest among them.
LEMMA Greatest ==
  ASSUME NEW l \in Nat, NEW S \in SUBSET (1 .. l), S # {}
  PROVE  \E m \in S : \A n \in S : n <= m
<1>1. PICK T : T = {l - n : n \in S}
  OBVIOUS
<1>2. \A n \in S : n \in Nat /\ l - n \in Nat /\ l - n \in T
  BY <1>1
<1>3. T \in SUBSET Nat /\ T # {}
  <2>1. ASSUME NEW x \in T PROVE x \in Nat
    BY <1>1, <1>2
  <2> QED
    BY <1>2, <2>1
<1>4. PICK m \in T : \A n \in T : m <= n
  BY <1>3, LeastNatural
<1>5. PICK k \in S : m = l - k
  BY <1>1, <1>4
<1>6. ASSUME NEW n \in S PROVE n <= k
  <2>1. l - k <= l - n
    BY <1>2, <1>4, <1>5
  <2> QED
    BY <1>2, <2>1
<1> QED
  BY <1>6

KidParts(nodes, kid) ==
    {nodes[i].name : i \in {j \in Children(nodes, {kid.tag}) :
       kid.style = "one" => \A m \in Children(nodes, {kid.tag}) : m <= j}}

ContentParts(cls, nodes) ==
    {nodes[i].name : i \in {j \in Children(nodes, KidTags(cls)) :
       ~IsText(KidOf(cls, Tag(nodes[j].name)))}}

Complex(content) == {item.name : item \in {i \in ToSet(content) : i.category = "complex"}}

PartsAt(sub, doc, p) ==
    {doc[p].nodes[i].name : i \in {j \in DOMAIN doc[p].nodes : PartAt(sub, doc, p, j)}}

\* The parts a class of the plain kind keeps under one tag.
LEMMA PartsOfKid ==
  ASSUME NEW sub, NEW doc, NEW nodes, Sequence(nodes), NEW kid, kid.style \in {"one", "many"}
  PROVE  ToSet(BuildKid(sub, doc, nodes, kid)) = KidParts(nodes, kid)
<1>1. PICK C, read : C = Children(nodes, {kid.tag}) /\ read = Kept(nodes, C)
  OBVIOUS
<1>2. C \subseteq DOMAIN nodes
  BY <1>1 DEF Children
<1>3. Sequence(read) /\ ToSet(read) = {nodes[i] : i \in C}
  <2>1. DOMAIN nodes \cap C = C
    BY <1>2
  <2> QED
    BY <1>1, <2>1, KeptSequence
<1>4. ~IsText(kid)
  BY DEF IsText
<1>5. CASE kid.style = "many"
  <2>1. BuildKid(sub, doc, nodes, kid) = [i \in DOMAIN read |-> read[i].name]
    BY <1>1, <1>4, <1>5 DEF BuildKid
  <2>2. ToSet(BuildKid(sub, doc, nodes, kid)) = {n.name : n \in ToSet(read)}
    BY <2>1 DEF ToSet
  <2>3. {n.name : n \in ToSet(read)} = {nodes[i].name : i \in C}
    BY <1>3
  <2> QED
    BY <1>1, <1>5, <2>2, <2>3 DEF KidParts
<1>6. CASE kid.style = "one" /\ C = {}
  <2>1. read = <<>>
    BY <1>1, <1>6, NoneKept
  <2>2. BuildKid(sub, doc, nodes, kid) = <<>>
    BY <1>1, <1>6, <2>1 DEF BuildKid, Unset
  <2> QED
    BY <1>1, <1>6, <2>2 DEF ToSet, KidParts
<1>7. CASE kid.style = "one" /\ C # {}
  <2>1. PICK l \in Nat : DOMAIN nodes = 1 .. l
    BY DEF Sequence
  <2>2. PICK m \in C : \A n \in C : n <= m
    BY <1>2, <1>7, <2>1, Greatest
  <2>3. Last(read) = nodes[m]
    BY <1>1, <1>2, <2>2, LastKept
  <2>4. read # <<>>
    BY <1>1, <1>2, <1>7, NoneKept
  <2>5. BuildKid(sub, doc, nodes, kid) = <<nodes[m].name>>
    BY <1>1, <1>4, <1>7, <2>3, <2>4 DEF BuildKid
  <2>6. ToSet(BuildKid(sub, doc, nodes, kid)) = {nodes[m].name}
    BY <2>5 DEF ToSet
  <2>7. {j \in C : \A n \in C : n <= j} = {m}
    BY <1>2, <2>1, <2>2
  <2> QED
    BY <1>1, <1>7, <2>6, <2>7 DEF KidParts
<1> QED
  BY <1>5, <1>6, <1>7

\* The parts a class of the mixed kind keeps.
LEMMA PartsOfContent ==
  ASSUME NEW cls, NEW doc, NEW nodes, Sequence(nodes)
  PROVE  Complex(BuildContent(cls, doc, nodes)) = ContentParts(cls, nodes)
<1>1. PICK C, read : /\ C = Characters(nodes, {"text"}) \cup Children(nodes, KidTags(cls))
                     /\ read = Kept(nodes, C)
  OBVIOUS
<1>2. C \subseteq DOMAIN nodes
  BY <1>1 DEF Children, Characters
<1>3. Sequence(read) /\ ToSet(read) = {nodes[i] : i \in C}
  <2>1. DOMAIN nodes \cap C = C
    BY <1>2
  <2> QED
    BY <1>1, <2>1, KeptSequence
<1>4. BuildContent(cls, doc, nodes) = [i \in DOMAIN read |-> BuildItem(cls, doc, read[i])]
  BY <1>1 DEF BuildContent
<1>5. ToSet(BuildContent(cls, doc, nodes)) = {BuildItem(cls, doc, n) : n \in ToSet(read)}
  BY <1>4 DEF ToSet
<1>6. ToSet(BuildContent(cls, doc, nodes)) = {BuildItem(cls, doc, nodes[i]) : i \in C}
  BY <1>3, <1>5
<1>7. ASSUME NEW i \in C
      PROVE  /\ BuildItem(cls, doc, nodes[i]).category = "complex" <=>
                  i \in Children(nodes, KidTags(cls)) /\ ~IsText(KidOf(cls, Tag(nodes[i].name)))
             /\ BuildItem(cls, doc, nodes[i]).category = "complex" =>
                  BuildItem(cls, doc, nodes[i]).name = nodes[i].name
  <2>1. CASE nodes[i].type = "text"
    BY <2>1 DEF BuildItem, TextItem, Item, Children
  <2>2. CASE nodes[i].type # "text"
    <3>1. i \in Children(nodes, KidTags(cls))
      BY <1>1, <2>2 DEF Characters
    <3> QED
      BY <2>2, <3>1 DEF BuildItem, Item
  <2> QED
    BY <2>1, <2>2
<1>8. Children(nodes, KidTags(cls)) \subseteq C
  BY <1>1
<1> QED
  BY <1>6, <1>7, <1>8 DEF Complex, ContentParts

\* The parts of an object.
LEMMA PartsOfObject ==
  ASSUME NEW sub, NEW doc, Legible(doc), NEW p \in Read(sub, doc)
  PROVE  Parts(Build(sub, doc, p)) = PartsAt(sub, doc, p)
<1>1. PICK obj, cls, nodes : obj = Build(sub, doc, p) /\ cls = ClassOf(sub, p) /\ nodes = doc[p].nodes
  OBVIOUS
<1>2. p \in DOMAIN doc /\ cls # "" /\ Sequence(p) /\ p # <<>> /\ Sequence(nodes)
  <2>1. p \in DOMAIN doc /\ cls # ""
    BY <1>1 DEF Read
  <2>2. LegibleElement(doc, p)
    BY <2>1 DEF Legible
  <2> QED
    BY <1>1, <2>1, <2>2 DEF LegibleElement
<1>3. cls \in DOMAIN Rows
  BY <1>1, <1>2, ClassStep DEF Classes
<1>4. /\ obj.cls = cls
      /\ obj.kids = [t \in (IF Row(cls).content = "mixed" THEN {} ELSE KidTags(cls)) |->
                       BuildKid(sub, doc, nodes, KidOf(cls, t))]
      /\ obj.content = IF Row(cls).content \in {"mixed", "mixedvalue"}
                       THEN BuildContent(cls, doc, nodes) ELSE <<>>
  BY <1>1 DEF Build
<1>5. PICK K : K = {j \in KidsOf(cls) : j.tag \in DOMAIN obj.kids /\ j.style \in {"one", "many"}}
  OBVIOUS
<1>6. Parts(obj) = (UNION {ToSet(obj.kids[k.tag]) : k \in K}) \cup Complex(obj.content)
  BY <1>4, <1>5 DEF Parts, Complex
<1>7. \A k \in KidsOf(cls) : k.tag \in KidTags(cls) /\ KidOf(cls, k.tag) = k
  BY <1>3, KidOfKid
<1>8. \A t \in KidTags(cls) : KidOf(cls, t) \in KidsOf(cls) /\ KidOf(cls, t).tag = t
  BY KidOfTag
<1>9. CASE Row(cls).content = "plain"
  <2>1. ToSet(obj.content) = {}
    BY <1>4, <1>9, OneSequence
  <2>2. K = {k \in KidsOf(cls) : k.style \in {"one", "many"}}
    BY <1>4, <1>5, <1>7, <1>9
  <2>3. ASSUME NEW k \in K
        PROVE  ToSet(obj.kids[k.tag]) = KidParts(nodes, k)
    <3>1. k.style \in {"one", "many"} /\ obj.kids[k.tag] = BuildKid(sub, doc, nodes, k)
      BY <1>4, <1>7, <1>9, <2>2
    <3>2. k.style \in {"one", "many"}
      BY <3>1
    <3>3. Sequence(nodes)
      BY <1>2
    <3>4. ToSet(BuildKid(sub, doc, nodes, k)) = KidParts(nodes, k)
      BY ONLY <3>2, <3>3, PartsOfKid
    <3> QED
      BY <3>1, <3>4
  <2>4. ASSUME NEW i \in DOMAIN nodes
        PROVE  PartAt(sub, doc, p, i) <=>
                 \E k \in K : /\ i \in Children(nodes, {k.tag})
                              /\ k.style = "one" => \A m \in Children(nodes, {k.tag}) : m <= i
    <3>1. ASSUME NEW k \in K, i \in Children(nodes, {k.tag})
          PROVE  i \in Children(nodes, KidTags(cls)) /\ KidOf(cls, Tag(nodes[i].name)) = k
                 /\ Tag(nodes[i].name) = k.tag
      BY <1>7, <2>2, <3>1 DEF Children
    <3>2. ASSUME i \in Children(nodes, KidTags(cls)),
                 KidOf(cls, Tag(nodes[i].name)).style \in {"one", "many"}
          PROVE  /\ KidOf(cls, Tag(nodes[i].name)) \in K
                 /\ i \in Children(nodes, {KidOf(cls, Tag(nodes[i].name)).tag})
                 /\ KidOf(cls, Tag(nodes[i].name)).tag = Tag(nodes[i].name)
      BY <1>8, <2>2, <3>2 DEF Children
    <3> QED
      BY <1>1, <1>9, <2>2, <3>1, <3>2 DEF PartAt
  <2>5. Parts(obj) = UNION {ToSet(obj.kids[k.tag]) : k \in K}
    BY <1>6, <2>1 DEF Complex
  <2>6. ASSUME NEW x
        PROVE  x \in Parts(obj) <=> \E i \in DOMAIN nodes : PartAt(sub, doc, p, i) /\ x = nodes[i].name
    <3>1. x \in Parts(obj) <=>
            \E k \in K : \E i \in Children(nodes, {k.tag}) :
               x = nodes[i].name /\ (k.style = "one" => \A m \in Children(nodes, {k.tag}) : m <= i)
      BY <2>3, <2>5 DEF KidParts
    <3>2. \A t : Children(nodes, t) \subseteq DOMAIN nodes
      BY DEF Children
    <3> QED
      BY <2>4, <3>1, <3>2
  <2> QED
    BY <1>1, <2>6 DEF PartsAt
<1>10. CASE Row(cls).content # "plain"
  <2>1. ASSUME NEW k \in KidsOf(cls) PROVE Row(cls).content = "mixed" /\ (~IsText(k) <=> k.style \in {"one", "many"})
    BY <1>3, <1>10, KidFields DEF IsText
  <2>2. K = {}
    BY <1>4, <1>5, <2>1
  <2>4. Complex(obj.content) = ContentParts(cls, nodes)
    <3>1. CASE Row(cls).content \in {"mixed", "mixedvalue"}
      <4>1. Complex(BuildContent(cls, doc, nodes)) = ContentParts(cls, nodes)
        BY <1>2, PartsOfContent
      <4> QED
        BY <1>4, <3>1, <4>1
    <3>2. CASE Row(cls).content \notin {"mixed", "mixedvalue"}
      <4>1. KidTags(cls) = {}
        BY <2>1, <3>2 DEF KidTags
      <4>2. ContentParts(cls, nodes) = {}
        BY <4>1 DEF Children, ContentParts
      <4>3. ToSet(obj.content) = {}
        BY <1>4, <3>2, OneSequence
      <4> QED
        BY <4>2, <4>3 DEF Complex
    <3> QED
      BY <3>1, <3>2
  <2>5. Parts(obj) = ContentParts(cls, nodes)
    <3>1. {ToSet(obj.kids[k.tag]) : k \in K} = {}
      BY <2>2
    <3> QED
      BY <1>6, <2>4, <3>1
  <2>6. ASSUME NEW i \in DOMAIN nodes
        PROVE  PartAt(sub, doc, p, i) <=>
                 i \in Children(nodes, KidTags(cls)) /\ ~IsText(KidOf(cls, Tag(nodes[i].name)))
    <3>1. ASSUME i \in Children(nodes, KidTags(cls))
          PROVE  KidOf(cls, Tag(nodes[i].name)) \in KidsOf(cls)
      BY <1>8, <3>1 DEF Children
    <3> QED
      BY <1>1, <1>10, <2>1, <3>1 DEF PartAt
  <2>7. \A t : Children(nodes, t) \subseteq DOMAIN nodes
    BY DEF Children
  <2> QED
    BY <1>1, <2>5, <2>6, <2>7 DEF ContentParts, PartsAt
<1> QED
  BY <1>9, <1>10

\* A part is an element of its own that is read, one step further.
LEMMA PartIsRead ==
  ASSUME NEW sub, NEW doc, Legible(doc), NEW p \in Read(sub, doc), NEW x \in PartsAt(sub, doc, p)
  PROVE  /\ x \in Read(sub, doc) /\ Front(x) = p /\ Len(x) = Len(p) + 1
         /\ ClassOf(sub, x) = KidOf(ClassOf(sub, p), Tag(x)).cls
<1>1. p \in DOMAIN doc /\ ClassOf(sub, p) # ""
  BY DEF Read
<1>2. LegibleElement(doc, p)
  BY <1>1 DEF Legible
<1>3. Sequence(p) /\ p # <<>> /\ \A i \in DOMAIN doc[p].nodes : LegibleNode(doc, p, doc[p].nodes[i])
  BY <1>2 DEF LegibleElement
<1>4. PICK i \in DOMAIN doc[p].nodes : PartAt(sub, doc, p, i) /\ x = doc[p].nodes[i].name
  BY DEF PartsAt
<1>5. PICK cls : cls = ClassOf(sub, p)
  OBVIOUS
<1>6. /\ doc[p].nodes[i].type = "element" /\ Tag(x) \in KidTags(cls)
      /\ KidOf(cls, Tag(x)).style \in {"one", "many"}
  BY <1>4, <1>5 DEF PartAt, Children
<1>7. x \in DOMAIN doc /\ x = Append(p, Last(x))
  BY <1>3, <1>4, <1>6 DEF LegibleNode
<1>8. PICK e : e = Last(x)
  OBVIOUS
<1>9. Sequence(x) /\ x # <<>> /\ Len(x) = Len(p) + 1 /\ Front(x) = p
  <2>1. x = Append(p, e)
    BY <1>7, <1>8
  <2> QED
    BY <1>3, <2>1, AppendFields
<1>10. Len(x) > 1
  <2>1. Len(p) \in Nat /\ Len(p) # 0
    BY <1>3 DEF Sequence
  <2> QED
    BY <1>9, <2>1
<1>11. cls \in DOMAIN Rows
  BY <1>1, <1>3, <1>5, ClassStep DEF Classes
<1>12. KidOf(cls, Tag(x)) \in KidsOf(cls)
  BY <1>6, KidOfTag
<1>13. KidOf(cls, Tag(x)).cls # ""
  <2>1. ~IsText(KidOf(cls, Tag(x)))
    BY <1>6 DEF IsText
  <2> QED
    BY <1>11, <1>12, <2>1, KidFields
<1>14. ClassOf(sub, x) = KidOf(cls, Tag(x)).cls
  <2>1. ClassOf(sub, x) = ReaderOf(sub, cls, Tag(x))
    BY <1>5, <1>9, <1>10, ClassStep
  <2> QED
    BY <1>1, <1>5, <1>6, <2>1 DEF ReaderOf
<1> QED
  BY <1>5, <1>7, <1>9, <1>13, <1>14 DEF Read

\* The elements whose objects are written when the root is.
PrintedOf(sub, doc) ==
    {p \in DOMAIN doc :
       \A n \in 1 .. Len(p) - 1 : Prefix(p, n + 1) \in PartsAt(sub, doc, Prefix(p, n))}

LEMMA PrintedIsRead ==
  ASSUME NEW sub, NEW doc, Legible(doc), NEW p \in PrintedOf(sub, doc)
  PROVE  p \in Read(sub, doc)
<1>1. LegibleElement(doc, p) /\ p \in DOMAIN doc
  BY DEF Legible, PrintedOf
<1>2. Sequence(p) /\ p # <<>>
  BY <1>1 DEF LegibleElement
<1>3. PICK l \in Nat : l = Len(p) /\ l > 0
  BY <1>2 DEF Sequence
<1>4. \A n \in 1 .. l : Prefix(p, n) \in DOMAIN doc
  <2>1. \A q \in DOMAIN doc : q # <<>> /\ Sequence(q) /\ (Len(q) > 1 => Front(q) \in DOMAIN doc)
    BY DEF Legible, LegibleElement
  <2> QED
    BY <1>1, <1>3, <2>1, OnTheWay
<1> DEFINE T == {n \in Nat : n \in 1 .. l => Prefix(p, n) \in Read(sub, doc)}
<1>5. 0 \in T
  OBVIOUS
<1>6. ASSUME NEW n \in Nat, n \in T PROVE n + 1 \in T
  <2> SUFFICES ASSUME n + 1 \in 1 .. l PROVE Prefix(p, n + 1) \in Read(sub, doc)
    OBVIOUS
  <2>1. CASE n = 0
    <3>1. 1 \in 1 .. l /\ n + 1 = 1
      BY <1>3, <2>1
    <3>2. PICK q : q = Prefix(p, 1)
      OBVIOUS
    <3>3. Sequence(q) /\ q # <<>> /\ Len(q) = 1
      BY <1>2, <1>3, <3>1, <3>2, PrefixFields
    <3>4. ClassOf(sub, q) # ""
      BY <3>3, ClassStep
    <3>5. q \in DOMAIN doc
      BY <1>4, <3>1, <3>2
    <3> QED
      BY <3>1, <3>2, <3>4, <3>5 DEF Read
  <2>2. CASE n # 0
    <3>1. n \in 1 .. l - 1 /\ Prefix(p, n) \in Read(sub, doc)
      BY <1>6, <2>2
    <3>2. Prefix(p, n + 1) \in PartsAt(sub, doc, Prefix(p, n))
      BY <1>3, <3>1 DEF PrintedOf
    <3> QED
      BY <3>1, <3>2, PartIsRead
  <2> QED
    BY <2>1, <2>2
<1> HIDE DEF T
<1>7. Nat \subseteq T
  BY <1>5, <1>6, Induction
<1>8. l \in 1 .. l /\ Prefix(p, l) = p
  BY <1>2, <1>3, PrefixOfPrefix
<1> QED
  BY <1>7, <1>8 DEF T

LEMMA PrintedIsWithin ==
  ASSUME NEW sub, NEW doc, Legible(doc)
  PROVE  /\ Within(BuildAll(sub, doc)) = PrintedOf(sub, doc)
         /\ PrintedOf(sub, doc) \subseteq Read(sub, doc)
<1>1. PICK all : all = BuildAll(sub, doc)
  OBVIOUS
<1>2. DOMAIN all = Read(sub, doc) /\ \A p \in Read(sub, doc) : all[p] = Build(sub, doc, p)
  BY <1>1 DEF BuildAll
<1>3. Within(all) = {p \in DOMAIN all :
        \A n \in 1 .. Len(p) - 1 : Prefix(p, n + 1) \in Parts(all[Prefix(p, n)])}
  BY DEF Within
<1>4. ASSUME NEW p \in Read(sub, doc)
      PROVE  (\A n \in 1 .. Len(p) - 1 : Prefix(p, n + 1) \in Parts(all[Prefix(p, n)])) <=>
             p \in PrintedOf(sub, doc)
  <2>1. p \in DOMAIN doc
    BY DEF Read
  <2>2. ASSUME NEW n \in 1 .. Len(p) - 1
        PROVE  Parts(all[Prefix(p, n)]) = PartsAt(sub, doc, Prefix(p, n))
    <3>1. n \in 1 .. Len(p)
      <4>1. LegibleElement(doc, p)
        BY <2>1 DEF Legible
      <4>2. Len(p) \in Nat
        BY <4>1 DEF LegibleElement, Sequence
      <4> QED
        BY <4>2
    <3>2. Prefix(p, n) \in Read(sub, doc)
      BY <3>1, ReadOnTheWay
    <3>3. PICK q : q = Prefix(p, n)
      OBVIOUS
    <3> QED
      BY <1>2, <3>2, <3>3, PartsOfObject
  <2> QED
    BY <2>1, <2>2 DEF PrintedOf
<1>5. PrintedOf(sub, doc) \subseteq Read(sub, doc)
  BY PrintedIsRead
<1>6. ASSUME NEW p PROVE p \in Within(all) <=> p \in PrintedOf(sub, doc)
  BY <1>2, <1>3, <1>4, <1>5
<1> QED
  BY <1>1, <1>5, <1>6

\* What a printed element is: one that is read, under one that is printed.
LEMMA PrintedFields ==
  ASSUME NEW sub, NEW doc, Legible(doc), NEW p \in PrintedOf(sub, doc)
  PROVE  /\ p \in Read(sub, doc) /\ p \in DOMAIN doc /\ LegibleElement(doc, p)
         /\ ClassOf(sub, p) \in DOMAIN Rows /\ ClassOf(sub, p) # ""
<1>1. p \in Read(sub, doc)
  BY PrintedIsRead
<1>2. p \in DOMAIN doc /\ ClassOf(sub, p) # ""
  BY <1>1 DEF Read
<1>3. LegibleElement(doc, p)
  BY <1>2 DEF Legible
<1>4. ClassOf(sub, p) \in DOMAIN Rows
  BY <1>2, <1>3, ClassStep DEF LegibleElement, Classes
<1> QED
  BY <1>1, <1>2, <1>3, <1>4

\* The model's words for it.
LEMMA PrintedHere ==
  Printed = PrintedOf(subclassed, dom)
<1>1. \A p, i : IsPrinted(p, i) <=> PartAt(subclassed, dom, p, i)
  BY DEF IsPrinted, PartAt, Class
<1>2. \A p : PartsAt(subclassed, dom, p) =
               {dom[p].nodes[i].name : i \in {j \in DOMAIN dom[p].nodes : IsPrinted(p, j)}}
  BY <1>1 DEF PartsAt
<1>3. ASSUME NEW p, NEW x
      PROVE  x \in PartsAt(subclassed, dom, p) <=>
             \E i \in DOMAIN dom[p].nodes : IsPrinted(p, i) /\ dom[p].nodes[i].name = x
  BY <1>2
<1>4. ASSUME NEW p \in DOMAIN dom
      PROVE  p \in Printed <=> p \in PrintedOf(subclassed, dom)
  BY <1>3 DEF Printed, PrintedOf
<1>5. Printed \subseteq DOMAIN dom /\ PrintedOf(subclassed, dom) \subseteq DOMAIN dom
  BY DEF Printed, PrintedOf
<1> QED
  BY <1>4, <1>5

-----------------------------------------------------------------------------
(* What is written.  *)

\* A token that is escaped is not bare, and comes back.
LEMMA QuoteFields ==
  ASSUME NEW t, Escaped(t)
  PROVE  Escaped(Quote(t)) /\ ~Bare(Quote(t)) /\ Unquote(Quote(t)) = t
<1>1. CASE t.kind = "markup"
  <2>1. PICK n \in Nat : n = t.esc
    BY DEF Escaped
  <2>2. t = [kind |-> "markup", esc |-> n]
    BY <1>1, <2>1 DEF Escaped
  <2>3. Quote(t) = [kind |-> "markup", esc |-> n + 1]
    BY <2>2 DEF Quote
  <2>4. Unquote([kind |-> "markup", esc |-> n + 1]) = [kind |-> "markup", esc |-> n]
    <3>1. n + 1 - 1 = n
      OBVIOUS
    <3> QED
      BY <3>1 DEF Unquote
  <2> QED
    BY <2>2, <2>3, <2>4 DEF Escaped, Bare
<1>2. CASE t.kind # "markup"
  BY <1>2 DEF Quote, Unquote, Bare
<1> QED
  BY <1>1, <1>2

LEMMA TokenFields ==
  ASSUME NEW kind
  PROVE  Escaped(Token(kind)) /\ Token(kind).kind = kind
BY DEF Token, Escaped

\* The texts that can be written and read back.
IsWords(text) == Sequence(text) /\ \A t \in ToSet(text) : Escaped(t)

\* The text of an element.
LEMMA NodeTextFields ==
  ASSUME NEW doc, NEW p, LegibleElement(doc, p)
  PROVE  IsWords(NodeText(doc[p]))
<1>1. PICK nodes, C, read : /\ nodes = doc[p].nodes /\ C = Characters(nodes, {"text", "cdata"})
                            /\ read = Kept(nodes, C)
  OBVIOUS
<1>2. Sequence(nodes)
  BY <1>1 DEF LegibleElement
<1>3. Sequence(read) /\ ToSet(read) = {nodes[i] : i \in DOMAIN nodes \cap C}
  BY <1>1, <1>2, KeptSequence
<1>4. NodeText(doc[p]) = [i \in DOMAIN read |-> read[i].token]
  BY <1>1 DEF NodeText
<1>5. Sequence(NodeText(doc[p]))
  BY <1>3, <1>4, FunctionSequence
<1>6. ToSet(NodeText(doc[p])) = {n.token : n \in ToSet(read)}
  BY <1>4 DEF ToSet
<1>7. ASSUME NEW i \in C PROVE Escaped(nodes[i].token)
  <2>1. i \in DOMAIN nodes /\ nodes[i].type \in {"text", "cdata"}
    BY <1>1 DEF Characters
  <2>2. LegibleNode(doc, p, nodes[i])
    BY <1>1, <2>1 DEF LegibleElement
  <2> QED
    BY <2>1, <2>2 DEF LegibleNode
<1> QED
  BY <1>3, <1>5, <1>6, <1>7 DEF IsWords

\* Texts escaped have nothing bare in them.
LEMMA QuoteXmlFields ==
  ASSUME NEW text, IsWords(text)
  PROVE  IsWords(quote_xml(text)) /\ \A t \in ToSet(quote_xml(text)) : ~Bare(t)
<1>1. quote_xml(text) = [i \in DOMAIN text |-> Quote(text[i])]
  BY DEF quote_xml
<1>2. Sequence(quote_xml(text))
  BY <1>1, FunctionSequence DEF IsWords
<1>3. ToSet(quote_xml(text)) = {Quote(t) : t \in ToSet(text)}
  BY <1>1 DEF ToSet
<1> QED
  BY <1>2, <1>3, QuoteFields DEF IsWords

LEMMA AsBytesFields ==
  ASSUME NEW text, IsWords(text)
  PROVE  /\ IsWords(AsBytes(text))
         /\ ToSet(AsBytes(text)) = {Token("b'")} \cup ToSet(text) \cup {Token("'")}
<1>1. PICK a, b, c : a = <<Token("b'")>> /\ b = a \o text /\ c = <<Token("'")>>
  OBVIOUS
<1>2. Sequence(a) /\ Sequence(c) /\ ToSet(a) = {Token("b'")} /\ ToSet(c) = {Token("'")}
  BY <1>1, OneSequence
<1>3. Sequence(b) /\ ToSet(b) = ToSet(a) \cup ToSet(text)
  BY <1>1, <1>2, JoinedSequence DEF IsWords
<1>4. Sequence(b \o c) /\ ToSet(b \o c) = ToSet(b) \cup ToSet(c)
  BY <1>2, <1>3, JoinedSequence
<1>5. AsBytes(text) = b \o c
  BY <1>1 DEF AsBytes
<1> QED
  BY <1>2, <1>3, <1>4, <1>5, TokenFields DEF IsWords

\* A child that was written as a text is no markup, whatever the text.
LEMMA ExportTextFields ==
  ASSUME NEW tag, NEW text, IsWords(text)
  PROVE  /\ ExportText(tag, text) = TextChild(tag, AsBytes(quote_xml(text)))
         /\ IsWords(AsBytes(quote_xml(text)))
         /\ \A t \in ToSet(AsBytes(quote_xml(text))) : ~Bare(t)
<1>1. IsWords(quote_xml(text)) /\ \A t \in ToSet(quote_xml(text)) : ~Bare(t)
  BY QuoteXmlFields
<1>2. /\ IsWords(AsBytes(quote_xml(text)))
      /\ ToSet(AsBytes(quote_xml(text))) = {Token("b'")} \cup ToSet(quote_xml(text)) \cup {Token("'")}
  BY <1>1, AsBytesFields
<1>3. ~Bare(Token("b'")) /\ ~Bare(Token("'"))
  BY TokenFields DEF Bare
<1> QED
  BY <1>1, <1>2, <1>3 DEF ExportText

\* A child written as a text, and one written by its own object.
IsSimple(n) ==
    /\ n = TextChild(n.tag, n.text) /\ IsWords(n.text)
    /\ \A t \in ToSet(n.text) : ~Bare(t)

IsChild(n, names) == n.name \in names /\ n = Child(n.name)

\* What a title is written as can be read back.
LEMMA ReprFields ==
  ASSUME NEW at
  PROVE  IsWords(Repr(at)) /\ DOMAIN Repr(at) = {1, 2} /\ Repr(at)[2] = Token(at)
<1>1. PICK a, b : a = Token("markup") /\ b = Token(at)
  OBVIOUS
<1>2. PICK text : text = <<a, b>>
  OBVIOUS
<1>3. text \in Seq({a, b}) /\ Len(text) = 2 /\ text[1] = a /\ text[2] = b
  BY <1>2
<1>4. DOMAIN text = {1, 2}
  BY <1>3
<1>5. Sequence(text) /\ ToSet(text) = {a, b}
  BY <1>3, <1>4 DEF Sequence, ToSet
<1>6. Escaped(a) /\ Escaped(b)
  BY <1>1, TokenFields
<1>7. Repr(at) = text
  BY <1>1, <1>2 DEF Repr
<1> QED
  BY <1>1, <1>3, <1>4, <1>5, <1>6, <1>7 DEF IsWords

\* What a class of the plain kind keeps of its children.
LEMMA KidsOfObject ==
  ASSUME NEW sub, NEW doc, Legible(doc), NEW p \in Read(sub, doc), NEW k \in KidsOf(ClassOf(sub, p)),
         Row(ClassOf(sub, p)).content = "plain"
  PROVE  /\ Build(sub, doc, p).kids[k.tag] = BuildKid(sub, doc, doc[p].nodes, k)
         /\ Sequence(Build(sub, doc, p).kids[k.tag])
         /\ IsText(k) => \A t \in ToSet(Build(sub, doc, p).kids[k.tag]) : IsWords(t)
         /\ k.style \in {"one", "many"} =>
              ToSet(Build(sub, doc, p).kids[k.tag]) \subseteq PartsAt(sub, doc, p)
<1>1. PICK cls, nodes, kept : /\ cls = ClassOf(sub, p) /\ nodes = doc[p].nodes
                              /\ kept = Build(sub, doc, p).kids[k.tag]
  OBVIOUS
<1>2. /\ p \in DOMAIN doc /\ LegibleElement(doc, p) /\ Sequence(nodes) /\ Sequence(p) /\ p # <<>>
      /\ cls # "" /\ cls \in DOMAIN Rows
  <2>1. p \in DOMAIN doc /\ cls # ""
    BY <1>1 DEF Read
  <2>2. LegibleElement(doc, p)
    BY <2>1 DEF Legible
  <2> QED
    BY <1>1, <2>1, <2>2, ClassStep DEF LegibleElement, Classes
<1>3. k.tag \in KidTags(cls) /\ KidOf(cls, k.tag) = k
  BY <1>1, <1>2, KidOfKid
<1>4. kept = BuildKid(sub, doc, nodes, k)
  BY <1>1, <1>3 DEF Build
<1>5. PICK C, read : C = Children(nodes, {k.tag}) /\ read = Kept(nodes, C)
  OBVIOUS
<1>6. Sequence(read) /\ ToSet(read) = {nodes[i] : i \in DOMAIN nodes \cap C}
  BY <1>2, <1>5, KeptSequence
<1>7. PICK value : value = [n \in ToSet(read) |-> IF IsText(k) THEN NodeText(doc[n.name]) ELSE n.name]
  OBVIOUS
<1>8. \/ kept = [i \in DOMAIN read |-> value[read[i]]]
      \/ kept = <<>>
      \/ IsText(k) /\ kept = << <<>> >>
      \/ Last(read) \in ToSet(read) /\ kept = <<value[Last(read)]>>
  <2>1. \A i \in DOMAIN read : read[i] \in ToSet(read)
    BY DEF ToSet
  <2>2. CASE k.style \in {"many", "texts"}
    <3>1. kept = [i \in DOMAIN read |-> IF IsText(k) THEN NodeText(doc[read[i].name]) ELSE read[i].name]
      BY <1>4, <1>5, <2>2 DEF BuildKid
    <3> QED
      BY <1>7, <2>1, <3>1
  <2>3. CASE k.style \notin {"many", "texts"} /\ read = <<>>
    BY <1>4, <1>5, <2>3 DEF BuildKid, Unset, IsText
  <2>4. CASE k.style \notin {"many", "texts"} /\ read # <<>>
    <3>1. Last(read) \in ToSet(read)
      <4>1. PICK l \in Nat : l = Len(read) /\ DOMAIN read = 1 .. l /\ l # 0
        BY <1>6, <2>4 DEF Sequence
      <4> QED
        BY <2>1, <4>1 DEF Last
    <3>2. kept = <<IF IsText(k) THEN NodeText(doc[Last(read).name]) ELSE Last(read).name>>
      BY <1>4, <1>5, <2>4 DEF BuildKid
    <3> QED
      BY <1>7, <3>1, <3>2
  <2> QED
    BY <2>2, <2>3, <2>4
<1>9. /\ Sequence(kept)
      /\ ToSet(kept) \subseteq {value[n] : n \in ToSet(read)} \cup (IF IsText(k) THEN {<<>>} ELSE {})
  <2>1. CASE kept = [i \in DOMAIN read |-> value[read[i]]]
    <3>1. Sequence(kept)
      BY <1>6, <2>1, FunctionSequence
    <3> QED
      BY <2>1, <3>1 DEF ToSet
  <2>2. CASE kept = <<>>
    BY <2>2, OneSequence
  <2>3. CASE IsText(k) /\ kept = << <<>> >>
    BY <2>3, OneSequence
  <2>4. CASE Last(read) \in ToSet(read) /\ kept = <<value[Last(read)]>>
    BY <2>4, OneSequence
  <2> QED
    BY <1>8, <2>1, <2>2, <2>3, <2>4
<1>10. ASSUME IsText(k), NEW t \in ToSet(kept) PROVE IsWords(t)
  <2>1. CASE t = <<>>
    BY <2>1, OneSequence DEF IsWords
  <2>2. CASE t # <<>>
    <3>1. PICK n \in ToSet(read) : t = NodeText(doc[n.name])
      BY <1>7, <1>9, <1>10, <2>2
    <3>2. PICK i \in DOMAIN nodes : i \in C /\ n = nodes[i]
      BY <1>6
    <3>3. n.type = "element"
      BY <1>5, <3>2 DEF Children
    <3>4. LegibleNode(doc, p, n)
      BY <1>1, <1>2, <3>2 DEF LegibleElement
    <3>5. n.name \in DOMAIN doc
      BY <3>3, <3>4 DEF LegibleNode
    <3>6. LegibleElement(doc, n.name)
      BY <3>5 DEF Legible
    <3> QED
      BY <3>1, <3>6, NodeTextFields
  <2> QED
    BY <2>1, <2>2
<1>11. ASSUME k.style \in {"one", "many"} PROVE ToSet(kept) \subseteq PartsAt(sub, doc, p)
  <2>1. Parts(Build(sub, doc, p)) = PartsAt(sub, doc, p)
    BY PartsOfObject
  <2>2. k.tag \in DOMAIN Build(sub, doc, p).kids /\ Build(sub, doc, p).cls = cls
    BY <1>1, <1>3 DEF Build
  <2>3. k \in {j \in KidsOf(cls) : j.tag \in DOMAIN Build(sub, doc, p).kids /\ j.style \in {"one", "many"}}
    BY <1>1, <1>11, <2>2
  <2> QED
    BY <1>1, <2>1, <2>2, <2>3 DEF Parts
<1> QED
  BY <1>1, <1>4, <1>9, <1>10, <1>11

\* What each child is written as.
LEMMA ExportKidFields ==
  ASSUME NEW sub \in BOOLEAN, NEW doc, NEW at, Legible(doc), NEW p \in Read(sub, doc),
         NEW k \in KidsOf(ClassOf(sub, p)), Row(ClassOf(sub, p)).content = "plain"
  PROVE  /\ Sequence(ExportKid(Build(sub, doc, p), k, at))
         /\ \A n \in ToSet(ExportKid(Build(sub, doc, p), k, at)) :
              IsSimple(n) \/ IsChild(n, PartsAt(sub, doc, p))
<1>1. PICK cls, obj, kept, w : /\ cls = ClassOf(sub, p) /\ obj = Build(sub, doc, p)
                               /\ kept = obj.kids[k.tag] /\ w = ExportKid(obj, k, at)
  OBVIOUS
<1>2. /\ Sequence(kept) /\ (IsText(k) => \A t \in ToSet(kept) : IsWords(t))
      /\ k.style \in {"one", "many"} => ToSet(kept) \subseteq PartsAt(sub, doc, p)
  BY <1>1, KidsOfObject
<1>3. ASSUME NEW text, IsWords(text) PROVE IsSimple(ExportText(k.tag, text))
  BY <1>3, ExportTextFields DEF IsSimple, TextChild
<1>4. CASE IsText(k)
  <2>1. w = [i \in DOMAIN kept |-> ExportText(k.tag, kept[i])]
    BY <1>1, <1>4 DEF ExportKid
  <2>2. Sequence(w)
    BY <1>2, <2>1, FunctionSequence
  <2>3. ToSet(w) = {ExportText(k.tag, t) : t \in ToSet(kept)}
    BY <2>1 DEF ToSet
  <2> QED
    BY <1>1, <1>2, <1>3, <1>4, <2>2, <2>3
<1>5. CASE ~IsText(k) /\ k.style = "titled"
  <2>1. w = ExportTitle(obj, k.tag, at)
    BY <1>1, <1>5 DEF ExportKid
  <2>2. IsWords(<<>>) /\ IsWords(Repr(at))
    BY OneSequence, ReprFields DEF IsWords
  <2>3. PICK a, b : /\ a = ExportText(k.tag, Repr(at)) /\ b = ExportText(k.tag, <<>>)
                    /\ IsSimple(a) /\ IsSimple(b)
    BY <1>3, <2>2
  <2>4. w = <<a>> \/ w = <<b>> \/ w = <<>>
    BY <2>1, <2>3 DEF ExportTitle
  <2>5. /\ Sequence(<<a>>) /\ ToSet(<<a>>) = {a} /\ Sequence(<<b>>) /\ ToSet(<<b>>) = {b}
        /\ Sequence(<<>>) /\ ToSet(<<>>) = {}
    BY OneSequence
  <2>6. Sequence(w) /\ \A n \in ToSet(w) : IsSimple(n)
    BY <2>3, <2>4, <2>5
  <2> QED
    BY <1>1, <2>6
<1>6. CASE ~IsText(k) /\ k.style # "titled"
  <2>1. w = [i \in DOMAIN kept |-> Child(kept[i])]
    BY <1>1, <1>6 DEF ExportKid
  <2>2. Sequence(w)
    BY <1>2, <2>1, FunctionSequence
  <2>3. ToSet(w) = {Child(x) : x \in ToSet(kept)}
    BY <2>1 DEF ToSet
  <2>4. cls \in DOMAIN Rows
    <3>1. p \in DOMAIN doc /\ cls # ""
      BY <1>1 DEF Read
    <3>2. Sequence(p) /\ p # <<>>
      BY <3>1 DEF Legible, LegibleElement
    <3> QED
      BY <1>1, <3>1, <3>2, ClassStep DEF Classes
  <2>5. k.style \in {"one", "many"}
    BY <1>1, <1>6, <2>4, KidFields DEF IsText
  <2>6. ASSUME NEW x \in PartsAt(sub, doc, p) PROVE IsChild(Child(x), PartsAt(sub, doc, p))
    BY DEF IsChild, Child
  <2> QED
    BY <1>1, <1>2, <2>2, <2>3, <2>5, <2>6
<1> QED
  BY <1>4, <1>5, <1>6

\* What an object of the plain kind writes between its tags.
LEMMA PlainChildren ==
  ASSUME NEW sub \in BOOLEAN, NEW doc, NEW at, Legible(doc), NEW p \in Read(sub, doc),
         Row(ClassOf(sub, p)).content = "plain"
  PROVE  /\ Sequence(exportChildren(Build(sub, doc, p), at))
         /\ \A n \in ToSet(exportChildren(Build(sub, doc, p), at)) :
              IsSimple(n) \/ IsChild(n, PartsAt(sub, doc, p))
<1>1. PICK cls, obj, kids, ss :
        /\ cls = ClassOf(sub, p) /\ obj = Build(sub, doc, p) /\ kids = Row(cls).kids
        /\ ss = [i \in DOMAIN kids |-> ExportKid(obj, kids[i], at)]
  OBVIOUS
<1>2. exportChildren(obj, at) = Concat(ss)
  BY <1>1 DEF exportChildren, Build
<1>3. Sequence(kids) /\ \A i \in DOMAIN kids : kids[i] \in KidsOf(cls)
  <2>1. cls \in DOMAIN Rows
    <3>1. p \in DOMAIN doc /\ cls # ""
      BY <1>1 DEF Read
    <3>2. Sequence(p) /\ p # <<>>
      BY <3>1 DEF Legible, LegibleElement
    <3> QED
      BY <1>1, <3>1, <3>2, ClassStep DEF Classes
  <2>2. IsRow(Row(cls))
    BY <2>1, SchemaAssumption
  <2> QED
    BY <1>1, <2>2 DEF IsRow, KidsOf, ToSet
<1>4. ASSUME NEW i \in DOMAIN kids
      PROVE  /\ ss[i] = ExportKid(obj, kids[i], at) /\ Sequence(ss[i])
             /\ \A n \in ToSet(ss[i]) : IsSimple(n) \/ IsChild(n, PartsAt(sub, doc, p))
  <2>1. ss[i] = ExportKid(obj, kids[i], at)
    BY <1>1
  <2>2. PICK k \in KidsOf(cls) : k = kids[i]
    BY <1>3
  <2>3. /\ Sequence(ExportKid(obj, k, at))
        /\ \A n \in ToSet(ExportKid(obj, k, at)) : IsSimple(n) \/ IsChild(n, PartsAt(sub, doc, p))
    BY <1>1, <2>2, ExportKidFields
  <2> QED
    BY <2>1, <2>2, <2>3
<1>5. PICK S : S = UNION {ToSet(ss[i]) : i \in DOMAIN kids}
  OBVIOUS
<1>6. ss \in Seq(Seq(S))
  <2>1. ASSUME NEW i \in DOMAIN kids PROVE ss[i] \in Seq(S)
    <3>1. ToSet(ss[i]) \subseteq S
      BY <1>5
    <3> QED
      BY <1>4, <3>1, SuperSequence DEF Sequence
  <2>2. PICK l \in Nat : DOMAIN kids = 1 .. l
    BY <1>3 DEF Sequence
  <2>3. ss \in [1 .. l -> Seq(S)]
    <3>1. \A i \in 1 .. l : ss[i] \in Seq(S)
      BY <2>1, <2>2
    <3>2. ss = [i \in 1 .. l |-> ss[i]]
      BY <1>1, <2>2
    <3> QED
      BY <3>1, <3>2
  <2> QED
    BY <2>3, SeqDef
<1>7. Concat(ss) \in Seq(S) /\ ToSet(Concat(ss)) = UNION {ToSet(ss[i]) : i \in DOMAIN ss}
  BY <1>6, ConcatElements
<1>8. Sequence(Concat(ss)) /\ DOMAIN ss = DOMAIN kids
  BY <1>1, <1>7, SequenceOf
<1>9. ASSUME NEW n \in ToSet(Concat(ss)) PROVE IsSimple(n) \/ IsChild(n, PartsAt(sub, doc, p))
  <2>1. PICK i \in DOMAIN kids : n \in ToSet(ss[i])
    BY <1>7, <1>8
  <2> QED
    BY <1>4, <2>1
<1>10. exportChildren(Build(sub, doc, p), at) = Concat(ss)
  BY <1>1, <1>2
<1> QED
  BY <1>8, <1>9, <1>10

\* What an object of the mixed kind writes between its tags.
LEMMA MixedChildren ==
  ASSUME NEW sub, NEW doc, NEW at, Legible(doc), NEW p \in Read(sub, doc),
         Row(ClassOf(sub, p)).content = "mixed"
  PROVE  /\ Sequence(exportChildren(Build(sub, doc, p), at))
         /\ ToSet(exportChildren(Build(sub, doc, p), at)) =
              {ExportItem(BuildItem(ClassOf(sub, p), doc, doc[p].nodes[i])) :
                 i \in Characters(doc[p].nodes, {"text"}) \cup
                       Children(doc[p].nodes, KidTags(ClassOf(sub, p)))}
<1>1. PICK cls, obj, nodes, C, read :
        /\ cls = ClassOf(sub, p) /\ obj = Build(sub, doc, p) /\ nodes = doc[p].nodes
        /\ C = Characters(nodes, {"text"}) \cup Children(nodes, KidTags(cls))
        /\ read = Kept(nodes, C)
  OBVIOUS
<1>2. Sequence(nodes)
  BY <1>1 DEF Read, Legible, LegibleElement
<1>3. Sequence(read) /\ ToSet(read) = {nodes[i] : i \in C}
  <2>1. DOMAIN nodes \cap C = C
    BY <1>1 DEF Children, Characters
  <2> QED
    BY <1>1, <1>2, <2>1, KeptSequence
<1>4. obj.content = [i \in DOMAIN read |-> BuildItem(cls, doc, read[i])]
  BY <1>1 DEF Build, BuildContent
<1>5. exportChildren(obj, at) = [i \in DOMAIN obj.content |-> ExportItem(obj.content[i])]
  BY <1>1 DEF exportChildren, Build
<1>6. exportChildren(obj, at) = [i \in DOMAIN read |-> ExportItem(BuildItem(cls, doc, read[i]))]
  BY <1>4, <1>5
<1>7. Sequence(exportChildren(obj, at))
  BY <1>3, <1>6, FunctionSequence
<1>8. ToSet(exportChildren(obj, at)) = {ExportItem(BuildItem(cls, doc, n)) : n \in ToSet(read)}
  BY <1>6 DEF ToSet
<1>9. ToSet(exportChildren(obj, at)) = {ExportItem(BuildItem(cls, doc, nodes[i])) : i \in C}
  BY <1>3, <1>8
<1> QED
  BY <1>1, <1>7, <1>9

\* The nodes a text of the value kind is written as.
QuotedNodes(nodes) ==
    {[type |-> nodes[i].type, token |-> Quote(nodes[i].token)] :
       i \in Characters(nodes, {"text", "cdata"})}

\* What an object with a text of its own writes between its tags.
LEMMA ValueChildren ==
  ASSUME NEW sub, NEW doc, NEW at, Legible(doc), NEW p \in Read(sub, doc),
         Row(ClassOf(sub, p)).content \in {"value", "mixedvalue"}
  PROVE  /\ Sequence(exportChildren(Build(sub, doc, p), at))
         /\ ToSet(exportChildren(Build(sub, doc, p), at)) = QuotedNodes(doc[p].nodes)
<1>1. PICK cls, obj, nodes, C, read :
        /\ cls = ClassOf(sub, p) /\ obj = Build(sub, doc, p) /\ nodes = doc[p].nodes
        /\ C = Characters(nodes, {"text", "cdata"}) /\ read = Kept(nodes, C)
  OBVIOUS
<1>2. Sequence(nodes)
  BY <1>1 DEF Read, Legible, LegibleElement
<1>3. Sequence(read) /\ ToSet(read) = {nodes[i] : i \in C}
  <2>1. DOMAIN nodes \cap C = C
    BY <1>1 DEF Characters
  <2> QED
    BY <1>1, <1>2, <2>1, KeptSequence
<1>4. obj.value = read
  BY <1>1 DEF Build
<1>5. exportChildren(obj, at) =
        [i \in DOMAIN obj.value |-> [type |-> obj.value[i].type, token |-> Quote(obj.value[i].token)]]
  BY <1>1 DEF exportChildren, Build
<1>6. Sequence(exportChildren(obj, at))
  BY <1>3, <1>4, <1>5, FunctionSequence
<1>7. ToSet(exportChildren(obj, at)) = {[type |-> n.type, token |-> Quote(n.token)] : n \in ToSet(read)}
  BY <1>4, <1>5 DEF ToSet
<1>8. ToSet(exportChildren(obj, at)) = {[type |-> nodes[i].type, token |-> Quote(nodes[i].token)] : i \in C}
  BY <1>3, <1>7
<1>9. ToSet(exportChildren(obj, at)) = QuotedNodes(nodes)
  BY <1>1, <1>8 DEF QuotedNodes
<1> QED
  BY <1>1, <1>6, <1>9

WrittenAttrs(sub, doc, p) ==
    [a \in (Named(ClassOf(sub, p)) \cap DOMAIN doc[p].attrs) \cup Demanded(ClassOf(sub, p)) |->
       [token |-> Quote(IF a \in DOMAIN doc[p].attrs THEN doc[p].attrs[a] ELSE Token("None")),
        bytes |-> a \in Encoded(ClassOf(sub, p))]]

SomeBytes(attrs) == \E a \in DOMAIN attrs : attrs[a].bytes

\* The attributes written, of a class whose attributes have names of their own.
LEMMA AttributesWritten ==
  ASSUME NEW sub, NEW doc, Legible(doc), NEW p \in Read(sub, doc)
  PROVE  /\ exportAttributes(Build(sub, doc, p)) = WrittenAttrs(sub, doc, p)
         /\ Demanded(ClassOf(sub, p)) \subseteq Named(ClassOf(sub, p))
         /\ SomeBytes(exportAttributes(Build(sub, doc, p))) <=>
            \/ DOMAIN doc[p].attrs \cap Encoded(ClassOf(sub, p)) # {}
            \/ Styled(ClassOf(sub, p), "always encoded") # {}
<1>1. PICK cls, obj, attrs, w :
        /\ cls = ClassOf(sub, p) /\ obj = Build(sub, doc, p) /\ attrs = doc[p].attrs
        /\ w = exportAttributes(obj)
  OBVIOUS
<1>2. /\ obj.cls = cls /\ DOMAIN obj.attrs = Named(cls) \cap DOMAIN attrs
      /\ \A a \in Named(cls) \cap DOMAIN attrs : obj.attrs[a] = attrs[a]
  BY <1>1 DEF Build
<1>3. \A style : Styled(cls, style) \subseteq Named(cls)
  BY DEF Styled, Named
<1>4. Demanded(cls) \subseteq Named(cls) /\ Encoded(cls) \subseteq Named(cls)
  BY <1>3 DEF Demanded, Encoded
<1>5. DOMAIN w = (Named(cls) \cap DOMAIN attrs) \cup Demanded(cls)
  BY <1>1, <1>2 DEF exportAttributes
<1>6. ASSUME NEW a \in DOMAIN w
      PROVE  w[a] = [token |-> Quote(IF a \in DOMAIN attrs THEN attrs[a] ELSE Token("None")),
                     bytes |-> a \in Encoded(cls)]
  BY <1>1, <1>2, <1>4, <1>5 DEF exportAttributes
<1>7. w = [a \in (Named(cls) \cap DOMAIN attrs) \cup Demanded(cls) |->
             [token |-> Quote(IF a \in DOMAIN attrs THEN attrs[a] ELSE Token("None")),
              bytes |-> a \in Encoded(cls)]]
  <2>1. w = [a \in DOMAIN w |-> w[a]]
    BY <1>1 DEF exportAttributes
  <2> QED
    BY <1>5, <1>6, <2>1
<1>8. cls \in DOMAIN Rows
  <2>1. p \in DOMAIN doc /\ cls # ""
    BY <1>1 DEF Read
  <2>2. Sequence(p) /\ p # <<>>
    BY <2>1 DEF Legible, LegibleElement
  <2> QED
    BY <1>1, <2>1, <2>2, ClassStep DEF Classes
<1>9. Styled(cls, "always") \cap Styled(cls, "encoded") = {}
  <2>1. ASSUME NEW a \in Styled(cls, "always"), a \in Styled(cls, "encoded") PROVE FALSE
    <3>1. PICK i \in DOMAIN Row(cls).attrs : Row(cls).attrs[i].name = a /\ Row(cls).attrs[i].style = "always"
      BY DEF Styled, ToSet
    <3>2. PICK j \in DOMAIN Row(cls).attrs : Row(cls).attrs[j].name = a /\ Row(cls).attrs[j].style = "encoded"
      BY <2>1 DEF Styled, ToSet
    <3>3. IsRow(Row(cls))
      BY <1>8, SchemaAssumption
    <3>4. i = j
      BY <3>1, <3>2, <3>3 DEF IsRow
    <3> QED
      BY <3>1, <3>2, <3>4
  <2> QED
    BY <2>1
<1>10. (\E a \in DOMAIN w : w[a].bytes) <=> \E a \in DOMAIN w : a \in Encoded(cls)
  <2>1. ASSUME NEW a \in DOMAIN w PROVE w[a].bytes = (a \in Encoded(cls))
    BY <1>6
  <2> QED
    BY <2>1, Zenon
<1>11. (\E a \in DOMAIN w : a \in Encoded(cls)) <=>
         DOMAIN attrs \cap Encoded(cls) # {} \/ Styled(cls, "always encoded") # {}
  <2>1. ASSUME NEW a \in DOMAIN w, a \in Encoded(cls), a \notin DOMAIN attrs
        PROVE  a \in Styled(cls, "always encoded")
    BY <1>5, <1>9, <2>1 DEF Demanded, Encoded
  <2>2. ASSUME NEW a \in Encoded(cls), a \in DOMAIN attrs PROVE a \in DOMAIN w
    BY <1>4, <1>5, <2>2
  <2>3. ASSUME NEW a \in Styled(cls, "always encoded") PROVE a \in DOMAIN w /\ a \in Encoded(cls)
    BY <1>5 DEF Demanded, Encoded
  <2> QED
    BY <2>1, <2>2, <2>3
<1>12. SomeBytes(w) <=>
         DOMAIN attrs \cap Encoded(cls) # {} \/ Styled(cls, "always encoded") # {}
  BY <1>10, <1>11 DEF SomeBytes
<1>13. w = WrittenAttrs(sub, doc, p)
  BY <1>1, <1>7 DEF WrittenAttrs
<1> QED
  BY <1>1, <1>4, <1>12, <1>13

\* The item of content_ that is a text.
LEMMA TextItemFields ==
  ASSUME NEW token
  PROVE  /\ TextItem(token).category = "text" /\ TextItem(token).tag = ""
         /\ TextItem(token).text = <<token>> /\ TextItem(token).text[1] = token
<1>1. PICK blank, text, none : blank = "" /\ text = <<token>> /\ none = <<>>
  OBVIOUS
<1>2. TextItem(token) = Item("text", blank, text, none)
  BY <1>1, Zenon DEF TextItem
<1>3. PICK item : item = Item("text", blank, text, none)
  OBVIOUS
<1>4. item.category = "text" /\ item.tag = blank /\ item.text = text
  BY <1>3 DEF Item
<1>5. text[1] = token
  BY <1>1
<1> QED
  BY <1>1, <1>2, <1>3, <1>4, <1>5

\* What a node of an element of the mixed kind is written as.
LEMMA MixedItem ==
  ASSUME NEW sub, NEW doc, Legible(doc), NEW p \in Read(sub, doc),
         Row(ClassOf(sub, p)).content = "mixed", NEW i \in DOMAIN doc[p].nodes
  PROVE  LET n == doc[p].nodes[i]
             cls == ClassOf(sub, p)
             w == ExportItem(BuildItem(cls, doc, n)) IN
         /\ i \in Characters(doc[p].nodes, {"text"}) =>
              n.type = "text" /\ Escaped(n.token) /\ w = Text(n.token)
         /\ i \in Children(doc[p].nodes, KidTags(cls)) =>
              /\ n.type = "element" /\ KidOf(cls, Tag(n.name)) \in KidsOf(cls)
              /\ KidOf(cls, Tag(n.name)).tag = Tag(n.name)
              /\ IF IsText(KidOf(cls, Tag(n.name)))
                 THEN w = TextChild(Tag(n.name), NodeText(doc[n.name])) /\ IsWords(NodeText(doc[n.name]))
                 ELSE w = Child(n.name) /\ n.name \in PartsAt(sub, doc, p)
<1>1. PICK n, cls, w : n = doc[p].nodes[i] /\ cls = ClassOf(sub, p) /\ w = ExportItem(BuildItem(cls, doc, n))
  OBVIOUS
<1>2. p \in DOMAIN doc /\ LegibleElement(doc, p) /\ LegibleNode(doc, p, n) /\ cls \in DOMAIN Rows
  <2>1. p \in DOMAIN doc /\ cls # ""
    BY <1>1 DEF Read
  <2>2. LegibleElement(doc, p)
    BY <2>1 DEF Legible
  <2> QED
    BY <1>1, <2>1, <2>2, ClassStep DEF LegibleElement, Classes
<1>3. ASSUME i \in Characters(doc[p].nodes, {"text"})
      PROVE  n.type = "text" /\ Escaped(n.token) /\ w = Text(n.token)
  <2>1. n.type = "text"
    BY <1>1, <1>3 DEF Characters
  <2>2. Escaped(n.token)
    BY <1>2, <2>1 DEF LegibleNode
  <2>3. BuildItem(cls, doc, n) = TextItem(n.token)
    BY <2>1 DEF BuildItem
  <2>4. PICK b, t : b = TextItem(n.token) /\ t = n.token
    OBVIOUS
  <2>5. b.category = "text" /\ b.text[1] = t
    BY <2>4, TextItemFields
  <2>6. w = ExportItem(b)
    BY <1>1, <2>3, <2>4
  <2>7. w = Text(t)
    BY <2>5, <2>6 DEF ExportItem
  <2> QED
    BY <2>1, <2>2, <2>4, <2>7
<1>4. ASSUME i \in Children(doc[p].nodes, KidTags(cls))
      PROVE  /\ n.type = "element" /\ KidOf(cls, Tag(n.name)) \in KidsOf(cls)
             /\ KidOf(cls, Tag(n.name)).tag = Tag(n.name)
             /\ IF IsText(KidOf(cls, Tag(n.name)))
                THEN w = TextChild(Tag(n.name), NodeText(doc[n.name])) /\ IsWords(NodeText(doc[n.name]))
                ELSE w = Child(n.name) /\ n.name \in PartsAt(sub, doc, p)
  <2>1. n.type = "element" /\ Tag(n.name) \in KidTags(cls)
    BY <1>1, <1>4 DEF Children
  <2>2. PICK k : k = KidOf(cls, Tag(n.name)) /\ k \in KidsOf(cls) /\ k.tag = Tag(n.name)
    BY <2>1, KidOfTag
  <2>3. CASE IsText(k)
    <3>1. BuildItem(cls, doc, n) = Item("simple", Tag(n.name), NodeText(doc[n.name]), <<>>)
      BY <2>1, <2>2, <2>3 DEF BuildItem
    <3>2. w = TextChild(Tag(n.name), NodeText(doc[n.name]))
      BY <1>1, <3>1 DEF ExportItem, Item
    <3>3. n.name \in DOMAIN doc
      BY <1>2, <2>1 DEF LegibleNode
    <3>4. IsWords(NodeText(doc[n.name]))
      BY <3>3, NodeTextFields DEF Legible
    <3> QED
      BY <2>1, <2>2, <2>3, <3>2, <3>4
  <2>4. CASE ~IsText(k)
    <3>1. BuildItem(cls, doc, n) = Item("complex", Tag(n.name), <<>>, n.name)
      BY <2>1, <2>2, <2>4 DEF BuildItem
    <3>2. w = Child(n.name)
      BY <1>1, <3>1 DEF ExportItem, Item
    <3>3. k.style \in {"one", "many"}
      BY <1>1, <1>2, <2>2, <2>4, KidFields DEF IsText
    <3>4. PartAt(sub, doc, p, i)
      BY <1>1, <1>4, <2>2, <3>3 DEF PartAt
    <3>5. n.name \in PartsAt(sub, doc, p)
      BY <1>1, <3>4 DEF PartsAt
    <3> QED
      BY <2>1, <2>2, <2>4, <3>2, <3>5
  <2> QED
    BY <2>3, <2>4
<1> QED
  BY <1>1, <1>3, <1>4

\* What is written for one element is XML.
XmlElement(e) ==
    /\ \A a \in DOMAIN e.attrs : ~e.attrs[a].bytes
    /\ \A n \in ToSet(e.nodes) :
         /\ n.type = "text" => ~Bare(n.token)
         /\ n.type = "simple" => \A t \in ToSet(n.text) : ~Bare(t)

\* When it should be.
ShouldBeXml(sub, doc, p) ==
    LET cls == ClassOf(sub, p) IN
    /\ DOMAIN doc[p].attrs \cap Encoded(cls) = {}
    /\ Styled(cls, "always encoded") = {}
    /\ Row(cls).content = "mixed" =>
         \A n \in ToSet(doc[p].nodes) :
            /\ n.type = "text" => ~Bare(n.token)
            /\ \A k \in KidsOf(cls) :
                 n.type = "element" /\ IsText(k) /\ k.tag = Tag(n.name) =>
                   \A t \in ToSet(NodeText(doc[n.name])) : ~Bare(t)

\* The nodes written can be read back.
ReadableNode(n, names) ==
    \/ IsSimple(n)
    \/ IsChild(n, names)
    \/ n.type = "text" /\ Escaped(n.token) /\ ~Bare(n.token)
    \/ n.type = "cdata" /\ Escaped(n.token)

LEMMA XmlWritten ==
  ASSUME NEW sub \in BOOLEAN, NEW doc, NEW at, Legible(doc), NEW p \in Read(sub, doc)
  PROVE  /\ XmlElement(Export(Build(sub, doc, p), at)) <=> ShouldBeXml(sub, doc, p)
         /\ Sequence(Export(Build(sub, doc, p), at).nodes)
         /\ XmlElement(Export(Build(sub, doc, p), at)) =>
              \A n \in ToSet(Export(Build(sub, doc, p), at).nodes) : ReadableNode(n, PartsAt(sub, doc, p))
<1>1. PICK cls, obj, nodes, e, w :
        /\ cls = ClassOf(sub, p) /\ obj = Build(sub, doc, p) /\ nodes = doc[p].nodes
        /\ e = Export(obj, at) /\ w = exportChildren(obj, at)
  OBVIOUS
<1>2. e.attrs = exportAttributes(obj) /\ e.nodes = w
  BY <1>1 DEF Export, Element
<1>3. (\A a \in DOMAIN e.attrs : ~e.attrs[a].bytes) <=>
        DOMAIN doc[p].attrs \cap Encoded(cls) = {} /\ Styled(cls, "always encoded") = {}
  <2>1. SomeBytes(exportAttributes(obj)) <=>
          DOMAIN doc[p].attrs \cap Encoded(cls) # {} \/ Styled(cls, "always encoded") # {}
    BY <1>1, AttributesWritten
  <2>2. SomeBytes(e.attrs) <=>
          DOMAIN doc[p].attrs \cap Encoded(cls) # {} \/ Styled(cls, "always encoded") # {}
    BY <1>2, <2>1
  <2> QED
    BY <2>2, Zenon DEF SomeBytes
<1>4. p \in DOMAIN doc /\ LegibleElement(doc, p) /\ Sequence(nodes) /\ cls \in DOMAIN Rows
  <2>1. p \in DOMAIN doc /\ cls # ""
    BY <1>1 DEF Read
  <2>2. LegibleElement(doc, p)
    BY <2>1 DEF Legible
  <2> QED
    BY <1>1, <2>1, <2>2, ClassStep DEF LegibleElement, Classes
<1>5. Row(cls).content \in {"plain", "mixed", "value", "mixedvalue"}
  BY <1>4, SchemaAssumption DEF IsRow
<1> DEFINE Fine(n) == /\ n.type = "text" => ~Bare(n.token)
                      /\ n.type = "simple" => \A t \in ToSet(n.text) : ~Bare(t)
           Should == \A n \in ToSet(nodes) :
                        /\ n.type = "text" => ~Bare(n.token)
                        /\ \A k \in KidsOf(cls) :
                             n.type = "element" /\ IsText(k) /\ k.tag = Tag(n.name) =>
                               \A t \in ToSet(NodeText(doc[n.name])) : ~Bare(t)
<1>6. CASE Row(cls).content = "plain"
  <2>1. Sequence(w) /\ \A n \in ToSet(w) : IsSimple(n) \/ IsChild(n, PartsAt(sub, doc, p))
    BY <1>1, <1>6, PlainChildren
  <2>2. ASSUME NEW n, IsSimple(n) PROVE Fine(n)
    <3>1. n.type = "simple"
      BY <2>2 DEF IsSimple, TextChild
    <3> QED
      BY <2>2, <3>1 DEF IsSimple
  <2>3. ASSUME NEW n, IsChild(n, PartsAt(sub, doc, p)) PROVE Fine(n)
    <3>1. n.type = "element"
      BY <2>3 DEF IsChild, Child
    <3> QED
      BY <3>1
  <2>4. \A n \in ToSet(w) : Fine(n)
    BY <2>1, <2>2, <2>3
  <2>5. XmlElement(e) <=> ShouldBeXml(sub, doc, p)
    BY <1>1, <1>2, <1>3, <1>6, <2>4 DEF XmlElement, ShouldBeXml
  <2> QED
    BY <1>1, <1>2, <2>1, <2>5 DEF ReadableNode
<1>7. CASE Row(cls).content = "mixed"
  <2>1. PICK C : C = Characters(nodes, {"text"}) \cup Children(nodes, KidTags(cls)) /\ C \subseteq DOMAIN nodes
    BY DEF Characters, Children
  <2>2. Sequence(w) /\ ToSet(w) = {ExportItem(BuildItem(cls, doc, nodes[i])) : i \in C}
    <3>1. /\ Sequence(exportChildren(Build(sub, doc, p), at))
          /\ ToSet(exportChildren(Build(sub, doc, p), at)) =
               {ExportItem(BuildItem(ClassOf(sub, p), doc, doc[p].nodes[i])) :
                  i \in Characters(doc[p].nodes, {"text"}) \cup
                        Children(doc[p].nodes, KidTags(ClassOf(sub, p)))}
      BY <1>1, <1>7, MixedChildren
    <3> QED
      BY <1>1, <2>1, <3>1
  <2>3. ASSUME NEW i \in C
        PROVE  LET n == nodes[i]
                   x == ExportItem(BuildItem(cls, doc, n)) IN
               \/ n.type = "text" /\ Escaped(n.token) /\ x = Text(n.token)
               \/ /\ n.type = "element" /\ IsWords(NodeText(doc[n.name]))
                  /\ \E k \in KidsOf(cls) : IsText(k) /\ k.tag = Tag(n.name)
                  /\ x = TextChild(Tag(n.name), NodeText(doc[n.name]))
               \/ /\ n.type = "element" /\ x = Child(n.name) /\ n.name \in PartsAt(sub, doc, p)
                  /\ \A k \in KidsOf(cls) : k.tag = Tag(n.name) => ~IsText(k)
    <3>1. PICK n, x : n = nodes[i] /\ x = ExportItem(BuildItem(cls, doc, n))
      OBVIOUS
    <3>2. CASE i \in Characters(nodes, {"text"})
      <4>1. n.type = "text" /\ Escaped(n.token) /\ x = Text(n.token)
        BY <1>1, <1>7, <2>1, <3>1, <3>2, MixedItem
      <4> QED
        BY <3>1, <4>1
    <3>3. CASE i \in Children(nodes, KidTags(cls))
      <4>1. PICK k : k = KidOf(cls, Tag(n.name))
        OBVIOUS
      <4>2. /\ n.type = "element" /\ k \in KidsOf(cls) /\ k.tag = Tag(n.name)
            /\ IF IsText(k)
               THEN x = TextChild(Tag(n.name), NodeText(doc[n.name])) /\ IsWords(NodeText(doc[n.name]))
               ELSE x = Child(n.name) /\ n.name \in PartsAt(sub, doc, p)
        BY <1>1, <1>7, <2>1, <3>1, <3>3, <4>1, MixedItem
      <4>3. \A j \in KidsOf(cls) : j.tag = Tag(n.name) => j = k
        BY <1>4, <4>1, KidOfKid
      <4> QED
        BY <3>1, <4>2, <4>3
    <3> QED
      BY <2>1, <3>2, <3>3
  <2>4. ASSUME \A n \in ToSet(w) : Fine(n) PROVE Should
    <3> SUFFICES ASSUME NEW i \in DOMAIN nodes
                 PROVE  LET n == nodes[i] IN
                        /\ n.type = "text" => ~Bare(n.token)
                        /\ \A k \in KidsOf(cls) :
                             n.type = "element" /\ IsText(k) /\ k.tag = Tag(n.name) =>
                               \A t \in ToSet(NodeText(doc[n.name])) : ~Bare(t)
      BY DEF ToSet
    <3>1. PICK n, x : n = nodes[i] /\ x = ExportItem(BuildItem(cls, doc, n))
      OBVIOUS
    <3>2. i \in C => Fine(x)
      BY <2>2, <2>4, <3>1
    <3>3. ASSUME n.type = "text" PROVE ~Bare(n.token)
      <4>1. i \in C
        BY <2>1, <3>1, <3>3 DEF Characters
      <4>2. x = Text(n.token)
        BY <2>3, <3>1, <3>3, <4>1
      <4>3. x.type = "text" /\ x.token = n.token
        BY <4>2 DEF Text
      <4> QED
        BY <3>2, <4>1, <4>3
    <3>4. ASSUME NEW k \in KidsOf(cls), n.type = "element", IsText(k), k.tag = Tag(n.name)
          PROVE  \A t \in ToSet(NodeText(doc[n.name])) : ~Bare(t)
      <4>1. Tag(n.name) \in KidTags(cls)
        BY <3>4 DEF KidTags
      <4>2. i \in C
        BY <2>1, <3>1, <3>4, <4>1 DEF Children
      <4>3. x = TextChild(Tag(n.name), NodeText(doc[n.name]))
        BY <2>3, <3>1, <3>4, <4>2
      <4>4. x.type = "simple" /\ x.text = NodeText(doc[n.name])
        BY <4>3 DEF TextChild
      <4> QED
        BY <3>2, <4>2, <4>4
    <3> QED
      BY <3>1, <3>3, <3>4
  <2>5. ASSUME Should, NEW n \in ToSet(w) PROVE Fine(n) /\ ReadableNode(n, PartsAt(sub, doc, p))
    <3>1. PICK i \in C : n = ExportItem(BuildItem(cls, doc, nodes[i]))
      BY <2>2
    <3>2. PICK m : m = nodes[i] /\ m \in ToSet(nodes)
      BY <2>1 DEF ToSet
    <3>3. CASE m.type = "text" /\ Escaped(m.token) /\ n = Text(m.token)
      <4>1. n.type = "text" /\ n.token = m.token
        BY <3>3 DEF Text
      <4> QED
        BY <2>5, <3>2, <3>3, <4>1 DEF ReadableNode
    <3>4. CASE /\ m.type = "element" /\ IsWords(NodeText(doc[m.name]))
               /\ \E k \in KidsOf(cls) : IsText(k) /\ k.tag = Tag(m.name)
               /\ n = TextChild(Tag(m.name), NodeText(doc[m.name]))
      <4>1. n.type = "simple" /\ n.text = NodeText(doc[m.name]) /\ n.tag = Tag(m.name)
        BY <3>4 DEF TextChild
      <4>2. \A t \in ToSet(n.text) : ~Bare(t)
        BY <2>5, <3>2, <3>4, <4>1
      <4>3. IsSimple(n)
        BY <3>4, <4>1, <4>2 DEF IsSimple
      <4> QED
        BY <4>1, <4>2, <4>3 DEF ReadableNode
    <3>5. CASE m.type = "element" /\ n = Child(m.name) /\ m.name \in PartsAt(sub, doc, p)
      <4>1. n.type = "element" /\ n.name = m.name
        BY <3>5 DEF Child
      <4> QED
        BY <3>5, <4>1 DEF ReadableNode, IsChild
    <3> QED
      BY <2>3, <3>1, <3>2, <3>3, <3>4, <3>5
  <2>6. (\A n \in ToSet(w) : Fine(n)) <=> Should
    BY <2>4, <2>5
  <2>7. XmlElement(e) <=> (\A a \in DOMAIN e.attrs : ~e.attrs[a].bytes) /\ \A n \in ToSet(w) : Fine(n)
    BY <1>2 DEF XmlElement
  <2>8. ShouldBeXml(sub, doc, p) <=>
          /\ DOMAIN doc[p].attrs \cap Encoded(cls) = {} /\ Styled(cls, "always encoded") = {}
          /\ Should
    BY <1>1, <1>7 DEF ShouldBeXml
  <2> HIDE DEF Should, Fine
  <2>9. XmlElement(e) <=> ShouldBeXml(sub, doc, p)
    BY <1>3, <2>6, <2>7, <2>8
  <2>10. XmlElement(e) => \A n \in ToSet(w) : ReadableNode(n, PartsAt(sub, doc, p))
    BY <2>5, <2>8, <2>9
  <2> QED
    BY <1>1, <1>2, <2>2, <2>9, <2>10
<1>8. CASE Row(cls).content \in {"value", "mixedvalue"}
  <2>1. PICK C : C = Characters(nodes, {"text", "cdata"})
    OBVIOUS
  <2>2. Sequence(w) /\ ToSet(w) = {[type |-> nodes[i].type, token |-> Quote(nodes[i].token)] : i \in C}
    <3>1. Sequence(w) /\ ToSet(w) = QuotedNodes(nodes)
      BY <1>1, <1>8, ValueChildren
    <3> QED
      BY <2>1, <3>1 DEF QuotedNodes
  <2>3. ASSUME NEW n \in ToSet(w)
        PROVE  n.type \in {"text", "cdata"} /\ Escaped(n.token) /\ ~Bare(n.token)
    <3>1. PICK i \in C : n = [type |-> nodes[i].type, token |-> Quote(nodes[i].token)]
      BY <2>2
    <3>2. i \in DOMAIN nodes /\ nodes[i].type \in {"text", "cdata"}
      BY <2>1 DEF Characters
    <3>3. LegibleNode(doc, p, nodes[i])
      BY <1>1, <1>4, <3>2 DEF LegibleElement
    <3>4. Escaped(nodes[i].token)
      BY <3>2, <3>3 DEF LegibleNode
    <3>5. Escaped(Quote(nodes[i].token)) /\ ~Bare(Quote(nodes[i].token))
      BY <3>4, QuoteFields
    <3> QED
      BY <3>1, <3>2, <3>5
  <2>4. \A n \in ToSet(w) : Fine(n)
    BY <2>3
  <2>5. XmlElement(e) <=> ShouldBeXml(sub, doc, p)
    BY <1>1, <1>2, <1>3, <1>8, <2>4 DEF XmlElement, ShouldBeXml
  <2> QED
    BY <1>1, <1>2, <2>2, <2>3, <2>5 DEF ReadableNode
<1> QED
  BY <1>5, <1>6, <1>7, <1>8

\* What all of the printed elements have.
LEMMA WrittenFields ==
  ASSUME NEW sub, NEW doc, NEW at, Legible(doc)
  PROVE  /\ DOMAIN ExportAll(BuildAll(sub, doc), at) = PrintedOf(sub, doc)
         /\ \A p \in PrintedOf(sub, doc) :
              ExportAll(BuildAll(sub, doc), at)[p] = Export(Build(sub, doc, p), at)
         /\ \A p \in PrintedOf(sub, doc) : Len(p) > 1 => Front(p) \in PrintedOf(sub, doc)
         /\ \A p \in PrintedOf(sub, doc) : PartsAt(sub, doc, p) \subseteq PrintedOf(sub, doc)
<1>1. PICK all : all = BuildAll(sub, doc)
  OBVIOUS
<1>2. /\ Within(all) = PrintedOf(sub, doc) /\ PrintedOf(sub, doc) \subseteq Read(sub, doc)
      /\ \A p \in Read(sub, doc) : all[p] = Build(sub, doc, p)
  BY <1>1, PrintedIsWithin DEF BuildAll
<1>3. DOMAIN ExportAll(all, at) = Within(all) /\ \A p \in Within(all) : ExportAll(all, at)[p] = Export(all[p], at)
  BY DEF ExportAll
<1>4. ASSUME NEW p \in PrintedOf(sub, doc), Len(p) > 1 PROVE Front(p) \in PrintedOf(sub, doc)
  <2>1. p \in Read(sub, doc)
    BY <1>2
  <2>2. PICK l, q : l = Len(p) /\ q = Prefix(p, l - 1)
    OBVIOUS
  <2>3. Sequence(p) /\ p # <<>>
    BY <2>1 DEF Read, Legible, LegibleElement
  <2>4. l \in Nat /\ l - 1 \in 1 .. l /\ l - 1 \in Nat
    BY <1>4, <2>2, <2>3 DEF Sequence
  <2>5. q = Front(p) /\ Len(q) = l - 1
    BY <1>4, <2>2, <2>3, <2>4, PrefixOfPrefix, PrefixFields
  <2>6. q \in DOMAIN doc
    <3>1. q \in Read(sub, doc)
      BY <2>1, <2>2, <2>4, ReadOnTheWay
    <3> QED
      BY <3>1 DEF Read
  <2>7. ASSUME NEW n \in 1 .. Len(q) - 1
        PROVE  Prefix(q, n + 1) \in PartsAt(sub, doc, Prefix(q, n))
    <3>1. PICK m \in Nat : m = l - 1
      BY <2>4
    <3>2. n \in 1 .. l - 1 /\ n \in 1 .. m /\ n + 1 \in 1 .. m /\ m \in 1 .. l
      BY <2>4, <2>5, <3>1
    <3>3. Prefix(q, n) = Prefix(p, n) /\ Prefix(q, n + 1) = Prefix(p, n + 1)
      BY <2>2, <2>3, <3>1, <3>2, PrefixOfPrefix
    <3>4. Prefix(p, n + 1) \in PartsAt(sub, doc, Prefix(p, n))
      BY <2>2, <3>2 DEF PrintedOf
    <3> QED
      BY <3>3, <3>4
  <2> QED
    BY <2>5, <2>6, <2>7 DEF PrintedOf
<1>5. ASSUME NEW p \in PrintedOf(sub, doc), NEW x \in PartsAt(sub, doc, p)
      PROVE  x \in PrintedOf(sub, doc)
  <2>1. p \in Read(sub, doc)
    BY <1>2
  <2>2. x \in Read(sub, doc) /\ Front(x) = p /\ Len(x) = Len(p) + 1
    BY <2>1, PartIsRead
  <2>3. Sequence(x) /\ x # <<>> /\ x \in DOMAIN doc /\ Sequence(p) /\ p # <<>>
    BY <2>1, <2>2 DEF Read, Legible, LegibleElement
  <2>4. PICK l \in Nat : l = Len(p) /\ Len(x) = l + 1 /\ l > 0
    BY <2>2, <2>3 DEF Sequence
  <2>5. Prefix(x, l) = p /\ Prefix(x, l + 1) = x
    <3>1. l + 1 > 1 /\ (l + 1) - 1 = l
      BY <2>4
    <3> QED
      BY <2>2, <2>3, <2>4, <3>1, PrefixOfPrefix
  <2>6. ASSUME NEW n \in 1 .. l PROVE Prefix(x, n + 1) \in PartsAt(sub, doc, Prefix(x, n))
    <3>1. CASE n = l
      BY <2>5, <3>1
    <3>2. CASE n # l
      <4>1. n \in 1 .. l - 1 /\ n \in 1 .. l /\ n + 1 \in 1 .. l /\ l \in 1 .. Len(x)
        BY <2>4, <3>2
      <4>2. Prefix(p, n) = Prefix(x, n) /\ Prefix(p, n + 1) = Prefix(x, n + 1)
        BY <2>3, <2>5, <4>1, PrefixOfPrefix
      <4>3. Prefix(p, n + 1) \in PartsAt(sub, doc, Prefix(p, n))
        BY <2>4, <4>1 DEF PrintedOf
      <4> QED
        BY <4>2, <4>3
    <3> QED
      BY <3>1, <3>2
  <2>7. Len(x) - 1 = l
    BY <2>4
  <2> QED
    BY <2>3, <2>6, <2>7 DEF PrintedOf
<1> QED
  BY <1>1, <1>2, <1>3, <1>4, <1>5

\* A token read back.
LEMMA UnquoteFields ==
  ASSUME NEW t, Escaped(t), ~Bare(t)
  PROVE  Escaped(Unquote(t))
<1>1. CASE t.kind = "markup"
  <2>1. PICK n \in Nat : n = t.esc /\ n # 0
    BY <1>1 DEF Escaped, Bare
  <2>2. t = [kind |-> "markup", esc |-> n]
    BY <1>1, <2>1 DEF Escaped
  <2>3. Unquote(t) = [kind |-> "markup", esc |-> n - 1] /\ n - 1 \in Nat
    BY <2>1, <2>2 DEF Unquote
  <2> QED
    BY <2>3 DEF Escaped
<1>2. CASE t.kind # "markup"
  BY <1>2 DEF Unquote
<1> QED
  BY <1>1, <1>2

\* What was printed, if it is XML, is a document again.
LEMMA ParsedIsLegible ==
  ASSUME NEW sub \in BOOLEAN, NEW doc, NEW at, Legible(doc), WellFormed(ExportAll(BuildAll(sub, doc), at))
  PROVE  Legible(Parsed(ExportAll(BuildAll(sub, doc), at)))
<1>1. PICK W, next, P : /\ W = ExportAll(BuildAll(sub, doc), at) /\ next = Parsed(W)
                        /\ P = PrintedOf(sub, doc)
  OBVIOUS
<1>2. /\ DOMAIN W = P /\ P \subseteq Read(sub, doc) /\ P \subseteq DOMAIN doc
      /\ \A p \in P : W[p] = Export(Build(sub, doc, p), at)
      /\ \A p \in P : Len(p) > 1 => Front(p) \in P
      /\ \A p \in P : PartsAt(sub, doc, p) \subseteq P
  <2>1. PrintedOf(sub, doc) \subseteq Read(sub, doc)
    BY PrintedIsWithin
  <2>2. PrintedOf(sub, doc) \subseteq DOMAIN doc
    BY DEF PrintedOf
  <2>3. /\ DOMAIN ExportAll(BuildAll(sub, doc), at) = PrintedOf(sub, doc)
        /\ \A p \in PrintedOf(sub, doc) :
             ExportAll(BuildAll(sub, doc), at)[p] = Export(Build(sub, doc, p), at)
        /\ \A p \in PrintedOf(sub, doc) : Len(p) > 1 => Front(p) \in PrintedOf(sub, doc)
        /\ \A p \in PrintedOf(sub, doc) : PartsAt(sub, doc, p) \subseteq PrintedOf(sub, doc)
    BY WrittenFields
  <2> QED
    BY <1>1, <2>1, <2>2, <2>3
<1>3. PICK names : names = UNION {TextNames(q, W[q].nodes) : q \in P}
  OBVIOUS
<1>4. DOMAIN next = P \cup names
  BY <1>1, <1>2, <1>3 DEF Parsed
<1>5. ASSUME NEW p \in P
      PROVE  /\ Sequence(p) /\ p # <<>> /\ Len(p) \in Nat
             /\ Sequence(W[p].nodes)
             /\ \A n \in ToSet(W[p].nodes) : ReadableNode(n, PartsAt(sub, doc, p))
  <2>1. p \in Read(sub, doc) /\ p \in DOMAIN doc
    BY <1>2
  <2>2. XmlElement(W[p])
    BY <1>1, <1>2 DEF WellFormed, XmlElement
  <2>3. /\ Sequence(W[p].nodes)
        /\ \A n \in ToSet(W[p].nodes) : ReadableNode(n, PartsAt(sub, doc, p))
    BY <1>2, <2>1, <2>2, XmlWritten
  <2> QED
    BY <2>1, <2>3 DEF Legible, LegibleElement, Sequence
<1>6. ASSUME NEW p \in P PROVE LegibleElement(next, p)
  <2>1. PICK nodes, attrs : nodes = W[p].nodes /\ attrs = W[p].attrs
    OBVIOUS
  <2>2. next[p] = Element([a \in DOMAIN attrs |-> Unquote(attrs[a].token)],
                          [i \in DOMAIN nodes |-> ParsedNode(p, i, nodes[i])])
    BY <1>1, <1>2, <1>4, <2>1 DEF Parsed
  <2>3. /\ next[p].attrs = [a \in DOMAIN attrs |-> Unquote(attrs[a].token)]
        /\ next[p].nodes = [i \in DOMAIN nodes |-> ParsedNode(p, i, nodes[i])]
    BY <2>2 DEF Element
  <2>4. Sequence(next[p].nodes)
    BY <1>5, <2>1, <2>3, FunctionSequence
  <2>5. ASSUME NEW a \in DOMAIN next[p].attrs PROVE Escaped(next[p].attrs[a])
    <3>1. p \in Read(sub, doc) /\ p \in DOMAIN doc
      BY <1>2
    <3>2. attrs = exportAttributes(Build(sub, doc, p))
      BY <1>2, <2>1 DEF Export, Element
    <3>3. attrs = WrittenAttrs(sub, doc, p)
      BY <3>1, <3>2, AttributesWritten
    <3>4. PICK t : t = IF a \in DOMAIN doc[p].attrs THEN doc[p].attrs[a] ELSE Token("None")
      OBVIOUS
    <3>5. attrs[a].token = Quote(t)
      BY <2>3, <3>3, <3>4 DEF WrittenAttrs
    <3>6. Escaped(t)
      BY <3>1, <3>4, TokenFields DEF Legible, LegibleElement
    <3>7. Unquote(Quote(t)) = t
      BY <3>6, QuoteFields
    <3> QED
      BY <2>3, <3>5, <3>6, <3>7
  <2>6. ASSUME NEW i \in DOMAIN nodes PROVE LegibleNode(next, p, ParsedNode(p, i, nodes[i]))
    <3>1. PICK n, m : n = nodes[i] /\ m = ParsedNode(p, i, n)
      OBVIOUS
    <3>2. ReadableNode(n, PartsAt(sub, doc, p))
      BY <1>5, <2>1, <3>1 DEF ToSet
    <3>3. CASE IsSimple(n)
      <4>1. n.type = "simple"
        BY <3>3 DEF IsSimple, TextChild
      <4>2. PICK x, e : e = Step(n.tag, 0 - i) /\ x = Append(p, e)
        OBVIOUS
      <4>3. m = Child(x)
        BY <3>1, <4>1, <4>2 DEF ParsedNode, TextName
      <4>4. x \in TextNames(p, nodes)
        BY <3>1, <4>1, <4>2 DEF TextNames, TextName
      <4>5. x \in DOMAIN next
        BY <1>3, <1>4, <2>1, <4>4
      <4>6. x = Append(p, Last(x))
        BY <1>5, <4>2, AppendFields
      <4>7. m.type = "element" /\ m.name = x
        BY <4>3 DEF Child
      <4> QED
        BY <3>1, <4>5, <4>6, <4>7 DEF LegibleNode
    <3>4. CASE IsChild(n, PartsAt(sub, doc, p))
      <4>1. n.type = "element" /\ n.name \in PartsAt(sub, doc, p)
        BY <3>4 DEF IsChild, Child
      <4>2. m = n
        BY <3>1, <4>1 DEF ParsedNode
      <4>3. n.name \in DOMAIN next
        BY <1>2, <1>4, <4>1
      <4>4. PICK k \in DOMAIN doc[p].nodes : PartAt(sub, doc, p, k) /\ n.name = doc[p].nodes[k].name
        BY <4>1 DEF PartsAt
      <4>5. doc[p].nodes[k].type = "element"
        BY <4>4 DEF PartAt, Children
      <4>6. LegibleNode(doc, p, doc[p].nodes[k])
        BY <1>2 DEF Legible, LegibleElement
      <4>7. n.name = Append(p, Last(n.name))
        BY <4>4, <4>5, <4>6 DEF LegibleNode
      <4> QED
        BY <3>1, <4>1, <4>2, <4>3, <4>7 DEF LegibleNode
    <3>5. CASE n.type = "text" /\ Escaped(n.token) /\ ~Bare(n.token)
      <4>1. m = Text(Unquote(n.token))
        BY <3>1, <3>5 DEF ParsedNode
      <4>2. m.type = "text" /\ m.token = Unquote(n.token)
        BY <4>1 DEF Text
      <4>3. Escaped(Unquote(n.token))
        BY <3>5, UnquoteFields
      <4> QED
        BY <3>1, <4>2, <4>3 DEF LegibleNode
    <3>6. CASE n.type = "cdata" /\ Escaped(n.token)
      <4>1. m = n
        BY <3>1, <3>6 DEF ParsedNode
      <4> QED
        BY <3>1, <3>6, <4>1 DEF LegibleNode
    <3> QED
      BY <3>2, <3>3, <3>4, <3>5, <3>6 DEF ReadableNode
  <2>7. \A i \in DOMAIN next[p].nodes : LegibleNode(next, p, next[p].nodes[i])
    BY <2>3, <2>6
  <2>8. Len(p) > 1 => Front(p) \in DOMAIN next
    BY <1>2, <1>4
  <2> QED
    BY <1>5, <2>4, <2>5, <2>7, <2>8 DEF LegibleElement
<1>7. ASSUME NEW p \in names, p \notin P
      PROVE  LegibleElement(next, p) /\ \E q \in P : Len(p) = Len(q) + 1
  <2>1. PICK q \in P : p \in TextNames(q, W[q].nodes)
    BY <1>3
  <2>2. PICK nodes : nodes = W[q].nodes
    OBVIOUS
  <2>3. PICK i \in DOMAIN nodes : nodes[i].type = "simple" /\ p = TextName(q, nodes[i].tag, i)
    BY <2>1, <2>2 DEF TextNames
  <2>4. PICK n, e : n = nodes[i] /\ e = Step(n.tag, 0 - i) /\ p = Append(q, e)
    BY <2>3 DEF TextName
  <2>5. Sequence(q) /\ q # <<>> /\ Sequence(nodes)
    BY <1>5, <2>2
  <2>6. i \in Nat
    BY <2>5 DEF Sequence
  <2>7. Sequence(p) /\ p # <<>> /\ Last(p) = e /\ Front(p) = q /\ Len(p) = Len(q) + 1
    BY <2>4, <2>5, AppendFields
  <2>8. 0 - Last(p).place = i
    <3>1. e.place = 0 - i
      BY <2>4 DEF Step
    <3> QED
      BY <2>6, <2>7, <3>1
  <2>9. next[p] = Element([a \in {} |-> Token("")],
                          [j \in DOMAIN n.text |-> Text(Unquote(n.text[j]))])
    <3>1. W[Front(p)].nodes[0 - Last(p).place].text = n.text
      BY <2>2, <2>4, <2>7, <2>8
    <3> QED
      BY <1>1, <1>2, <1>4, <1>7, <3>1 DEF Parsed
  <2>10. DOMAIN next[p].attrs = {} /\ next[p].nodes = [j \in DOMAIN n.text |-> Text(Unquote(n.text[j]))]
    BY <2>9 DEF Element
  <2>11. IsWords(n.text) /\ \A t \in ToSet(n.text) : ~Bare(t)
    <3>1. ReadableNode(n, PartsAt(sub, doc, q))
      BY <1>5, <2>2, <2>3, <2>4 DEF ToSet
    <3>2. n.type = "simple"
      BY <2>3, <2>4
    <3> QED
      BY <3>1, <3>2 DEF ReadableNode, IsSimple, IsChild, Child
  <2>12. Sequence(next[p].nodes)
    BY <2>10, <2>11, FunctionSequence DEF IsWords
  <2>13. ASSUME NEW j \in DOMAIN next[p].nodes PROVE LegibleNode(next, p, next[p].nodes[j])
    <3>1. PICK t, m : t = n.text[j] /\ m = next[p].nodes[j]
      OBVIOUS
    <3>2. m = Text(Unquote(t)) /\ j \in DOMAIN n.text
      BY <2>10, <3>1
    <3>3. t \in ToSet(n.text)
      BY <3>1, <3>2 DEF ToSet
    <3>4. Escaped(t) /\ ~Bare(t)
      BY <2>11, <3>3 DEF IsWords
    <3>5. Escaped(Unquote(t))
      BY <3>4, UnquoteFields
    <3>6. m.type = "text" /\ m.token = Unquote(t)
      BY <3>2 DEF Text
    <3> QED
      BY <3>1, <3>5, <3>6 DEF LegibleNode
  <2> QED
    BY <1>4, <2>7, <2>10, <2>12, <2>13 DEF LegibleElement
<1>8. PICK h \in Nat : \A p \in DOMAIN doc : Len(p) <= h
  BY DEF Legible
<1>9. ASSUME NEW p \in DOMAIN next PROVE LegibleElement(next, p) /\ Len(p) <= h + 1
  <2>1. ASSUME NEW q \in P PROVE Len(q) \in Nat /\ Len(q) <= h
    BY <1>2, <1>5, <1>8
  <2>2. CASE p \in P
    BY <1>6, <2>1, <2>2
  <2>3. CASE p \in names /\ p \notin P
    BY <1>7, <2>1, <2>3
  <2> QED
    BY <1>4, <2>2, <2>3
<1>10. h + 1 \in Nat
  OBVIOUS
<1> QED
  BY <1>1, <1>9, <1>10 DEF Legible

-----------------------------------------------------------------------------
(* The invariant.  *)

\* A document as Doxygen writes it.
LEMMA DocumentIsLegible ==
  ASSUME NEW doc, IsDocument(doc)
  PROVE  Legible(doc)
<1>1. ASSUME NEW p \in DOMAIN doc PROVE LegibleElement(doc, p)
  <2>1. /\ p # <<>> /\ Sequence(p) /\ Sequence(doc[p].nodes)
        /\ Len(p) > 1 => Front(p) \in DOMAIN doc
        /\ \A a \in DOMAIN doc[p].attrs : IsToken(doc[p].attrs[a])
        /\ \A i \in DOMAIN doc[p].nodes : IsNode(doc, p, i, doc[p].nodes[i])
    BY DEF IsDocument
  <2>2. ASSUME NEW token, token = Token(token.kind) PROVE Escaped(token)
    BY <2>2, TokenFields
  <2>3. ASSUME NEW i \in DOMAIN doc[p].nodes PROVE LegibleNode(doc, p, doc[p].nodes[i])
    <3>1. PICK n : n = doc[p].nodes[i] /\ IsNode(doc, p, i, n)
      BY <2>1
    <3>2. CASE n.type \in {"text", "cdata"} /\ n.token = Token(n.token.kind)
      BY <2>2, <3>1, <3>2 DEF LegibleNode
    <3>3. CASE n.type = "element" /\ n.name \in DOMAIN doc /\ n.name = Append(p, Step(Tag(n.name), i))
      <4>1. PICK e : e = Step(Tag(n.name), i)
        OBVIOUS
      <4>2. Last(Append(p, e)) = e
        BY <2>1, AppendFields
      <4> QED
        BY <3>1, <3>3, <4>1, <4>2 DEF LegibleNode
    <3> QED
      BY <3>1, <3>2, <3>3 DEF IsNode
  <2>4. \A a \in DOMAIN doc[p].attrs : Escaped(doc[p].attrs[a])
    BY <2>1, <2>2 DEF IsToken
  <2> QED
    BY <2>1, <2>3, <2>4 DEF LegibleElement
<1>2. PICK q \in DOMAIN doc : \A p \in DOMAIN doc : Len(p) <= Len(q)
  BY DEF IsDocument
<1>3. Len(q) \in Nat
  BY <1>1 DEF LegibleElement, Sequence
<1> QED
  BY <1>1, <1>2, <1>3 DEF Legible

\* The objects are those of the document, and what is written is theirs.
Faithful ==
    /\ subclassed \in BOOLEAN
    /\ address \in Addresses
    /\ Legible(dom)
    /\ phase \in {"parsed", "printed", "literal", "literal cut short"} =>
         objects = <<BuildAll(subclassed, dom)>>
    /\ phase = "printed" => written = <<ExportAll(BuildAll(subclassed, dom), address)>>
    /\ phase \in {"literal", "literal cut short"} =>
         (phase = "literal" <=> ~LiteralRaises(BuildAll(subclassed, dom)))

LEMMA FaithfulInit ==
  ASSUME Init
  PROVE  Faithful
BY DocumentsAssumption, DocumentIsLegible DEF Init, Faithful

LEMMA FaithfulNext ==
  ASSUME Faithful, [Next]_vars
  PROVE  Faithful'
<1>0. PICK all : all = BuildAll(subclassed, dom)
  OBVIOUS
<1>1. CASE Parse
  BY <1>1 DEF Faithful, Parse
<1>2. CASE ParseRaises
  BY <1>2 DEF Faithful, ParseRaises
<1>3. CASE PrintXml
  <2>1. objects = <<all>>
    BY <1>0, <1>3 DEF Faithful, PrintXml
  <2>2. objects[1] = all
    BY <2>1
  <2>3. written' = <<ExportAll(all, address)>> /\ objects' = <<all>> /\ phase' = "printed"
        /\ dom' = dom /\ subclassed' = subclassed /\ address' = address
    BY <1>3, <2>1, <2>2 DEF PrintXml
  <2> QED
    BY <1>0, <2>3 DEF Faithful
<1>4. CASE PrintXmlRaises
  BY <1>4 DEF Faithful, PrintXmlRaises
<1>5. CASE PrintLiteral
  <2>1. objects = <<all>>
    BY <1>0, <1>5 DEF Faithful, PrintLiteral
  <2>2. objects[1] = all
    BY <2>1
  <2>3. /\ phase' = IF LiteralRaises(all) THEN "literal cut short" ELSE "literal"
        /\ objects' = <<all>> /\ dom' = dom /\ subclassed' = subclassed /\ address' = address
    BY <1>5, <2>1, <2>2 DEF PrintLiteral
  <2> QED
    BY <1>0, <2>3 DEF Faithful
<1>6. CASE Reload
  <2>1. written = <<ExportAll(all, address)>>
    BY <1>0, <1>6 DEF Faithful, Reload
  <2>2. written[1] = ExportAll(all, address)
    BY <2>1
  <2>3. WellFormed(ExportAll(all, address)) /\ dom' = Parsed(ExportAll(all, address)) /\ phase' = "file"
        /\ subclassed' = subclassed /\ address' = address
    BY <1>6, <2>2 DEF Reload
  <2>4. Legible(Parsed(ExportAll(all, address)))
    BY <1>0, <2>3, ParsedIsLegible DEF Faithful
  <2> QED
    BY <2>3, <2>4 DEF Faithful
<1>7. CASE ReloadRefused
  BY <1>7 DEF Faithful, ReloadRefused
<1>8. CASE Ended \/ UNCHANGED vars
  BY <1>8 DEF Faithful, Ended, vars
<1> QED
  BY <1>1, <1>2, <1>3, <1>4, <1>5, <1>6, <1>7, <1>8 DEF Next

THEOREM FaithfulAlways == Spec => []Faithful
<1>1. Init => Faithful
  BY FaithfulInit
<1>2. Faithful /\ [Next]_vars => Faithful'
  BY FaithfulNext
<1> QED
  BY <1>1, <1>2, PTL DEF Spec

-----------------------------------------------------------------------------
(* Writing as Python.  *)

\* The children of a tag whose text is kept.
KeptIn(doc, p, k) ==
    LET read == Children(doc[p].nodes, {k.tag})
    IN  {doc[p].nodes[i].name : i \in {j \in read :
                                  k.style = "texts" \/ \A l \in read : l <= j}}

HasAccent(texts) == \E t \in texts : Accented(t)
Texts(doc, names) == {NodeText(doc[q]) : q \in names}

NoneRead(doc, p, k) == Children(doc[p].nodes, {k.tag}) = {}

\* Which texts are kept, and when none is.
LEMMA TextsKept ==
  ASSUME NEW sub \in BOOLEAN, NEW doc, NEW p, Sequence(doc[p].nodes), NEW k, IsText(k)
  PROVE  /\ HasAccent(ToSet(BuildKid(sub, doc, doc[p].nodes, k))) <=>
              HasAccent(Texts(doc, KeptIn(doc, p, k)))
         /\ KeptIn(doc, p, k) = {} <=> NoneRead(doc, p, k)
<1>1. PICK nodes, C, read : /\ nodes = doc[p].nodes /\ C = Children(nodes, {k.tag})
                            /\ read = Kept(nodes, C)
  OBVIOUS
<1>2. C \subseteq DOMAIN nodes /\ Sequence(nodes)
  BY <1>1 DEF Children
<1>3. Sequence(read) /\ ToSet(read) = {nodes[i] : i \in C}
  <2>1. DOMAIN nodes \cap C = C
    BY <1>2
  <2>2. /\ Sequence(Kept(nodes, C))
        /\ ToSet(Kept(nodes, C)) = {nodes[i] : i \in DOMAIN nodes \cap C}
    BY <1>2, KeptSequence
  <2> QED
    BY <1>1, <2>1, <2>2
<1>4. PICK kept : kept = BuildKid(sub, doc, nodes, k)
  OBVIOUS
<1>5. CASE k.style = "texts"
  <2>1. kept = [i \in DOMAIN read |-> NodeText(doc[read[i].name])]
    BY <1>1, <1>4, <1>5 DEF BuildKid
  <2>2. ToSet(kept) = {NodeText(doc[n.name]) : n \in ToSet(read)}
    BY <2>1 DEF ToSet
  <2>3. KeptIn(doc, p, k) = {nodes[i].name : i \in C}
    BY <1>1, <1>5 DEF KeptIn
  <2>4. ToSet(kept) = Texts(doc, KeptIn(doc, p, k))
    BY <1>3, <2>2, <2>3 DEF Texts
  <2> QED
    BY <1>1, <1>4, <2>3, <2>4 DEF NoneRead
<1>6. CASE k.style = "text" /\ C = {}
  <2>1. read = <<>>
    BY <1>1, <1>2, <1>6, NoneKept
  <2>2. kept = <<>> \/ kept = << <<>> >>
    BY <1>1, <1>4, <1>6, <2>1 DEF BuildKid, Unset
  <2>3. ToSet(kept) = {} \/ ToSet(kept) = {<<>>}
    BY <2>2, OneSequence
  <2>4. ~Accented(<<>>)
    BY OneSequence DEF Accented
  <2>5. KeptIn(doc, p, k) = {}
    BY <1>1, <1>6 DEF KeptIn
  <2> QED
    BY <1>1, <1>4, <1>6, <2>3, <2>4, <2>5 DEF HasAccent, Texts, NoneRead
<1>7. CASE k.style = "text" /\ C # {}
  <2>1. PICK l \in Nat : DOMAIN nodes = 1 .. l
    BY <1>2 DEF Sequence
  <2>2. PICK m \in C : \A n \in C : n <= m
    BY <1>2, <1>7, <2>1, Greatest
  <2>3. Last(read) = nodes[m]
    BY <1>1, <1>2, <2>2, LastKept
  <2>4. read # <<>>
    BY <1>1, <1>2, <1>7, NoneKept
  <2>5. kept = <<NodeText(doc[nodes[m].name])>>
    BY <1>1, <1>4, <1>7, <2>3, <2>4 DEF BuildKid
  <2>6. ToSet(kept) = {NodeText(doc[nodes[m].name])}
    BY <2>5, OneSequence
  <2>7. {j \in C : \A n \in C : n <= j} = {m}
    BY <1>2, <2>1, <2>2
  <2>8. KeptIn(doc, p, k) = {nodes[m].name}
    BY <1>1, <1>7, <2>7 DEF KeptIn
  <2>9. ToSet(kept) = Texts(doc, KeptIn(doc, p, k))
    BY <2>6, <2>8 DEF Texts
  <2> QED
    BY <1>1, <1>4, <1>7, <2>8, <2>9 DEF NoneRead
<1> QED
  BY <1>5, <1>6, <1>7 DEF IsText

\* When a child kept as one is unset.
LEMMA UnsetKid ==
  ASSUME NEW sub \in BOOLEAN, NEW doc, NEW p, Sequence(doc[p].nodes), NEW k,
         k.style \in {"one", "text", "titled"}
  PROVE  BuildKid(sub, doc, doc[p].nodes, k) = <<>> <=>
           NoneRead(doc, p, k) /\ ~(sub /\ k.style = "text")
<1>1. PICK nodes, C, read : /\ nodes = doc[p].nodes /\ C = Children(nodes, {k.tag})
                            /\ read = Kept(nodes, C)
  OBVIOUS
<1>2. read = <<>> <=> C = {}
  <2>1. DOMAIN nodes \cap C = C
    BY <1>1 DEF Children
  <2> QED
    BY <1>1, <2>1, NoneKept
<1>3. PICK kept : kept = BuildKid(sub, doc, nodes, k)
  OBVIOUS
<1>4. CASE read = <<>>
  <2>1. kept = Unset(sub, k)
    BY <1>1, <1>3, <1>4 DEF BuildKid
  <2>2. kept = IF sub /\ k.style = "text" THEN << <<>> >> ELSE <<>>
    BY <2>1 DEF Unset
  <2>3. << <<>> >> # <<>>
    OBVIOUS
  <2> QED
    BY <1>1, <1>2, <1>3, <1>4, <2>2, <2>3 DEF NoneRead
<1>5. CASE read # <<>>
  <2>1. kept = <<IF IsText(k) THEN NodeText(doc[Last(read).name]) ELSE Last(read).name>>
    BY <1>1, <1>3, <1>5 DEF BuildKid
  <2>2. kept # <<>>
    BY <2>1
  <2> QED
    BY <1>1, <1>2, <1>3, <1>5, <2>2 DEF NoneRead
<1> QED
  BY <1>4, <1>5

\* The object has content, told from the document.
FilledAt(sub, doc, p) ==
    \E j \in KidsOf(ClassOf(sub, p)) : j.style \in {"many", "texts"} \/ ~NoneRead(doc, p, j)

FailsAt(sub, doc, p) ==
    \E k \in KidsOf(ClassOf(sub, p)) :
       /\ IsText(k)
       /\ \/ HasAccent(Texts(doc, KeptIn(doc, p, k)))
          \/ ~sub /\ k.style = "text" /\ NoneRead(doc, p, k) /\ FilledAt(sub, doc, p)

\* Writing an object of the plain kind as Python fails as the document says.
LEMMA LiteralTold ==
  ASSUME NEW sub \in BOOLEAN, NEW doc, Legible(doc), NEW p \in Read(sub, doc),
         Row(ClassOf(sub, p)).content = "plain"
  PROVE  LiteralFails(Build(sub, doc, p)) <=> FailsAt(sub, doc, p)
<1>1. PICK cls, obj : cls = ClassOf(sub, p) /\ obj = Build(sub, doc, p)
  OBVIOUS
<1>2. /\ p \in DOMAIN doc /\ Sequence(doc[p].nodes) /\ cls \in DOMAIN Rows
  <2>1. p \in DOMAIN doc /\ cls # ""
    BY <1>1 DEF Read
  <2>2. LegibleElement(doc, p)
    BY <2>1 DEF Legible
  <2> QED
    BY <1>1, <2>1, <2>2, ClassStep DEF LegibleElement, Classes
<1>3. obj.cls = cls /\ obj.sub = sub
  BY <1>1 DEF Build
<1>4. ASSUME NEW k \in KidsOf(cls)
      PROVE  /\ IsText(k) => (HasAccent(ToSet(obj.kids[k.tag])) <=>
                              HasAccent(Texts(doc, KeptIn(doc, p, k))))
             /\ k.style \notin {"many", "texts"} =>
                  (obj.kids[k.tag] = <<>> <=> NoneRead(doc, p, k) /\ ~(sub /\ k.style = "text"))
             /\ HasAccent(ToSet(obj.kids[k.tag])) => obj.kids[k.tag] # <<>>
  <2>1. obj.kids[k.tag] = BuildKid(sub, doc, doc[p].nodes, k)
    BY <1>1, KidsOfObject
  <2>2. k.style \in {"one", "many", "text", "texts", "titled"}
    BY <1>2, KidFields
  <2>3. ASSUME IsText(k)
        PROVE  HasAccent(ToSet(obj.kids[k.tag])) <=> HasAccent(Texts(doc, KeptIn(doc, p, k)))
    BY <1>2, <2>1, <2>3, TextsKept
  <2>4. ASSUME k.style \notin {"many", "texts"}
        PROVE  obj.kids[k.tag] = <<>> <=> NoneRead(doc, p, k) /\ ~(sub /\ k.style = "text")
    BY <1>2, <2>1, <2>2, <2>4, UnsetKid
  <2>5. ~HasAccent(ToSet(<<>>))
    BY OneSequence DEF HasAccent
  <2> QED
    BY <2>3, <2>4, <2>5
<1>5. LiteralFails(obj) <=>
        hasContent_(obj) /\ \E k \in KidsOf(cls) :
          \/ k.style = "text" /\ obj.kids[k.tag] = <<>>
          \/ IsText(k) /\ HasAccent(ToSet(obj.kids[k.tag]))
  BY <1>1, <1>3 DEF LiteralFails, HasAccent
<1>6. hasContent_(obj) <=>
        \E k \in KidsOf(cls) : \/ k.style \in {"many", "texts"} \/ obj.kids[k.tag] # <<>>
                               \/ k.style = "titled" /\ sub
  BY <1>3 DEF hasContent_
<1>7. ~sub => (hasContent_(obj) <=> FilledAt(sub, doc, p))
  BY <1>1, <1>4, <1>6 DEF FilledAt
<1>8. ASSUME NEW k \in KidsOf(cls), k.style = "text"
      PROVE  obj.kids[k.tag] = <<>> <=> ~sub /\ NoneRead(doc, p, k)
  BY <1>4, <1>8
<1>9. ASSUME LiteralFails(obj) PROVE FailsAt(sub, doc, p)
  <2>1. PICK k \in KidsOf(cls) : \/ k.style = "text" /\ obj.kids[k.tag] = <<>>
                                 \/ IsText(k) /\ HasAccent(ToSet(obj.kids[k.tag]))
    BY <1>5, <1>9
  <2>2. CASE k.style = "text" /\ obj.kids[k.tag] = <<>>
    <3>1. ~sub /\ NoneRead(doc, p, k) /\ IsText(k)
      BY <1>8, <2>2 DEF IsText
    <3>2. FilledAt(sub, doc, p)
      BY <1>5, <1>7, <1>9, <3>1
    <3> QED
      BY <1>1, <2>2, <3>1, <3>2 DEF FailsAt
  <2>3. CASE IsText(k) /\ HasAccent(ToSet(obj.kids[k.tag]))
    BY <1>1, <1>4, <2>3 DEF FailsAt
  <2> QED
    BY <2>1, <2>2, <2>3
<1>10. ASSUME FailsAt(sub, doc, p) PROVE LiteralFails(obj)
  <2>1. PICK k \in KidsOf(cls) :
          /\ IsText(k)
          /\ \/ HasAccent(Texts(doc, KeptIn(doc, p, k)))
             \/ ~sub /\ k.style = "text" /\ NoneRead(doc, p, k) /\ FilledAt(sub, doc, p)
    BY <1>1, <1>10 DEF FailsAt
  <2>2. CASE HasAccent(Texts(doc, KeptIn(doc, p, k)))
    <3>1. HasAccent(ToSet(obj.kids[k.tag])) /\ obj.kids[k.tag] # <<>>
      BY <1>4, <2>1, <2>2
    <3> QED
      BY <1>5, <1>6, <2>1, <3>1
  <2>3. CASE ~sub /\ k.style = "text" /\ NoneRead(doc, p, k) /\ FilledAt(sub, doc, p)
    BY <1>5, <1>7, <1>8, <2>3
  <2> QED
    BY <2>1, <2>2, <2>3
<1> QED
  BY <1>1, <1>9, <1>10

\* An element whose object can be written as Python.
EndsWell(sub, doc, p) ==
    /\ Row(ClassOf(sub, p)).content # "mixed"
    /\ Row(ClassOf(sub, p)).content = "plain" => ~FailsAt(sub, doc, p)

\* LiteralEndsOnlyFor: a document is written as Python to its end exactly
\* when no printed element is of the mixed kind, keeps a text with a letter
\* outside ASCII, or has an unset text beside content.
THEOREM LiteralAlways == Spec => []LiteralEndsOnlyFor
<1>1. ASSUME Faithful PROVE LiteralEndsOnlyFor
  <2>1. ASSUME NEW p \in Printed
        PROVE  EndsWell(subclassed, dom, p) <=>
                 /\ Content(p) # "mixed"
                 /\ Content(p) = "plain" =>
                      \A k \in {j \in KidsOf(Class(p)) : IsText(j)} :
                         /\ \A q \in KeptTexts(p, k) : ~Accented(NodeText(dom[q]))
                         /\ ~subclassed /\ k.style = "text" /\ KeptTexts(p, k) = {} =>
                              \A j \in KidsOf(Class(p)) :
                                 /\ j.style \notin {"many", "texts"}
                                 /\ Children(dom[p].nodes, {j.tag}) = {}
    <3>1. Legible(dom) /\ subclassed \in BOOLEAN
      BY <1>1 DEF Faithful
    <3>2. Sequence(dom[p].nodes)
      <4>1. p \in PrintedOf(subclassed, dom)
        BY PrintedHere
      <4> QED
        BY <3>1, <4>1, PrintedFields DEF LegibleElement
    <3>3. Class(p) = ClassOf(subclassed, p) /\ Content(p) = Row(ClassOf(subclassed, p)).content
      BY DEF Class, Content
    <3>4. \A k : KeptTexts(p, k) = KeptIn(dom, p, k)
      BY DEF KeptTexts, KeptIn
    <3>5. ASSUME NEW k, IsText(k)
          PROVE  /\ (\A q \in KeptTexts(p, k) : ~Accented(NodeText(dom[q]))) <=>
                      ~HasAccent(Texts(dom, KeptIn(dom, p, k)))
                 /\ KeptTexts(p, k) = {} <=> NoneRead(dom, p, k)
      <4>1. KeptIn(dom, p, k) = {} <=> NoneRead(dom, p, k)
        BY <3>1, <3>2, <3>5, TextsKept
      <4> QED
        BY <3>4, <4>1 DEF HasAccent, Texts
    <3>6. FilledAt(subclassed, dom, p) <=>
            ~\A j \in KidsOf(Class(p)) : /\ j.style \notin {"many", "texts"}
                                         /\ Children(dom[p].nodes, {j.tag}) = {}
      BY <3>3 DEF FilledAt, NoneRead
    <3>7. ~FailsAt(subclassed, dom, p) <=>
            \A k \in {j \in KidsOf(Class(p)) : IsText(j)} :
              /\ ~HasAccent(Texts(dom, KeptIn(dom, p, k)))
              /\ ~subclassed /\ k.style = "text" /\ NoneRead(dom, p, k) =>
                   ~FilledAt(subclassed, dom, p)
      BY <3>3 DEF FailsAt
    <3> QED
      BY <3>3, <3>5, <3>6, <3>7 DEF EndsWell
  <2>2. PICK all : all = BuildAll(subclassed, dom)
    OBVIOUS
  <2>3. /\ Legible(dom) /\ subclassed \in BOOLEAN
        /\ phase \in {"literal", "literal cut short"} => (phase = "literal" <=> ~LiteralRaises(all))
    BY <1>1, <2>2 DEF Faithful
  <2>4. Within(all) = Printed /\ Printed \subseteq Read(subclassed, dom)
    BY <2>2, <2>3, PrintedHere, PrintedIsWithin, PrintedIsRead
  <2>5. ASSUME NEW p \in Printed
        PROVE  Row(all[p].cls).content = "mixed" \/ LiteralFails(all[p]) <=>
                 ~EndsWell(subclassed, dom, p)
    <3>1. p \in Read(subclassed, dom)
      BY <2>4
    <3>2. all[p] = Build(subclassed, dom, p)
      BY <2>2, <3>1 DEF BuildAll
    <3>3. all[p].cls = ClassOf(subclassed, p)
      BY <3>2 DEF Build
    <3>4. LiteralFails(all[p]) => Row(all[p].cls).content = "plain"
      BY DEF LiteralFails
    <3>5. ASSUME Row(ClassOf(subclassed, p)).content = "plain"
          PROVE  LiteralFails(all[p]) <=> FailsAt(subclassed, dom, p)
      BY <2>3, <3>1, <3>2, <3>5, LiteralTold
    <3> QED
      BY <3>3, <3>4, <3>5 DEF EndsWell
  <2>6. LiteralRaises(all) <=> \E p \in Printed : ~EndsWell(subclassed, dom, p)
    <3>1. LiteralRaises(all) <=>
            \E p \in Printed : Row(all[p].cls).content = "mixed" \/ LiteralFails(all[p])
      BY <2>4 DEF LiteralRaises
    <3> QED
      BY <2>5, <3>1
  <2> QED
    BY <2>1, <2>3, <2>6 DEF LiteralEndsOnlyFor
<1> QED
  BY <1>1, FaithfulAlways, PTL

-----------------------------------------------------------------------------
(* Writing as XML.  *)

\* PrintedIsXml: what is printed is XML exactly when the attributes and the
\* texts of each printed element allow it.
THEOREM XmlAlways == Spec => []PrintedIsXml
<1>1. ASSUME Faithful PROVE PrintedIsXml
  <2> SUFFICES ASSUME phase = "printed"
               PROVE  WellFormed(written[1]) <=>
                        \A p \in Printed : ShouldBeXml(subclassed, dom, p)
    BY DEF PrintedIsXml, ShouldBeXml, Class, Content, Nodes
  <2>1. PICK W : W = ExportAll(BuildAll(subclassed, dom), address)
    OBVIOUS
  <2>2. Legible(dom) /\ written = <<W>> /\ subclassed \in BOOLEAN
    BY <1>1, <2>1 DEF Faithful
  <2>3. written[1] = W
    BY <2>2
  <2>4. /\ DOMAIN W = Printed /\ Printed \subseteq Read(subclassed, dom)
        /\ \A p \in Printed : W[p] = Export(Build(subclassed, dom, p), address)
    BY <2>1, <2>2, PrintedHere, PrintedIsWithin, WrittenFields
  <2>5. WellFormed(W) <=> \A p \in Printed : XmlElement(W[p])
    BY <2>4 DEF WellFormed, XmlElement
  <2>6. \A p \in Printed : XmlElement(W[p]) <=> ShouldBeXml(subclassed, dom, p)
    BY <2>2, <2>4, XmlWritten
  <2> QED
    BY <2>3, <2>5, <2>6
<1> QED
  BY <1>1, FaithfulAlways, PTL

-----------------------------------------------------------------------------
(* Taking the text out.  *)

\* The tokens of a document, and the empty line.
Words(doc) == {x.token : x \in UNION {ToSet(doc[p].nodes) : p \in DOMAIN doc}} \cup {Break}

\* The text of an element is made of them.
LEMMA NodeTextWords ==
  ASSUME NEW doc, NEW p \in DOMAIN doc, LegibleElement(doc, p)
  PROVE  NodeText(doc[p]) \in Seq(Words(doc))
<1>1. PICK nodes : nodes = doc[p].nodes /\ Sequence(nodes)
  BY DEF LegibleElement
<1>2. PICK places : places = Characters(nodes, {"text", "cdata"})
  OBVIOUS
<1>3. PICK read : read = Kept(nodes, places)
  OBVIOUS
<1>4. Sequence(read) /\ ToSet(read) = {nodes[i] : i \in DOMAIN nodes \cap places}
  BY <1>1, <1>3, KeptSequence
<1>5. NodeText(doc[p]) = [i \in DOMAIN read |-> read[i].token]
  BY <1>1, <1>2, <1>3 DEF NodeText
<1>6. ASSUME NEW i \in DOMAIN read PROVE read[i].token \in Words(doc)
  <2>1. read[i] \in ToSet(read)
    BY DEF ToSet
  <2>2. read[i] \in ToSet(nodes)
    BY <1>4, <2>1 DEF ToSet
  <2> QED
    BY <1>1, <2>2 DEF Words
<1>7. PICK l \in Nat : DOMAIN read = 1 .. l
  BY <1>4 DEF Sequence
<1>8. NodeText(doc[p]) \in [1 .. l -> Words(doc)]
  BY <1>5, <1>6, <1>7
<1> QED
  BY <1>8, SeqDef

\* Names have a length.
LEMMA NameLength ==
  ASSUME NEW doc, Legible(doc), NEW p \in DOMAIN doc
  PROVE  Len(p) \in Nat
BY DEF Legible, LegibleElement, Sequence

\* A child is a step further.
LEMMA ChildFields ==
  ASSUME NEW doc, Legible(doc), NEW p \in DOMAIN doc, NEW i \in DOMAIN doc[p].nodes,
         doc[p].nodes[i].type = "element"
  PROVE  /\ doc[p].nodes[i].name \in DOMAIN doc
         /\ LegibleElement(doc, doc[p].nodes[i].name)
         /\ Len(doc[p].nodes[i].name) = Len(p) + 1
         /\ Front(doc[p].nodes[i].name) = p
<1>1. LegibleElement(doc, p)
  BY DEF Legible
<1>2. p # <<>> /\ Sequence(p) /\ LegibleNode(doc, p, doc[p].nodes[i])
  BY <1>1 DEF LegibleElement
<1>3. PICK x : x = doc[p].nodes[i].name
  OBVIOUS
<1>4. x \in DOMAIN doc /\ x = Append(p, Last(x))
  BY <1>2, <1>3 DEF LegibleNode
<1>5. PICK e : e = Last(x)
  OBVIOUS
<1>6. Len(Append(p, e)) = Len(p) + 1 /\ Front(Append(p, e)) = p
  BY <1>2, AppendFields
<1>7. LegibleElement(doc, x)
  BY <1>4 DEF Legible
<1> QED
  BY <1>3, <1>4, <1>5, <1>6, <1>7

\* A node tells of the texts further down only.
TellsFromBelow(p, f, n) ==
    \A g : (\A q \in Read(subclassed, dom) : Len(q) > Len(p) => f[q] = g[q]) =>
             TellNode(p, f, n) = TellNode(p, g, n)

\* What it tells of a child.
Inner(x, f) == IF Class(x) = "" THEN NodeText(dom[x]) ELSE f[x]
Paragraph(tag, text) == IF tag = "para" THEN Append(text, Break) ELSE text

\* What each node tells.
LEMMA TellNodeFields ==
  ASSUME Legible(dom), NEW p \in DOMAIN dom, NEW i \in DOMAIN dom[p].nodes,
         NEW f, \A q \in Read(subclassed, dom) : f[q] \in Seq(Words(dom))
  PROVE  /\ TellNode(p, f, dom[p].nodes[i]) \in Seq(Words(dom))
         /\ TellsFromBelow(p, f, dom[p].nodes[i])
<1>1. PICK n : n = dom[p].nodes[i]
  OBVIOUS
<1>2. PICK V : V = Words(dom)
  OBVIOUS
<1>3. LegibleElement(dom, p)
  BY DEF Legible
<1>4. LegibleNode(dom, p, n)
  BY <1>1, <1>3 DEF LegibleElement
<1>5. n.type \in {"text", "cdata", "element"}
  BY <1>4 DEF LegibleNode
<1>6. CASE n.type = "text"
  <2>1. n \in ToSet(dom[p].nodes)
    BY <1>1 DEF ToSet
  <2>2. n.token \in V
    BY <1>2, <2>1 DEF Words
  <2>3. PICK t \in V : t = n.token
    BY <2>2
  <2>4. <<t>> \in Seq(V)
    OBVIOUS
  <2> QED
    BY <1>1, <1>2, <1>6, <2>3, <2>4 DEF TellNode, TellsFromBelow
<1>7. CASE n.type = "cdata" \/ (n.type = "element" /\ Tag(n.name) \notin Heard(Class(p)))
  <2>1. <<>> \in Seq(V)
    OBVIOUS
  <2> QED
    BY <1>1, <1>2, <1>7, <2>1 DEF TellNode, TellsFromBelow
<1>8. CASE n.type = "element" /\ Tag(n.name) \in Heard(Class(p))
  <2>1. PICK x : x = n.name
    OBVIOUS
  <2>2. x \in DOMAIN dom /\ LegibleElement(dom, x) /\ Len(x) = Len(p) + 1
    BY <1>1, <1>8, <2>1, ChildFields
  <2>3. Len(x) > Len(p)
    <3>1. Len(p) \in Nat
      BY <1>3 DEF LegibleElement, Sequence
    <3> QED
      BY <2>2, <3>1
  <2>4. NodeText(dom[x]) \in Seq(V)
    BY <1>2, <2>2, NodeTextWords
  <2>5. (Class(x) # "" => x \in Read(subclassed, dom) /\ f[x] \in Seq(V)) /\ Break \in V
    BY <1>2, <2>2 DEF Words, Read, Class
  <2>6. ASSUME NEW g PROVE TellNode(p, g, n) = Paragraph(Tag(x), Inner(x, g))
    <3>1. Class(n.name) = Class(x) /\ Tag(n.name) = Tag(x) /\ dom[n.name] = dom[x] /\ g[n.name] = g[x]
      BY <2>1
    <3>2. n.type # "text" /\ n.type # "cdata" /\ Tag(n.name) \in Heard(Class(p))
      BY <1>8
    <3>3. CASE Class(x) = ""
      <4>1. Inner(x, g) = NodeText(dom[n.name]) /\ Class(n.name) = ""
        BY <3>1, <3>3 DEF Inner
      <4> QED
        BY <3>1, <3>2, <4>1 DEF TellNode, Paragraph
    <3>4. CASE Class(x) # ""
      <4>1. Inner(x, g) = g[n.name] /\ Class(n.name) # ""
        BY <3>1, <3>4 DEF Inner
      <4> QED
        BY <3>1, <3>2, <4>1 DEF TellNode, Paragraph
    <3> QED
      BY <3>3, <3>4
  <2>7. Inner(x, f) \in Seq(V)
    BY <2>4, <2>5 DEF Inner
  <2>8. PICK text \in Seq(V) : text = Inner(x, f)
    BY <2>7
  <2>9. Paragraph(Tag(x), text) \in Seq(V)
    <3>1. Break \in V
      BY <2>5
    <3>2. Append(text, Break) \in Seq(V)
      BY <3>1
    <3> QED
      BY ONLY <2>8, <3>2 DEF Paragraph
  <2>10. ASSUME NEW g, \A q \in Read(subclassed, dom) : Len(q) > Len(p) => f[q] = g[q]
         PROVE  TellNode(p, f, n) = TellNode(p, g, n)
    <3>1. Inner(x, f) = Inner(x, g)
      BY <2>3, <2>5, <2>10 DEF Inner
    <3> QED
      BY <2>6, <3>1
  <2>11. TellNode(p, f, n) \in Seq(V)
    BY <2>6, <2>8, <2>9
  <2>12. TellsFromBelow(p, f, n)
    BY <2>10 DEF TellsFromBelow
  <2> QED
    BY <1>1, <1>2, <2>11, <2>12
<1> QED
  BY <1>5, <1>6, <1>7, <1>8

Tells(p, f) == [i \in DOMAIN dom[p].nodes |-> TellNode(p, f, dom[p].nodes[i])]

\* The text of each element is what its nodes tell.
LEMMA ToldSteps ==
  ASSUME Legible(dom)
  PROVE  /\ Told \in [DOMAIN dom -> Seq(Words(dom))]
         /\ \A p \in DOMAIN dom : Told[p] = Concat(Tells(p, Told))
<1> DEFINE Steps(t) == t = [p \in DOMAIN dom |->
      Concat([i \in DOMAIN dom[p].nodes |-> TellNode(p, t, dom[p].nodes[i])])]
<1>1. PICK D, S : D = DOMAIN dom /\ S = Seq(Words(dom))
  OBVIOUS
<1>1a. Read(subclassed, dom) \subseteq D
  BY <1>1 DEF Read
<1>2. PICK step : step = [k \in D \X [D -> S] |-> Concat(Tells(k[1], k[2]))]
  OBVIOUS
<1>3. ASSUME NEW p \in D, NEW f \in [D -> S]
      PROVE  /\ <<p, f>> \in D \X [D -> S]
             /\ step[<<p, f>>] = Concat(Tells(p, f))
             /\ Concat(Tells(p, f)) \in S
  <2>1. <<p, f>> \in D \X [D -> S] /\ <<p, f>>[1] = p /\ <<p, f>>[2] = f
    OBVIOUS
  <2>2. step[<<p, f>>] = Concat(Tells(p, f))
    BY <1>2, <2>1
  <2>3. PICK l \in Nat : DOMAIN dom[p].nodes = 1 .. l
    BY <1>1 DEF Legible, LegibleElement, Sequence
  <2>4. \A i \in 1 .. l : TellNode(p, f, dom[p].nodes[i]) \in S
    BY <1>1, <1>1a, <2>3, TellNodeFields
  <2>5. Tells(p, f) \in [1 .. l -> S]
    BY <2>3, <2>4 DEF Tells
  <2>6. Tells(p, f) \in Seq(S)
    BY <2>5, SeqDef
  <2>7. Concat(Tells(p, f)) \in S
    BY <1>1, <2>6, ConcatElements
  <2> QED
    BY <2>1, <2>2, <2>7
<1>4. step \in [D \X [D -> S] -> S]
  <2>1. ASSUME NEW k \in D \X [D -> S] PROVE Concat(Tells(k[1], k[2])) \in S
    <3>1. k[1] \in D /\ k[2] \in [D -> S]
      OBVIOUS
    <3> QED
      BY <1>3, <3>1
  <2> QED
    BY <1>2, <2>1
<1>5. <<>> \in S
  BY <1>1
<1>6. PICK h \in Nat : \A p \in D : Len(p) <= h
  BY <1>1 DEF Legible
<1>7. PICK rank : rank = [p \in D |-> Len(p)]
  OBVIOUS
<1>8. rank \in [D -> 0 .. h]
  <2>1. ASSUME NEW p \in D PROVE Len(p) \in 0 .. h
    BY <1>1, <1>6 DEF Legible, LegibleElement, Sequence
  <2> QED
    BY <1>7, <2>1
<1>9. ASSUME NEW p \in D, NEW f \in [D -> S], NEW g \in [D -> S],
             \A q \in D : rank[q] > rank[p] => f[q] = g[q]
      PROVE  step[<<p, f>>] = step[<<p, g>>]
  <2>1. \A q \in D : Len(q) > Len(p) => f[q] = g[q]
    BY <1>7, <1>9
  <2>2. \A i \in DOMAIN dom[p].nodes :
          TellNode(p, f, dom[p].nodes[i]) = TellNode(p, g, dom[p].nodes[i])
    BY <1>1, <1>1a, <2>1, TellNodeFields DEF TellsFromBelow
  <2>3. Tells(p, f) = Tells(p, g)
    BY <2>2 DEF Tells
  <2> QED
    BY <1>3, <2>3
<1>10. PICK t : TreeFunction(t, D, S, step)
  BY <1>4, <1>5, <1>6, <1>8, <1>9, TreeRecursion
<1>11. t \in [D -> S] /\ \A p \in D : t[p] = step[<<p, t>>]
  BY <1>10 DEF TreeFunction
<1>12. Steps(t)
  <2>1. ASSUME NEW p \in D PROVE t[p] =
          Concat([i \in DOMAIN dom[p].nodes |-> TellNode(p, t, dom[p].nodes[i])])
    BY <1>3, <1>11 DEF Tells
  <2> QED
    BY <1>1, <1>11, <2>1
<1>13. PICK told : told = CHOOSE u : Steps(u)
  OBVIOUS
<1>14. Steps(told)
  BY <1>12, <1>13
<1>15. DOMAIN told = D /\ \A p \in D : told[p] = Concat(Tells(p, told))
  BY <1>1, <1>14 DEF Tells
<1>16. PICK T : T = {p \in D : told[p] = t[p]}
  OBVIOUS
<1>17. ASSUME NEW p \in D, \A q \in D : rank[q] > rank[p] => q \in T PROVE p \in T
  <2>1. \A q \in D : Len(q) > Len(p) => t[q] = told[q]
    BY <1>7, <1>16, <1>17
  <2>2. \A i \in DOMAIN dom[p].nodes :
          TellNode(p, t, dom[p].nodes[i]) = TellNode(p, told, dom[p].nodes[i])
    BY <1>1, <1>1a, <1>11, <2>1, TellNodeFields DEF TellsFromBelow
  <2>3. Tells(p, t) = Tells(p, told)
    BY <2>2 DEF Tells
  <2> QED
    BY <1>3, <1>11, <1>15, <1>16, <2>3
<1>18. D \subseteq T
  BY <1>6, <1>8, <1>17, TreeInduction
<1>19. \A p \in D : told[p] \in S
  BY <1>11, <1>16, <1>18
<1>20. told = [p \in D |-> told[p]]
  BY <1>1, <1>14
<1>21. told \in [D -> S]
  BY <1>19, <1>20
<1>22. Told = told
  BY <1>13 DEF Told
<1> QED
  BY <1>1, <1>15, <1>21, <1>22

\* The classes whose text is asked for.
IsDescribed(cls) == cls = "docParaType" \/ HasContent(cls)

\* The nodes it is taken from, and what the object has of each.
Said(cls, nodes) == Characters(nodes, {"text"}) \cup Children(nodes, Heard(cls))

ItemOf(cls, doc, n) ==
    IF cls # "docParaType" THEN BuildItem(cls, doc, n)
    ELSE IF n.type = "text" THEN TextItem(n.token)
    ELSE Item("complex", "", <<>>, n.name)

ItemsOf(cls, doc, nodes) ==
    LET read == Kept(nodes, Said(cls, nodes))
    IN  IF IsDescribed(cls) THEN [j \in DOMAIN read |-> ItemOf(cls, doc, read[j])] ELSE <<>>

\* The items text.py goes through.
LEMMA ItemsFields ==
  ASSUME NEW sub, sub = TRUE, NEW doc, NEW p \in Read(sub, doc)
  PROVE  Items(BuildAll(sub, doc)[p]) = ItemsOf(ClassOf(sub, p), doc, doc[p].nodes)
<1>1. PICK cls, nodes, read : /\ cls = ClassOf(sub, p) /\ nodes = doc[p].nodes
                              /\ read = Kept(nodes, Said(cls, nodes))
  OBVIOUS
<1>2. PICK obj : obj = BuildAll(sub, doc)[p]
  OBVIOUS
<1>3. obj = Build(sub, doc, p)
  BY <1>2 DEF BuildAll
<1>4. obj.cls = cls /\ obj.sub = sub
  BY <1>1, <1>3 DEF Build
<1>5. CASE cls = "docParaType"
  <2>1. IsPara(obj.sub, obj.cls) /\ IsPara(sub, cls)
    BY <1>4, <1>5 DEF IsPara
  <2>2. obj.inline = BuildPara(nodes)
    BY <1>1, <1>3, <2>1 DEF Build
  <2>3. Items(obj) = BuildPara(nodes)
    BY <2>1, <2>2 DEF Items
  <2>4. Said(cls, nodes) = Characters(nodes, {"text"}) \cup Children(nodes, {"ref"})
    BY <1>5 DEF Said, Heard
  <2>5. BuildPara(nodes) = [j \in DOMAIN read |-> ItemOf(cls, doc, read[j])]
    BY <1>1, <1>5, <2>4 DEF BuildPara, ItemOf
  <2> QED
    BY <1>1, <1>2, <1>5, <2>3, <2>5 DEF IsDescribed, ItemsOf
<1>6. CASE cls # "docParaType" /\ HasContent(cls)
  <2>1. ~IsPara(obj.sub, obj.cls)
    BY <1>4, <1>6 DEF IsPara
  <2>2. obj.content = BuildContent(cls, doc, nodes)
    BY <1>1, <1>3, <1>6 DEF Build, HasContent
  <2>3. Said(cls, nodes) = Characters(nodes, {"text"}) \cup Children(nodes, KidTags(cls))
    BY <1>6 DEF Said, Heard
  <2>4. BuildContent(cls, doc, nodes) = [j \in DOMAIN read |-> ItemOf(cls, doc, read[j])]
    BY <1>1, <1>6, <2>3 DEF BuildContent, ItemOf
  <2> QED
    BY <1>1, <1>2, <1>6, <2>1, <2>2, <2>4 DEF IsDescribed, Items, ItemsOf
<1>7. CASE cls # "docParaType" /\ ~HasContent(cls)
  <2>1. ~IsPara(obj.sub, obj.cls)
    BY <1>4, <1>7 DEF IsPara
  <2>2. obj.content = <<>>
    BY <1>1, <1>3, <1>7 DEF Build, HasContent
  <2> QED
    BY <1>1, <1>2, <1>7, <2>1, <2>2 DEF IsDescribed, Items, ItemsOf
<1> QED
  BY <1>5, <1>6, <1>7

\* What text.py says of an item is what its node tells, and it asks for the
\* text of described elements only.
LEMMA ItemTells ==
  ASSUME Legible(dom), subclassed = TRUE, NEW p \in Read(subclassed, dom),
         IsDescribed(Class(p)), NEW i \in Said(Class(p), dom[p].nodes)
  PROVE  LET n == dom[p].nodes[i] IN
         /\ i \in DOMAIN dom[p].nodes
         /\ \A f : DescribeItem(f, ItemOf(Class(p), dom, n)) = TellNode(p, f, n)
         /\ n.type = "element" /\ Class(n.name) # "" =>
              n.name \in Read(subclassed, dom) /\ IsDescribed(Class(n.name))
<1>1. PICK n, cls, item : /\ n = dom[p].nodes[i] /\ cls = Class(p)
                          /\ item = ItemOf(cls, dom, n)
  OBVIOUS
<1>2. p \in DOMAIN dom /\ LegibleElement(dom, p) /\ cls \in DOMAIN Rows
  <2>1. p \in DOMAIN dom /\ cls # ""
    BY <1>1 DEF Read, Class
  <2>2. LegibleElement(dom, p)
    BY <2>1 DEF Legible
  <2> QED
    BY <1>1, <2>1, <2>2, ClassStep DEF LegibleElement, Classes, Class
<1>3. CASE i \in Characters(dom[p].nodes, {"text"})
  <2>1. i \in DOMAIN dom[p].nodes /\ n.type = "text"
    BY <1>1, <1>3 DEF Characters
  <2>2. PICK token : token = n.token
    OBVIOUS
  <2>3. item = TextItem(token)
    BY <1>1, <2>1, <2>2 DEF ItemOf, BuildItem
  <2>4. item.category = "text" /\ item.tag # "para" /\ item.text = <<token>>
    BY <2>3, TextItemFields
  <2>5. ASSUME NEW f PROVE DescribeItem(f, item) = TellNode(p, f, n)
    BY <2>1, <2>2, <2>4 DEF DescribeItem, TellNode
  <2> QED
    BY <1>1, <2>1, <2>5
<1>4. CASE i \in Children(dom[p].nodes, Heard(cls))
  <2>1. i \in DOMAIN dom[p].nodes /\ n.type = "element" /\ Tag(n.name) \in Heard(cls)
    BY <1>1, <1>4 DEF Children
  <2>2. PICK x, tag : x = n.name /\ tag = Tag(x)
    OBVIOUS
  <2>3. x \in DOMAIN dom /\ LegibleElement(dom, x) /\ Len(x) = Len(p) + 1 /\ Front(x) = p
    BY <1>1, <1>2, <2>1, <2>2, ChildFields
  <2>4. Class(x) = ReaderOf(subclassed, cls, tag)
    <3>1. Len(x) > 1
      BY <1>2, <2>3 DEF LegibleElement, Sequence
    <3> QED
      BY <1>1, <2>2, <2>3, <3>1, ClassStep DEF LegibleElement, Class
  <2>5. Class(x) # "" => x \in Read(subclassed, dom)
    BY <2>3 DEF Read, Class
  <2>6. ASSUME NEW f PROVE TellNode(p, f, n) = Paragraph(tag, Inner(x, f))
    BY <1>1, <2>1, <2>2 DEF TellNode, Paragraph, Inner
  <2>7. CASE cls = "docParaType"
    <3>1. tag = "ref" /\ KidTags(cls) = {}
      <4>1. Row(cls).kids = <<>>
        BY <2>7, SchemaAssumption
      <4> QED
        BY <2>1, <2>2, <2>7, <4>1, OneSequence DEF Heard, KidTags, KidsOf
    <3>2. Class(x) = "docRefTextType"
      BY <2>4, <2>7, <3>1, ParaFields DEF ReaderOf, IsPara
    <3>3. IsDescribed(Class(x)) /\ Class(x) # ""
      BY <3>2, SchemaAssumption DEF IsDescribed
    <3>4. item = Item("complex", "", <<>>, x)
      BY <1>1, <2>1, <2>2, <2>7 DEF ItemOf
    <3>5. item.category = "complex" /\ item.tag # "para" /\ item.name = x
      BY <3>4 DEF Item
    <3>6. ASSUME NEW f PROVE DescribeItem(f, item) = TellNode(p, f, n)
      <4>1. DescribeItem(f, item) = f[x]
        BY <3>5 DEF DescribeItem
      <4>2. Paragraph(tag, Inner(x, f)) = f[x]
        BY <3>1, <3>3 DEF Paragraph, Inner
      <4> QED
        BY <2>6, <4>1, <4>2
    <3> QED
      BY <1>1, <2>1, <2>2, <2>5, <3>3, <3>6
  <2>8. CASE cls # "docParaType"
    <3>1. tag \in KidTags(cls) /\ HasContent(cls)
      BY <1>1, <2>1, <2>2, <2>8 DEF Heard, IsDescribed
    <3>2. PICK k : k = KidOf(cls, tag) /\ k \in KidsOf(cls)
      BY <3>1, KidOfTag
    <3>3. Class(x) = k.cls
      BY <1>2, <2>4, <3>1, <3>2, SchemaAssumption DEF ReaderOf
    <3>4. item = BuildItem(cls, dom, n)
      BY <1>1, <2>8 DEF ItemOf
    <3>5. CASE IsText(k)
      <4>1. Class(x) = ""
        BY <1>2, <3>2, <3>3, <3>5, KidFields
      <4>2. item = Item("simple", tag, NodeText(dom[x]), <<>>)
        BY <2>1, <2>2, <3>2, <3>4, <3>5 DEF BuildItem
      <4>3. item.category = "simple" /\ item.tag = tag /\ item.text = NodeText(dom[x])
        BY <4>2 DEF Item
      <4>4. ASSUME NEW f PROVE DescribeItem(f, item) = Paragraph(tag, Inner(x, f))
        BY <4>1, <4>3 DEF DescribeItem, Paragraph, Inner
      <4> QED
        BY <1>1, <2>1, <2>2, <2>6, <4>1, <4>4
    <3>6. CASE ~IsText(k)
      <4>1. Class(x) # "" /\ IsDescribed(Class(x))
        BY <1>2, <3>1, <3>2, <3>3, <3>6, KidFields DEF HasContent, IsDescribed
      <4>2. item = Item("complex", tag, <<>>, x)
        BY <2>1, <2>2, <3>2, <3>4, <3>6 DEF BuildItem
      <4>3. item.category = "complex" /\ item.tag = tag /\ item.name = x
        BY <4>2 DEF Item
      <4>4. ASSUME NEW f PROVE DescribeItem(f, item) = Paragraph(tag, Inner(x, f))
        BY <4>1, <4>3 DEF DescribeItem, Paragraph, Inner
      <4> QED
        BY <1>1, <2>1, <2>2, <2>5, <2>6, <4>1, <4>4
    <3> QED
      BY <3>5, <3>6
  <2> QED
    BY <2>7, <2>8
<1> QED
  BY <1>1, <1>3, <1>4 DEF Said

\* What is joined for an element.
Saying(p, f) ==
    LET items == Items(BuildAll(subclassed, dom)[p])
    IN  [j \in DOMAIN items |-> DescribeItem(f, items[j])]

\* Each item tells of the texts further down only.
LEMMA SayingFields ==
  ASSUME Legible(dom), subclassed = TRUE, NEW p \in Read(subclassed, dom),
         NEW f, \A q \in Read(subclassed, dom) : f[q] \in Seq(Words(dom))
  PROVE  /\ Saying(p, f) \in Seq(Seq(Words(dom)))
         /\ \A g : (\A q \in Read(subclassed, dom) : Len(q) > Len(p) => f[q] = g[q]) =>
                      Saying(p, f) = Saying(p, g)
         /\ IsDescribed(Class(p)) => Concat(Saying(p, f)) = Concat(Tells(p, f))
<1>1. PICK cls, nodes, places, read, items :
        /\ cls = Class(p) /\ nodes = dom[p].nodes /\ places = Said(cls, nodes)
        /\ read = Kept(nodes, places) /\ items = Items(BuildAll(subclassed, dom)[p])
  OBVIOUS
<1>2. PICK S : S = Seq(Words(dom))
  OBVIOUS
<1>3. p \in DOMAIN dom /\ Sequence(nodes)
  BY <1>1 DEF Read, Legible, LegibleElement
<1>4. ASSUME NEW g PROVE Saying(p, g) = [j \in DOMAIN items |-> DescribeItem(g, items[j])]
  BY <1>1 DEF Saying
<1>5. items = IF IsDescribed(cls) THEN [j \in DOMAIN read |-> ItemOf(cls, dom, read[j])] ELSE <<>>
  <2>1. items = ItemsOf(cls, dom, nodes)
    BY <1>1, ItemsFields DEF Class
  <2> QED
    BY <1>1, <2>1 DEF ItemsOf
<1>6. CASE ~IsDescribed(cls)
  <2>1. items = <<>> /\ DOMAIN items = {}
    BY <1>5, <1>6
  <2>2. ASSUME NEW g PROVE Saying(p, g) = <<>>
    BY <1>4, <2>1
  <2>3. Saying(p, f) \in Seq(S)
    <3>1. <<>> \in Seq(S)
      OBVIOUS
    <3> QED
      BY <2>2, <3>1
  <2>4. \A g : Saying(p, f) = Saying(p, g)
    BY <2>2
  <2> QED
    BY <1>1, <1>2, <1>6, <2>3, <2>4
<1>7. CASE IsDescribed(cls)
  <2>1. items = [j \in DOMAIN read |-> ItemOf(cls, dom, read[j])]
    BY <1>5, <1>7
  <2>2. ASSUME NEW j \in DOMAIN read PROVE \E i \in DOMAIN nodes \cap places : read[j] = nodes[i]
    BY <1>1, <1>3, KeptAlike
  <2>3. ASSUME NEW j \in DOMAIN read, NEW g
        PROVE  DescribeItem(g, items[j]) = TellNode(p, g, read[j])
    <3>1. PICK i \in DOMAIN nodes \cap places : read[j] = nodes[i]
      BY <2>2
    <3>2. DescribeItem(g, ItemOf(cls, dom, nodes[i])) = TellNode(p, g, nodes[i])
      BY <1>1, <1>7, ItemTells
    <3> QED
      BY <2>1, <3>1, <3>2
  <2>4. ASSUME NEW j \in DOMAIN read
        PROVE  TellNode(p, f, read[j]) \in S /\ TellsFromBelow(p, f, read[j])
    <3>1. PICK i \in DOMAIN nodes \cap places : read[j] = nodes[i]
      BY <2>2
    <3> QED
      BY <1>1, <1>2, <1>3, <3>1, TellNodeFields
  <2>5. DOMAIN items = DOMAIN read
    BY <2>1
  <2>6. PICK l \in Nat : DOMAIN read = 1 .. l
    BY <1>1, <1>3, KeptSequence DEF Sequence
  <2>7. Saying(p, f) \in Seq(S)
    <3>1. Saying(p, f) \in [1 .. l -> S]
      BY <1>4, <2>3, <2>4, <2>5, <2>6
    <3> QED
      BY <3>1, SeqDef
  <2>8. ASSUME NEW g, \A q \in Read(subclassed, dom) : Len(q) > Len(p) => f[q] = g[q]
        PROVE  Saying(p, f) = Saying(p, g)
    <3>1. \A j \in DOMAIN read : TellNode(p, f, read[j]) = TellNode(p, g, read[j])
      BY <2>4, <2>8 DEF TellsFromBelow
    <3>2. \A j \in DOMAIN items : DescribeItem(f, items[j]) = DescribeItem(g, items[j])
      BY <2>3, <2>5, <3>1
    <3> QED
      BY <1>4, <3>2
  <2>9. Concat(Saying(p, f)) = Concat(Tells(p, f))
    <3>1. PICK t : t = Tells(p, f)
      OBVIOUS
    <3>2. DOMAIN t = DOMAIN nodes /\ \A i \in DOMAIN nodes : t[i] = TellNode(p, f, nodes[i])
      BY <1>1, <3>1 DEF Tells
    <3>3. t \in Seq(S)
      <4>1. PICK m \in Nat : DOMAIN nodes = 1 .. m
        BY <1>3 DEF Sequence
      <4>2. \A i \in 1 .. m : TellNode(p, f, nodes[i]) \in S
        BY <1>1, <1>2, <1>3, <4>1, TellNodeFields
      <4>3. t \in [1 .. m -> S]
        BY <1>1, <3>1, <4>1, <4>2 DEF Tells
      <4> QED
        BY <4>3, SeqDef
    <3>4. Sequence(t)
      BY <3>3, SequenceOf
    <3>5. /\ DOMAIN read = DOMAIN Kept(t, places)
          /\ \A j \in DOMAIN read : \E i \in DOMAIN nodes \cap places :
               read[j] = nodes[i] /\ Kept(t, places)[j] = t[i]
      BY <1>1, <1>3, <3>2, <3>4, KeptAlike
    <3>6. \A j \in DOMAIN read : Kept(t, places)[j] = TellNode(p, f, read[j])
      BY <3>2, <3>5
    <3>7. Kept(t, places) \in Seq(S) /\ Saying(p, f) \in Seq(S)
      BY <2>7, <3>3, KeptFields
    <3>8. \A j \in DOMAIN read : Saying(p, f)[j] = Kept(t, places)[j]
      BY <1>4, <2>3, <2>5, <3>6
    <3>9. DOMAIN Saying(p, f) = DOMAIN read
      BY <1>4, <2>5
    <3>10. Saying(p, f) = Kept(t, places)
      BY <2>6, <3>5, <3>7, <3>8, <3>9
    <3>11. ASSUME NEW i \in DOMAIN t, i \notin places PROVE t[i] = <<>>
      <4>1. LegibleNode(dom, p, nodes[i])
        BY <1>1, <1>3, <3>2 DEF Legible, LegibleElement
      <4>2. i \in DOMAIN nodes /\ nodes[i].type # "text"
        BY <1>1, <3>2, <3>11 DEF Said, Characters
      <4>3. nodes[i].type = "cdata" \/ Tag(nodes[i].name) \notin Heard(cls)
        BY <1>1, <3>11, <4>1, <4>2 DEF Said, Children, LegibleNode
      <4>4. TellNode(p, f, nodes[i]) = <<>>
        BY <1>1, <4>2, <4>3 DEF TellNode
      <4> QED
        BY <3>2, <4>2, <4>4
    <3>12. Concat(Kept(t, places)) = Concat(t)
      BY <1>2, <3>3, <3>11, ConcatKept
    <3> QED
      BY <3>1, <3>10, <3>12
  <2> QED
    BY <1>1, <1>2, <2>7, <2>8, <2>9
<1> QED
  BY <1>6, <1>7

\* What text.py takes out of each object is what its items say.
LEMMA BitsSteps ==
  ASSUME Legible(dom), subclassed = TRUE
  PROVE  LET bits == description_bit(BuildAll(subclassed, dom)) IN
         \A p \in Read(subclassed, dom) :
            bits[p] \in Seq(Words(dom)) /\ bits[p] = Concat(Saying(p, bits))
<1>0. PICK objs : objs = BuildAll(subclassed, dom)
  OBVIOUS
<1> DEFINE Steps(t) == t = [p \in DOMAIN objs |->
      Concat([i \in DOMAIN Items(objs[p]) |-> DescribeItem(t, Items(objs[p])[i])])]
<1>1. PICK D, S : D = Read(subclassed, dom) /\ S = Seq(Words(dom)) /\ D = DOMAIN objs
  BY <1>0 DEF BuildAll
<1>2. PICK step : step = [k \in D \X [D -> S] |-> Concat(Saying(k[1], k[2]))]
  OBVIOUS
<1>3. ASSUME NEW p \in D, NEW f \in [D -> S]
      PROVE  /\ <<p, f>> \in D \X [D -> S]
             /\ step[<<p, f>>] = Concat(Saying(p, f))
             /\ Concat(Saying(p, f)) \in S
  <2>1. <<p, f>> \in D \X [D -> S] /\ <<p, f>>[1] = p /\ <<p, f>>[2] = f
    OBVIOUS
  <2>2. step[<<p, f>>] = Concat(Saying(p, f))
    BY <1>2, <2>1
  <2>3. Saying(p, f) \in Seq(S)
    BY <1>1, SayingFields
  <2>4. Concat(Saying(p, f)) \in S
    BY <1>1, <2>3, ConcatElements
  <2> QED
    BY <2>1, <2>2, <2>4
<1>4. step \in [D \X [D -> S] -> S]
  <2>1. ASSUME NEW k \in D \X [D -> S] PROVE Concat(Saying(k[1], k[2])) \in S
    <3>1. k[1] \in D /\ k[2] \in [D -> S]
      OBVIOUS
    <3> QED
      BY <1>3, <3>1
  <2> QED
    BY <1>2, <2>1
<1>5. <<>> \in S
  BY <1>1
<1>6. PICK h \in Nat : \A p \in DOMAIN dom : Len(p) <= h
  BY DEF Legible
<1>7. PICK rank : rank = [p \in D |-> Len(p)]
  OBVIOUS
<1>8. rank \in [D -> 0 .. h]
  <2>1. ASSUME NEW p \in D PROVE Len(p) \in 0 .. h
    <3>1. p \in DOMAIN dom
      BY <1>1 DEF Read
    <3>2. Len(p) \in Nat
      BY <3>1, NameLength
    <3> QED
      BY <1>6, <3>1, <3>2
  <2> QED
    BY <1>7, <2>1
<1>9. ASSUME NEW p \in D, NEW f \in [D -> S], NEW g \in [D -> S],
             \A q \in D : rank[q] > rank[p] => f[q] = g[q]
      PROVE  step[<<p, f>>] = step[<<p, g>>]
  <2>1. \A q \in D : Len(q) > Len(p) => f[q] = g[q]
    BY <1>7, <1>9
  <2>2. Saying(p, f) = Saying(p, g)
    BY <1>1, <2>1, SayingFields
  <2> QED
    BY <1>3, <2>2
<1>10. PICK t : TreeFunction(t, D, S, step)
  BY <1>4, <1>5, <1>6, <1>8, <1>9, TreeRecursion
<1>11. t \in [D -> S] /\ \A p \in D : t[p] = step[<<p, t>>]
  BY <1>10 DEF TreeFunction
<1>12. Steps(t)
  <2>1. ASSUME NEW p \in D PROVE t[p] =
          Concat([i \in DOMAIN Items(objs[p]) |-> DescribeItem(t, Items(objs[p])[i])])
    BY <1>0, <1>3, <1>11 DEF Saying
  <2> QED
    BY <1>1, <1>11, <2>1
<1>13. PICK bits : bits = CHOOSE u : Steps(u)
  OBVIOUS
<1>14. Steps(bits)
  BY <1>12, <1>13
<1>15. \A p \in D : bits[p] = Concat(Saying(p, bits))
  BY <1>0, <1>1, <1>14 DEF Saying
<1>16. PICK T : T = {p \in D : bits[p] = t[p]}
  OBVIOUS
<1>17. ASSUME NEW p \in D, \A q \in D : rank[q] > rank[p] => q \in T PROVE p \in T
  <2>1. \A q \in D : Len(q) > Len(p) => t[q] = bits[q]
    BY <1>7, <1>16, <1>17
  <2>2. Saying(p, t) = Saying(p, bits)
    BY <1>1, <1>11, <2>1, SayingFields
  <2> QED
    BY <1>3, <1>11, <1>15, <1>16, <2>2
<1>18. D \subseteq T
  BY <1>6, <1>8, <1>17, TreeInduction
<1>19. \A p \in D : bits[p] \in S
  BY <1>11, <1>16, <1>18
<1>20. description_bit(BuildAll(subclassed, dom)) = bits
  BY <1>0, <1>13 DEF description_bit
<1> QED
  BY <1>1, <1>15, <1>19, <1>20

\* The text of an element that is described is the one it tells.
LEMMA BitsAreTold ==
  ASSUME Legible(dom), subclassed = TRUE, NEW x \in Read(subclassed, dom), IsDescribed(Class(x))
  PROVE  description_bit(BuildAll(subclassed, dom))[x] = Told[x]
<1>1. PICK bits : bits = description_bit(BuildAll(subclassed, dom))
  OBVIOUS
<1>2. PICK D, S : D = Read(subclassed, dom) /\ S = Seq(Words(dom)) /\ D \subseteq DOMAIN dom
  BY DEF Read
<1>3. \A p \in D : bits[p] \in S /\ bits[p] = Concat(Saying(p, bits))
  BY <1>1, <1>2, BitsSteps
<1>4. \A p \in D : Told[p] = Concat(Tells(p, Told))
  BY <1>2, ToldSteps
<1>5. PICK h \in Nat : \A p \in DOMAIN dom : Len(p) <= h
  BY DEF Legible
<1>6. PICK rank : rank = [p \in D |-> Len(p)]
  OBVIOUS
<1>7. rank \in [D -> 0 .. h]
  <2>1. ASSUME NEW p \in D PROVE Len(p) \in 0 .. h
    <3>1. p \in DOMAIN dom
      BY <1>2
    <3>2. Len(p) \in Nat
      BY <3>1, NameLength
    <3> QED
      BY <1>5, <3>1, <3>2
  <2> QED
    BY <1>6, <2>1
<1>8. PICK T : T = {p \in D : IsDescribed(Class(p)) => bits[p] = Told[p]}
  OBVIOUS
<1>9. ASSUME NEW p \in D, \A q \in D : rank[q] > rank[p] => q \in T PROVE p \in T
  <2> SUFFICES ASSUME IsDescribed(Class(p)) PROVE bits[p] = Told[p]
    BY <1>8
  <2>1. ASSUME NEW i \in DOMAIN dom[p].nodes
        PROVE  TellNode(p, bits, dom[p].nodes[i]) = TellNode(p, Told, dom[p].nodes[i])
    <3>1. PICK n, v : n = dom[p].nodes[i] /\ v = n.name
      OBVIOUS
    <3>2. CASE n.type = "element" /\ i \in Said(Class(p), dom[p].nodes) /\ Class(v) # ""
      <4>1. v \in D /\ IsDescribed(Class(v))
        BY <1>2, <3>1, <3>2, ItemTells
      <4>2. Len(v) = Len(p) + 1
        BY <1>2, <3>1, <3>2, ChildFields
      <4>3. Len(p) \in Nat
        BY <1>2 DEF Legible, LegibleElement, Sequence
      <4>4. rank[v] > rank[p]
        BY <1>6, <4>1, <4>2, <4>3
      <4>5. bits[v] = Told[v]
        BY <1>8, <1>9, <4>1, <4>4
      <4> QED
        BY <3>1, <4>5 DEF TellNode
    <3>3. CASE n.type # "element" \/ i \notin Said(Class(p), dom[p].nodes) \/ Class(v) = ""
      <4>1. LegibleNode(dom, p, n)
        BY <1>2, <3>1 DEF Legible, LegibleElement
      <4>2. \/ n.type = "text" \/ n.type = "cdata" \/ Class(v) = ""
            \/ n.type = "element" /\ Tag(v) \notin Heard(Class(p))
        BY <3>1, <3>3, <4>1 DEF Said, Children, LegibleNode
      <4> QED
        BY <3>1, <4>2 DEF TellNode
    <3> QED
      BY <3>2, <3>3
  <2>2. Tells(p, bits) = Tells(p, Told)
    BY <2>1 DEF Tells
  <2>3. Concat(Saying(p, bits)) = Concat(Tells(p, bits))
    BY <1>2, <1>3, SayingFields
  <2> QED
    BY <1>3, <1>4, <2>2, <2>3
<1>10. D \subseteq T
  BY <1>5, <1>7, <1>9, TreeInduction
<1> QED
  BY <1>1, <1>2, <1>8, <1>10

\* DescriptionText: the description of a class is the text of its paragraphs,
\* titles and references, in order, and no other.
THEOREM DescriptionAlways == Spec => []DescriptionText
<1>1. ASSUME Faithful PROVE DescriptionText
  <2> SUFFICES ASSUME phase = "parsed", subclassed, NEW p \in DOMAIN dom, Class(p) = "descriptionType"
               PROVE  description(objects[1], p) = Strip(Told[p])
    BY DEF DescriptionText
  <2>1. Legible(dom) /\ objects[1] = BuildAll(subclassed, dom)
    <3>1. PICK all : all = BuildAll(subclassed, dom)
      OBVIOUS
    <3>2. phase \in {"parsed", "printed", "literal"}
      OBVIOUS
    <3>3. objects = <<all>>
      BY <1>1, <3>1, <3>2 DEF Faithful
    <3>4. Legible(dom)
      BY <1>1 DEF Faithful
    <3> QED
      BY <3>1, <3>3, <3>4
  <2>1a. subclassed = TRUE
    BY <1>1, Zenon DEF Faithful
  <2>2. p \in Read(subclassed, dom)
    BY DEF Read, Class
  <2>3. IsDescribed(Class(p))
    BY SchemaAssumption DEF IsDescribed
  <2>4. description_bit(BuildAll(subclassed, dom))[p] = Told[p]
    BY <2>1, <2>1a, <2>2, <2>3, BitsAreTold
  <2> QED
    BY <2>1, <2>4 DEF description
<1> QED
  BY <1>1, FaithfulAlways, PTL

------------------------------------------------------------------------------
(* Printing what was printed and parsed once.  *)

\* A document as Doxygen writes it: nothing is escaped in it, and no element
\* has the name of a written text.
Fresh(doc) ==
    /\ Legible(doc)
    /\ \A p \in DOMAIN doc :
         /\ Len(p) > 1 => Last(p).place \in Nat
         /\ \A i \in DOMAIN doc[p].nodes :
              doc[p].nodes[i].type \in {"text", "cdata"} => doc[p].nodes[i].token.esc = 0

\* The documents the program starts with are so.
LEMMA FreshDocument ==
  ASSUME NEW doc, IsDocument(doc)
  PROVE  Fresh(doc)
<1>1. Legible(doc)
  BY DocumentIsLegible
<1>2. ASSUME NEW p \in DOMAIN doc, Len(p) > 1 PROVE Last(p).place \in Nat
  <2>1. PICK q : q = Front(p) /\ q \in DOMAIN doc /\ Child(p) \in ToSet(doc[q].nodes)
    BY <1>2 DEF IsDocument
  <2>2. PICK i \in DOMAIN doc[q].nodes : Child(p) = doc[q].nodes[i]
    BY <2>1 DEF ToSet
  <2>3. PICK n : n = doc[q].nodes[i] /\ n.type = "element" /\ n.name = p
    BY <2>2 DEF Child
  <2>4. IsNode(doc, q, i, n) /\ Sequence(doc[q].nodes) /\ Sequence(q)
    BY <2>1, <2>3 DEF IsDocument
  <2>5. PICK e : e = Step(Tag(p), i)
    OBVIOUS
  <2>6. p = Append(q, e)
    BY <2>3, <2>4, <2>5 DEF IsNode
  <2>7. Last(p) = e
    BY <2>4, <2>6, AppendFields
  <2>8. i \in Nat
    BY <2>4 DEF Sequence
  <2> QED
    BY <2>5, <2>7, <2>8 DEF Step
<1>3. ASSUME NEW p \in DOMAIN doc, NEW i \in DOMAIN doc[p].nodes,
             doc[p].nodes[i].type \in {"text", "cdata"}
      PROVE  doc[p].nodes[i].token.esc = 0
  <2>1. PICK n, t : n = doc[p].nodes[i] /\ t = n.token
    OBVIOUS
  <2>2. IsNode(doc, p, i, n)
    BY <2>1 DEF IsDocument
  <2>3. t = Token(t.kind)
    BY <1>3, <2>1, <2>2 DEF IsNode
  <2> QED
    BY <2>1, <2>3 DEF Token
<1> QED
  BY <1>1, <1>2, <1>3 DEF Fresh

\* What was printed, and what it is read back as.
Printing(sub, doc, at, W, again) ==
    /\ sub \in BOOLEAN /\ Fresh(doc) /\ at \in Addresses
    /\ W = ExportAll(BuildAll(sub, doc), at) /\ WellFormed(W)
    /\ again = Parsed(W)

AttrsBack(attrs) == [a \in DOMAIN attrs |-> Unquote(attrs[a].token)]
NodesBack(p, nodes) == [i \in DOMAIN nodes |-> ParsedNode(p, i, nodes[i])]
Unquoted(text) == [i \in DOMAIN text |-> Unquote(text[i])]

\* A printed element read back.
LEMMA AgainFields ==
  ASSUME NEW sub, NEW doc, NEW at, NEW W, NEW again, Printing(sub, doc, at, W, again),
         NEW p \in PrintedOf(sub, doc)
  PROVE  /\ sub \in BOOLEAN /\ Legible(doc) /\ Legible(again)
         /\ p \in Read(sub, doc) /\ p \in Read(sub, again) /\ ClassOf(sub, p) \in DOMAIN Rows
         /\ W[p] = Export(Build(sub, doc, p), at) /\ DOMAIN W = PrintedOf(sub, doc)
         /\ Sequence(p) /\ p # <<>>
         /\ again[p].attrs = AttrsBack(W[p].attrs) /\ again[p].nodes = NodesBack(p, W[p].nodes)
         /\ Sequence(W[p].nodes) /\ Sequence(again[p].nodes)
         /\ \A n \in ToSet(W[p].nodes) : ReadableNode(n, PartsAt(sub, doc, p))
<1>1. PICK P : P = PrintedOf(sub, doc)
  OBVIOUS
<1>2. /\ sub \in BOOLEAN /\ Legible(doc) /\ W = ExportAll(BuildAll(sub, doc), at) /\ WellFormed(W)
      /\ again = Parsed(W)
  BY DEF Printing, Fresh
<1>3. /\ DOMAIN W = P /\ W[p] = Export(Build(sub, doc, p), at) /\ p \in Read(sub, doc)
  BY <1>1, <1>2, WrittenFields, PrintedIsWithin
<1>4. Legible(again)
  BY <1>2, ParsedIsLegible
<1>5. /\ p \in DOMAIN doc /\ ClassOf(sub, p) # "" /\ Sequence(p) /\ p # <<>>
  BY <1>2, <1>3 DEF Read, Legible, LegibleElement
<1>6. ClassOf(sub, p) \in DOMAIN Rows
  BY <1>5, ClassStep DEF Classes
<1>7. XmlElement(W[p])
  BY <1>1, <1>2, <1>3 DEF WellFormed, XmlElement
<1>8. /\ Sequence(W[p].nodes)
      /\ \A n \in ToSet(W[p].nodes) : ReadableNode(n, PartsAt(sub, doc, p))
  BY <1>2, <1>3, <1>7, XmlWritten
<1>9. p \in DOMAIN again
  BY <1>1, <1>2, <1>3 DEF Parsed
<1>10. again[p] = Element(AttrsBack(W[p].attrs), NodesBack(p, W[p].nodes))
  BY <1>1, <1>2, <1>3, <1>9 DEF Parsed, AttrsBack, NodesBack
<1>11. again[p].attrs = AttrsBack(W[p].attrs) /\ again[p].nodes = NodesBack(p, W[p].nodes)
  BY <1>10 DEF Element
<1>12. Sequence(again[p].nodes)
  BY <1>4, <1>9 DEF Legible, LegibleElement
<1>13. p \in Read(sub, again)
  BY <1>5, <1>9 DEF Read
<1> QED
  BY <1>1, <1>2, <1>3, <1>4, <1>5, <1>6, <1>8, <1>11, <1>12, <1>13

\* A text read back has its tokens.
LEMMA UnquotedFields ==
  ASSUME NEW text, IsWords(text)
  PROVE  /\ DOMAIN Unquoted(text) = DOMAIN text
         /\ Unquoted(quote_xml(text)) = text
         /\ (\A t \in ToSet(text) : t.esc = 0 /\ ~Bare(t)) => Unquoted(text) = text
<1>1. \A j \in DOMAIN text : text[j] \in ToSet(text)
  BY DEF ToSet
<1>2. PICK l \in Nat : DOMAIN text = 1 .. l
  BY DEF IsWords, Sequence
<1>3. text = [j \in DOMAIN text |-> text[j]]
  BY DEF IsWords, Sequence
<1>4. ASSUME NEW j \in DOMAIN text PROVE Unquote(Quote(text[j])) = text[j]
  BY <1>1, QuoteFields DEF IsWords
<1>5. Unquoted(quote_xml(text)) = [j \in DOMAIN text |-> Unquote(Quote(text[j]))]
  BY DEF Unquoted, quote_xml
<1>6. Unquoted(quote_xml(text)) = text
  BY <1>3, <1>4, <1>5
<1>7. ASSUME \A t \in ToSet(text) : t.esc = 0 /\ ~Bare(t), NEW j \in DOMAIN text
      PROVE  Unquote(text[j]) = text[j]
  BY <1>1, <1>7 DEF Unquote, Bare
<1> QED
  BY <1>3, <1>6, <1>7 DEF Unquoted

\* Two sequences in a row.
Joined(S, a, b) ==
    /\ a \o b \in Seq(S) /\ Len(a \o b) = Len(a) + Len(b)
    /\ \A i \in 1 .. Len(a) : (a \o b)[i] = a[i]
    /\ \A i \in 1 .. Len(b) : (a \o b)[i + Len(a)] = b[i] /\ (a \o b)[Len(a) + i] = b[i]

LEMMA JoinedFields ==
  ASSUME NEW S, NEW a \in Seq(S), NEW b \in Seq(S)
  PROVE  Joined(S, a, b)
BY DEF Joined

\* The bytes literal's marks stay, and the text between them comes back.
LEMMA BytesBack ==
  ASSUME NEW text, IsWords(text)
  PROVE  /\ Unquoted(AsBytes(quote_xml(text))) = AsBytes(text)
         /\ IsWords(AsBytes(text)) /\ Len(AsBytes(text)) = Len(text) + 2
         /\ Len(text) \in Nat /\ Len(AsBytes(quote_xml(text))) = Len(text) + 2
<1>1. PICK S, a, z : S = ToSet(text) \cup ToSet(quote_xml(text)) \cup {Token("b'"), Token("'")}
                     /\ a = Token("b'") /\ z = Token("'")
  OBVIOUS
<1>2. IsWords(quote_xml(text))
  BY QuoteXmlFields
<1>3. PICK q : q = quote_xml(text) /\ q \in Seq(S) /\ text \in Seq(S)
  BY <1>1, <1>2, SuperSequence DEF IsWords, Sequence
<1>4. PICK l \in Nat : l = Len(text) /\ DOMAIN text = 1 .. l
  BY <1>3
<1>5. Len(q) = l /\ DOMAIN q = 1 .. l
  BY <1>3, <1>4 DEF quote_xml
<1>6. ASSUME NEW s \in Seq(S), Len(s) = l
      PROVE  /\ AsBytes(s) \in Seq(S) /\ Len(AsBytes(s)) = l + 2 /\ DOMAIN AsBytes(s) = 1 .. l + 2
             /\ AsBytes(s)[1] = a /\ AsBytes(s)[l + 2] = z
             /\ \A i \in 1 .. l : AsBytes(s)[i + 1] = s[i]
  <2>1. a \in S /\ z \in S
    BY <1>1
  <2>2. PICK b : b = <<a>>
    OBVIOUS
  <2>3. PICK e : e = <<z>>
    OBVIOUS
  <2>4. /\ b \in Seq(S) /\ Len(b) = 1 /\ b[1] = a
        /\ e \in Seq(S) /\ Len(e) = 1 /\ e[1] = z
    BY ONLY <2>1, <2>2, <2>3
  <2>5. PICK u : u = b \o s
    OBVIOUS
  <2>6. u \in Seq(S) /\ Len(u) = l + 1 /\ u[1] = a /\ \A i \in 1 .. l : u[i + 1] = s[i]
    <3>1. s \in Seq(S) /\ Len(s) = l /\ l \in Nat
      BY <1>6
    <3> QED
      <4>1. Joined(S, b, s)
        BY ONLY <2>4, <3>1, JoinedFields
      <4> QED
        BY ONLY <2>4, <2>5, <3>1, <4>1 DEF Joined
  <2>7. PICK v : v = u \o e
    OBVIOUS
  <2>8. PICK h \in Nat : h = l + 1
    OBVIOUS
  <2>9. v \in Seq(S) /\ Len(v) = h + 1 /\ v[h + 1] = z /\ \A i \in 1 .. h : v[i] = u[i]
    <3>1. u \in Seq(S) /\ Len(u) = h /\ h \in Nat
      BY <2>6, <2>8
    <3> QED
      <4>1. Joined(S, u, e)
        BY ONLY <2>4, <3>1, JoinedFields
      <4> QED
        BY ONLY <2>4, <2>7, <3>1, <4>1 DEF Joined
  <2>10. v[1] = a /\ \A i \in 1 .. l : v[i + 1] = s[i]
    BY <2>6, <2>8, <2>9
  <2>11. AsBytes(s) = v
    BY <1>1, <2>2, <2>3, <2>5, <2>7 DEF AsBytes
  <2>12. h + 1 = l + 2
    BY <2>8
  <2> QED
    BY <2>9, <2>10, <2>11, <2>12
<1>7. PICK m \in Nat : m = l + 2 /\ 1 \in 1 .. m /\ m \in 1 .. m
  OBVIOUS
<1>8. PICK w, v : w = AsBytes(q) /\ v = AsBytes(text)
  OBVIOUS
<1>9. /\ v \in Seq(S) /\ Len(v) = m /\ DOMAIN v = 1 .. m /\ v[1] = a /\ v[m] = z
      /\ \A i \in 1 .. l : v[i + 1] = text[i]
  BY <1>3, <1>4, <1>6, <1>7, <1>8
<1>10. /\ w \in Seq(S) /\ Len(w) = m /\ DOMAIN w = 1 .. m /\ w[1] = a /\ w[m] = z
       /\ \A i \in 1 .. l : w[i + 1] = q[i]
  BY <1>3, <1>5, <1>6, <1>7, <1>8
<1>11. Unquote(a) = a /\ Unquote(z) = z
  BY <1>1 DEF Unquote, Token
<1>12. ASSUME NEW i \in 1 .. l PROVE Unquote(q[i]) = text[i]
  <2>1. text[i] \in ToSet(text)
    BY <1>4 DEF ToSet
  <2>2. q[i] = Quote(text[i])
    BY <1>3, <1>4 DEF quote_xml
  <2> QED
    BY <2>1, <2>2, QuoteFields DEF IsWords
<1>13. ASSUME NEW i \in 1 .. m PROVE Unquote(w[i]) = v[i]
  <2>1. CASE i = 1
    BY <1>9, <1>10, <1>11, <2>1
  <2>2. CASE i = m
    BY <1>9, <1>10, <1>11, <2>2
  <2>3. CASE i # 1 /\ i # m
    <3>1. PICK j \in 1 .. l : i = j + 1
      BY <1>7, <2>3
    <3> QED
      BY <1>9, <1>10, <1>12, <3>1
  <2> QED
    BY <2>1, <2>2, <2>3
<1>14. Unquoted(w) = v
  <2>1. Unquoted(w) = [i \in 1 .. m |-> Unquote(w[i])]
    BY <1>10 DEF Unquoted
  <2>2. v = [i \in 1 .. m |-> v[i]]
    BY <1>9
  <2> QED
    BY <1>13, <2>1, <2>2
<1> QED
  BY <1>3, <1>4, <1>7, <1>8, <1>9, <1>10, <1>14, AsBytesFields

\* A child that was written as a text, read back: an element of its own.
LEMMA TextAgain ==
  ASSUME NEW sub, NEW doc, NEW at, NEW W, NEW again, Printing(sub, doc, at, W, again),
         NEW p \in PrintedOf(sub, doc), NEW i \in DOMAIN W[p].nodes,
         NEW n, n = W[p].nodes[i], n.type = "simple", NEW x, x = TextName(p, n.tag, i)
  PROVE  /\ x \in DOMAIN again /\ x \notin PrintedOf(sub, doc) /\ Tag(x) = n.tag
         /\ again[p].nodes[i] = Child(x)
         /\ NodeText(again[x]) = Unquoted(n.text) /\ IsSimple(n)
<1>1. PICK P, nodes : P = PrintedOf(sub, doc) /\ nodes = W[p].nodes
  OBVIOUS
<1>2. /\ Legible(doc) /\ Fresh(doc) /\ Legible(again) /\ DOMAIN W = P /\ again = Parsed(W)
      /\ Sequence(p) /\ p # <<>> /\ Sequence(nodes)
      /\ again[p].nodes = NodesBack(p, nodes)
      /\ \A m \in ToSet(nodes) : ReadableNode(m, PartsAt(sub, doc, p))
  BY <1>1, AgainFields DEF Printing
<1>3. PICK e : e = Step(n.tag, 0 - i) /\ x = Append(p, e)
  BY DEF TextName
<1>4. i \in Nat /\ i # 0
  BY <1>1, <1>2 DEF Sequence
<1>5. Sequence(x) /\ Last(x) = e /\ Front(x) = p /\ Len(x) > 1
  <2>1. Sequence(x) /\ Last(x) = e /\ Front(x) = p /\ Len(x) = Len(p) + 1
    BY <1>2, <1>3, AppendFields
  <2>2. Len(p) \in Nat /\ Len(p) # 0
    BY <1>2 DEF Sequence
  <2> QED
    BY <2>1, <2>2
<1>6. e.place = 0 - i /\ e.tag = n.tag
  BY <1>3 DEF Step
<1>7. x \notin P
  <2>1. x \in P => x \in DOMAIN doc
    BY <1>1 DEF PrintedOf
  <2>2. x \in DOMAIN doc => 0 - i \in Nat
    BY <1>2, <1>5, <1>6 DEF Fresh
  <2>3. 0 - i \notin Nat
    BY <1>4
  <2> QED
    BY <2>1, <2>2, <2>3
<1>8. x \in DOMAIN again
  <2>1. x \in TextNames(p, nodes)
    BY <1>1 DEF TextNames
  <2> QED
    BY <1>1, <1>2, <2>1 DEF Parsed
<1>9. again[x] = Element([a \in {} |-> Token("")],
                         [j \in DOMAIN n.text |-> Text(Unquote(n.text[j]))])
  <2>1. 0 - Last(x).place = i
    BY <1>4, <1>5, <1>6
  <2>2. W[Front(x)].nodes[0 - Last(x).place].text = n.text
    BY <1>1, <1>5, <2>1
  <2> QED
    BY <1>2, <1>7, <1>8, <2>2 DEF Parsed
<1>10. IsSimple(n)
  <2>1. n \in ToSet(nodes)
    BY <1>1 DEF ToSet
  <2>2. ReadableNode(n, PartsAt(sub, doc, p))
    BY <1>2, <2>1
  <2> QED
    BY <2>2 DEF ReadableNode, IsChild, Child
<1>11. NodeText(again[x]) = Unquoted(n.text)
  <2>1. PICK words, text : /\ text = n.text /\ words = [j \in DOMAIN text |-> Text(Unquote(text[j]))]
    OBVIOUS
  <2>2. again[x].nodes = words
    BY <1>9, <2>1 DEF Element
  <2>3. Sequence(words)
    BY <1>10, <2>1, FunctionSequence DEF IsSimple, IsWords
  <2>4. \A j \in DOMAIN words : words[j].type = "text" /\ words[j].token = Unquote(text[j])
    BY <2>1 DEF Text
  <2>5. PICK C : C = Characters(words, {"text", "cdata"})
    OBVIOUS
  <2>6. DOMAIN words \subseteq C
    BY <2>4, <2>5 DEF Characters
  <2>7. Kept(words, C) = words
    BY <2>3, <2>6, KeptAll
  <2>8. NodeText(again[x]) = [j \in DOMAIN words |-> words[j].token]
    BY <2>2, <2>5, <2>7 DEF NodeText
  <2> QED
    BY <2>1, <2>4, <2>8 DEF Unquoted
<1>12. again[p].nodes[i] = Child(x)
  BY <1>1, <1>2 DEF NodesBack, ParsedNode
<1> QED
  BY <1>1, <1>5, <1>6, <1>7, <1>8, <1>10, <1>11, <1>12 DEF Tag

\* An element read back is one that was printed, or further down.
LEMMA AgainNames ==
  ASSUME NEW sub, NEW doc, NEW at, NEW W, NEW again, Printing(sub, doc, at, W, again), NEW x \in DOMAIN again
  PROVE  x \in PrintedOf(sub, doc) \/ Len(x) > 1
<1>1. PICK P : P = PrintedOf(sub, doc)
  OBVIOUS
<1>2. Legible(doc) /\ DOMAIN W = P /\ again = Parsed(W) /\ P \subseteq DOMAIN doc
  BY <1>1, WrittenFields DEF Printing, Fresh, PrintedOf
<1>3. ASSUME x \notin P PROVE Len(x) > 1
  <2>1. PICK q \in P : x \in TextNames(q, W[q].nodes)
    BY <1>2, <1>3 DEF Parsed
  <2>2. PICK e : x = Append(q, e)
    BY <2>1 DEF TextNames, TextName
  <2>3. Sequence(q) /\ q # <<>>
    BY <1>2 DEF Legible, LegibleElement
  <2>4. Len(x) = Len(q) + 1
    BY <2>2, <2>3, AppendFields
  <2>5. Len(q) \in Nat /\ Len(q) # 0
    BY <2>3 DEF Sequence
  <2> QED
    BY <2>4, <2>5
<1> QED
  BY <1>1, <1>3

\* The attributes come back, and are written alike again.
LEMMA AttributesAgain ==
  ASSUME NEW sub, NEW doc, NEW at, NEW W, NEW again, Printing(sub, doc, at, W, again),
         NEW p \in PrintedOf(sub, doc)
  PROVE  exportAttributes(Build(sub, again, p)) = W[p].attrs
<1>1. PICK cls, D : cls = ClassOf(sub, p) /\ D = Demanded(cls)
  OBVIOUS
<1>2. PICK A : A = W[p].attrs
  OBVIOUS
<1>3. PICK B : B = exportAttributes(Build(sub, again, p))
  OBVIOUS
<1>4. /\ Legible(doc) /\ Legible(again) /\ p \in Read(sub, doc) /\ p \in Read(sub, again)
      /\ W[p] = Export(Build(sub, doc, p), at) /\ again[p].attrs = AttrsBack(A)
  BY <1>2, AgainFields
<1>5. A = WrittenAttrs(sub, doc, p)
  <2>1. A = exportAttributes(Build(sub, doc, p))
    BY <1>2, <1>4 DEF Export, Element
  <2> QED
    BY <1>4, <2>1, AttributesWritten
<1>6. B = WrittenAttrs(sub, again, p) /\ D \subseteq Named(cls)
  BY <1>1, <1>3, <1>4, AttributesWritten
<1>7. PICK N, E : N = Named(cls) /\ E = DOMAIN A
  OBVIOUS
<1>8. E = (N \cap DOMAIN doc[p].attrs) \cup D /\ E \subseteq N
  BY <1>1, <1>5, <1>6, <1>7 DEF WrittenAttrs
<1>9. DOMAIN again[p].attrs = E
  BY <1>4, <1>7 DEF AttrsBack
<1>10. DOMAIN B = E
  <2>1. DOMAIN B = (N \cap E) \cup D
    BY <1>1, <1>6, <1>7, <1>9 DEF WrittenAttrs
  <2> QED
    BY <1>8, <2>1
<1>11. ASSUME NEW a \in E PROVE B[a] = A[a]
  <2>1. PICK t : t = IF a \in DOMAIN doc[p].attrs THEN doc[p].attrs[a] ELSE Token("None")
    OBVIOUS
  <2>2. Escaped(t)
    BY <1>4, <2>1, TokenFields DEF Read, Legible, LegibleElement
  <2>3. A[a] = [token |-> Quote(t), bytes |-> a \in Encoded(cls)]
    BY <1>1, <1>5, <1>7, <2>1 DEF WrittenAttrs
  <2>4. again[p].attrs[a] = t
    <3>1. again[p].attrs[a] = Unquote(A[a].token)
      BY <1>4, <1>7 DEF AttrsBack
    <3> QED
      BY <2>2, <2>3, <3>1, QuoteFields
  <2>5. B[a] = [token |-> Quote(again[p].attrs[a]), bytes |-> a \in Encoded(cls)]
    <3>1. a \in DOMAIN again[p].attrs /\ a \in (Named(cls) \cap DOMAIN again[p].attrs) \cup Demanded(cls)
      BY <1>7, <1>8, <1>9
    <3> QED
      BY <1>1, <1>6, <3>1 DEF WrittenAttrs
  <2> QED
    BY <2>3, <2>4, <2>5
<1>12. A = [a \in E |-> A[a]] /\ B = [a \in E |-> B[a]]
  BY <1>5, <1>6, <1>7, <1>10 DEF WrittenAttrs
<1> QED
  BY <1>2, <1>3, <1>11, <1>12

\* Escaping twice is escaping more.
LEMMA QuoteTwice ==
  ASSUME NEW t, Escaped(t)
  PROVE  /\ Quote(t).kind = t.kind
         /\ Quote(Quote(t)) = Quote(t) <=> t.kind # "markup"
<1>1. PICK k, n : k = t.kind /\ n = t.esc
  OBVIOUS
<1>2. n \in Nat /\ t = [kind |-> k, esc |-> n]
  BY <1>1 DEF Escaped
<1>3. CASE k = "markup"
  <2>1. PICK a, b : a = [kind |-> k, esc |-> n + 1] /\ b = [kind |-> k, esc |-> n + 1 + 1]
    OBVIOUS
  <2>2. Quote(t) = a
    BY <1>2, <1>3, <2>1 DEF Quote
  <2>3. Quote(a) = b
    BY <1>3, <2>1 DEF Quote
  <2>4. a.esc # b.esc
    BY <1>2, <2>1
  <2> QED
    BY <1>1, <1>3, <2>1, <2>2, <2>3, <2>4
<1>4. CASE k # "markup"
  BY <1>1, <1>4 DEF Quote
<1> QED
  BY <1>3, <1>4

\* A text of an object's own comes back, and is written alike again but for
\* the sections whose characters are escaped once more.
LEMMA ValueAgain ==
  ASSUME NEW sub, NEW doc, NEW at, NEW now, NEW W, NEW again, Printing(sub, doc, at, W, again),
         NEW p \in PrintedOf(sub, doc), Row(ClassOf(sub, p)).content \in {"value", "mixedvalue"}
  PROVE  exportChildren(Build(sub, again, p), now) = W[p].nodes <=>
           \A n \in ToSet(again[p].nodes) : n.type = "cdata" => n.token.kind # "markup"
<1>1. PICK w, v, out : /\ w = W[p].nodes /\ v = again[p].nodes
                       /\ out = exportChildren(Build(sub, again, p), now)
  OBVIOUS
<1>2. /\ Legible(doc) /\ p \in Read(sub, doc) /\ W[p] = Export(Build(sub, doc, p), at)
      /\ v = NodesBack(p, w) /\ Sequence(w) /\ Sequence(v)
  BY <1>1, AgainFields
<1>3. w = exportChildren(Build(sub, doc, p), at)
  BY <1>1, <1>2 DEF Export, Element
<1>4. PICK nodes : nodes = doc[p].nodes
  OBVIOUS
<1>5. ToSet(w) = {[type |-> nodes[i].type, token |-> Quote(nodes[i].token)] :
                    i \in Characters(nodes, {"text", "cdata"})}
  <2>1. ToSet(exportChildren(Build(sub, doc, p), at)) = QuotedNodes(doc[p].nodes)
    BY <1>2, ValueChildren
  <2> QED
    BY <1>3, <1>4, <2>1 DEF QuotedNodes
<1>6. DOMAIN v = DOMAIN w
  BY <1>2 DEF NodesBack
<1>7. ASSUME NEW i \in DOMAIN w
      PROVE  /\ v[i].type \in {"text", "cdata"}
             /\ w[i] = [type |-> v[i].type, token |-> Quote(v[i].token)] <=>
                  (v[i].type = "cdata" => v[i].token.kind # "markup")
  <2>1. PICK j \in Characters(nodes, {"text", "cdata"}) :
          w[i] = [type |-> nodes[j].type, token |-> Quote(nodes[j].token)]
    BY <1>5 DEF ToSet
  <2>2. PICK s, t : s = nodes[j].type /\ t = nodes[j].token
    OBVIOUS
  <2>3. j \in DOMAIN nodes /\ s \in {"text", "cdata"}
    BY <2>1, <2>2 DEF Characters
  <2>4. LegibleNode(doc, p, nodes[j])
    BY <1>2, <1>4, <2>3 DEF Read, Legible, LegibleElement
  <2>5. Escaped(t)
    BY <2>2, <2>3, <2>4 DEF LegibleNode
  <2>6. w[i].type = s /\ w[i].token = Quote(t) /\ w[i] = [type |-> s, token |-> Quote(t)]
    BY <2>1, <2>2
  <2>7. v[i] = ParsedNode(p, i, w[i])
    BY <1>2 DEF NodesBack
  <2>8. CASE s = "text"
    <3>1. v[i] = Text(Unquote(Quote(t)))
      BY <2>6, <2>7, <2>8 DEF ParsedNode
    <3>2. v[i].type = "text" /\ v[i].token = t
      BY <2>5, <3>1, QuoteFields DEF Text
    <3> QED
      BY <2>6, <2>8, <3>2
  <2>9. CASE s = "cdata"
    <3>1. v[i] = w[i]
      BY <2>6, <2>7, <2>9 DEF ParsedNode
    <3>2. v[i].type = "cdata" /\ v[i].token = Quote(t) /\ v[i].token.kind = t.kind
      BY <2>5, <2>6, <2>9, <3>1, QuoteTwice
    <3>3. w[i] = [type |-> s, token |-> Quote(Quote(t))] <=> Quote(Quote(t)) = Quote(t)
      BY <2>6
    <3> QED
      BY <2>5, <2>9, <3>2, <3>3, QuoteTwice
  <2> QED
    BY <2>3, <2>8, <2>9
<1>8. out = [i \in DOMAIN w |-> [type |-> v[i].type, token |-> Quote(v[i].token)]]
  <2>1. PICK C : C = Characters(v, {"text", "cdata"})
    OBVIOUS
  <2>2. DOMAIN v \subseteq C
    BY <1>6, <1>7, <2>1 DEF Characters
  <2>3. Kept(v, C) = v
    BY <1>2, <2>2, KeptAll
  <2>4. PICK obj : obj = Build(sub, again, p)
    OBVIOUS
  <2>5. obj.value = v /\ obj.cls = ClassOf(sub, p)
    BY <1>1, <2>1, <2>3, <2>4 DEF Build
  <2>6. Row(obj.cls).content # "plain" /\ Row(obj.cls).content # "mixed"
    BY <2>5
  <2>7. out = [i \in DOMAIN obj.value |->
                 [type |-> obj.value[i].type, token |-> Quote(obj.value[i].token)]]
    BY <1>1, <2>4, <2>6 DEF exportChildren
  <2> QED
    BY <1>6, <2>5, <2>7
<1>9. w = [i \in DOMAIN w |-> w[i]]
  BY <1>2 DEF Sequence
<1>10. out = w <=> \A i \in DOMAIN w : w[i] = [type |-> v[i].type, token |-> Quote(v[i].token)]
  BY <1>8, <1>9
<1>11. out = w <=> \A i \in DOMAIN v : v[i].type = "cdata" => v[i].token.kind # "markup"
  BY <1>6, <1>7, <1>10
<1>12. (\A i \in DOMAIN v : v[i].type = "cdata" => v[i].token.kind # "markup") <=>
       (\A n \in ToSet(v) : n.type = "cdata" => n.token.kind # "markup")
  BY DEF ToSet
<1> QED
  BY <1>1, <1>11, <1>12

\* Nothing is escaped in the text of an element, either.
LEMMA FreshText ==
  ASSUME NEW doc, Fresh(doc), NEW q \in DOMAIN doc
  PROVE  IsWords(NodeText(doc[q])) /\ \A t \in ToSet(NodeText(doc[q])) : t.esc = 0
<1>1. PICK nodes, C, read : /\ nodes = doc[q].nodes /\ C = Characters(nodes, {"text", "cdata"})
                            /\ read = Kept(nodes, C)
  OBVIOUS
<1>2. LegibleElement(doc, q) /\ Sequence(nodes)
  BY <1>1 DEF Fresh, Legible, LegibleElement
<1>3. ToSet(read) = {nodes[i] : i \in DOMAIN nodes \cap C}
  BY <1>1, <1>2, KeptSequence
<1>4. ASSUME NEW t \in ToSet(NodeText(doc[q])) PROVE t.esc = 0
  <2>1. PICK j \in DOMAIN read : t = read[j].token
    BY <1>1 DEF NodeText, ToSet
  <2>2. read[j] \in ToSet(read)
    BY DEF ToSet
  <2>3. PICK i \in DOMAIN nodes : i \in C /\ read[j] = nodes[i]
    BY <1>3, <2>2
  <2>4. nodes[i].type \in {"text", "cdata"}
    BY <1>1, <2>3 DEF Characters
  <2> QED
    BY <1>1, <2>1, <2>3, <2>4 DEF Fresh
<1> QED
  BY <1>2, <1>4, NodeTextFields

\* A node of the mixed kind comes back as it was, and is written alike again.
LEMMA MixedNodeAgain ==
  ASSUME NEW sub, NEW doc, NEW at, NEW W, NEW again, Printing(sub, doc, at, W, again),
         NEW p \in PrintedOf(sub, doc), Row(ClassOf(sub, p)).content = "mixed",
         NEW i \in DOMAIN W[p].nodes
  PROVE  /\ i \in Characters(again[p].nodes, {"text"}) \cup
                  Children(again[p].nodes, KidTags(ClassOf(sub, p)))
         /\ ExportItem(BuildItem(ClassOf(sub, p), again, again[p].nodes[i])) = W[p].nodes[i]
         /\ PartAt(sub, again, p, i) => again[p].nodes[i].name \in PartsAt(sub, doc, p)
<1>1. PICK cls, w, v, nodes : /\ cls = ClassOf(sub, p) /\ w = W[p].nodes /\ v = again[p].nodes
                              /\ nodes = doc[p].nodes
  OBVIOUS
<1>2. /\ Legible(doc) /\ Fresh(doc) /\ p \in Read(sub, doc) /\ p \in DOMAIN doc
      /\ W[p] = Export(Build(sub, doc, p), at)
      /\ v = NodesBack(p, w) /\ Sequence(w) /\ Sequence(v) /\ cls \in DOMAIN Rows
      /\ \A n \in ToSet(w) : ReadableNode(n, PartsAt(sub, doc, p))
  <2>1. Fresh(doc) /\ p \in DOMAIN doc
    BY DEF Printing, PrintedOf
  <2> QED
    BY <1>1, <2>1, AgainFields
<1>3. w = exportChildren(Build(sub, doc, p), at)
  BY <1>1, <1>2 DEF Export, Element
<1>4. PICK C : C = Characters(nodes, {"text"}) \cup Children(nodes, KidTags(cls)) /\ C \subseteq DOMAIN nodes
  BY DEF Characters, Children
<1>5. ToSet(w) = {ExportItem(BuildItem(cls, doc, nodes[j])) : j \in C}
  BY <1>1, <1>2, <1>3, <1>4, MixedChildren
<1>6. PICK a : a = w[i]
  OBVIOUS
<1>7. PICK b : b = v[i]
  OBVIOUS
<1>8. a \in ToSet(w) /\ i \in DOMAIN v /\ b = ParsedNode(p, i, a)
  BY <1>1, <1>2, <1>6, <1>7 DEF ToSet, NodesBack
<1>9. PICK j \in C : a = ExportItem(BuildItem(cls, doc, nodes[j]))
  BY <1>5, <1>8
<1>10. PICK n : n = nodes[j] /\ j \in DOMAIN nodes
  BY <1>4
<1>11. ReadableNode(a, PartsAt(sub, doc, p))
  BY <1>2, <1>8
<1>12. CASE j \in Characters(nodes, {"text"})
  <2>1. PICK t : t = n.token
    OBVIOUS
  <2>2. n.type = "text" /\ Escaped(t) /\ a = Text(t)
    BY <1>1, <1>2, <1>9, <1>10, <1>12, <2>1, MixedItem
  <2>3. t.esc = 0
    BY <1>1, <1>2, <1>10, <2>1, <2>2 DEF Fresh
  <2>4. a.type = "text" /\ a.token = t
    BY <2>2 DEF Text
  <2>5. ~Bare(t)
    BY <1>11, <2>4 DEF ReadableNode, IsSimple, IsChild, TextChild, Child
  <2>6. Unquote(t) = t
    BY <2>3, <2>5 DEF Bare, Unquote
  <2>7. b = Text(t)
    BY <1>8, <2>4, <2>6 DEF ParsedNode
  <2>8. b.type = "text" /\ b.token = t
    BY <2>7 DEF Text
  <2>9. BuildItem(cls, again, b) = TextItem(t)
    BY <2>8 DEF BuildItem
  <2>10. ExportItem(TextItem(t)) = Text(t)
    BY TextItemFields DEF ExportItem
  <2>11. i \in Characters(v, {"text"}) /\ ~PartAt(sub, again, p, i)
    BY <1>1, <1>7, <1>8, <2>8 DEF Characters, PartAt, Children
  <2> QED
    BY <1>1, <1>6, <1>7, <2>2, <2>9, <2>10, <2>11
<1>13. CASE j \in Children(nodes, KidTags(cls))
  <2>1. PICK k, tag : tag = Tag(n.name) /\ k = KidOf(cls, tag)
    OBVIOUS
  <2>2. /\ n.type = "element" /\ k \in KidsOf(cls) /\ k.tag = tag
        /\ IF IsText(k)
           THEN a = TextChild(tag, NodeText(doc[n.name])) /\ IsWords(NodeText(doc[n.name]))
           ELSE a = Child(n.name) /\ n.name \in PartsAt(sub, doc, p)
    BY <1>1, <1>2, <1>9, <1>10, <1>13, <2>1, MixedItem
  <2>3. tag \in KidTags(cls)
    BY <2>2 DEF KidTags
  <2>4. CASE IsText(k)
    <3>1. PICK text : text = NodeText(doc[n.name])
      OBVIOUS
    <3>2. a.type = "simple" /\ a.tag = tag /\ a.text = text /\ a = TextChild(tag, text)
      BY <2>2, <2>4, <3>1 DEF TextChild
    <3>3. PICK x : x = TextName(p, a.tag, i)
      OBVIOUS
    <3>4. Tag(x) = tag /\ b = Child(x) /\ NodeText(again[x]) = Unquoted(text) /\ IsSimple(a)
      <4>1. i \in DOMAIN W[p].nodes /\ a = W[p].nodes[i] /\ a.type = "simple"
        BY <1>1, <1>6, <3>2
      <4>2. /\ Tag(x) = a.tag /\ again[p].nodes[i] = Child(x)
            /\ NodeText(again[x]) = Unquoted(a.text) /\ IsSimple(a)
        BY <3>3, <4>1, TextAgain
      <4> QED
        BY <1>1, <1>7, <3>2, <4>2
    <3>5. n.name \in DOMAIN doc
      BY <1>1, <1>2, <1>10, <2>2, ChildFields
    <3>6. Unquoted(text) = text
      <4>1. IsWords(text) /\ \A t \in ToSet(text) : t.esc = 0
        BY <1>2, <3>1, <3>5, FreshText
      <4>2. \A t \in ToSet(text) : ~Bare(t)
        BY <3>2, <3>4 DEF IsSimple
      <4> QED
        BY <4>1, <4>2, UnquotedFields
    <3>7. b.type = "element" /\ b.name = x
      BY <3>4 DEF Child
    <3>8. BuildItem(cls, again, b) = Item("simple", tag, text, <<>>)
      BY <2>1, <2>4, <3>4, <3>6, <3>7 DEF BuildItem
    <3>9. ExportItem(Item("simple", tag, text, <<>>)) = a
      BY <3>2 DEF Item, ExportItem
    <3>10. i \in Children(v, KidTags(cls))
      BY <1>7, <1>8, <2>3, <3>4, <3>7 DEF Children
    <3>11. k.style \notin {"one", "many"}
      BY <2>4 DEF IsText
    <3>12. ~PartAt(sub, again, p, i)
      BY <1>1, <1>7, <2>1, <3>4, <3>7, <3>11 DEF PartAt
    <3> QED
      BY <1>1, <1>6, <1>7, <3>8, <3>9, <3>10, <3>12
  <2>5. CASE ~IsText(k)
    <3>1. PICK x : x = n.name
      OBVIOUS
    <3>2. a = Child(x) /\ x \in PartsAt(sub, doc, p)
      BY <2>2, <2>5, <3>1
    <3>3. a.type = "element" /\ a.name = x
      BY <3>2 DEF Child
    <3>4. b = a
      BY <1>8, <3>3 DEF ParsedNode
    <3>5. BuildItem(cls, again, b) = Item("complex", tag, <<>>, x)
      BY <2>1, <2>5, <3>1, <3>3, <3>4 DEF BuildItem
    <3>6. ExportItem(Item("complex", tag, <<>>, x)) = a
      BY <3>2 DEF Item, ExportItem
    <3>7. i \in Children(v, KidTags(cls))
      BY <1>7, <1>8, <2>1, <2>3, <3>1, <3>3, <3>4 DEF Children
    <3> QED
      BY <1>1, <1>6, <1>7, <3>2, <3>3, <3>4, <3>5, <3>6, <3>7
  <2> QED
    BY <2>4, <2>5
<1> QED
  BY <1>4, <1>12, <1>13

\* What an object of the mixed kind writes, and its parts.
LEMMA MixedAgain ==
  ASSUME NEW sub, NEW doc, NEW at, NEW now, NEW W, NEW again, Printing(sub, doc, at, W, again),
         NEW p \in PrintedOf(sub, doc), Row(ClassOf(sub, p)).content = "mixed"
  PROVE  /\ exportChildren(Build(sub, again, p), now) = W[p].nodes
         /\ PartsAt(sub, again, p) = PartsAt(sub, doc, p)
<1>1. PICK cls, w, v, nodes : /\ cls = ClassOf(sub, p) /\ w = W[p].nodes /\ v = again[p].nodes
                              /\ nodes = doc[p].nodes
  OBVIOUS
<1>2. /\ Legible(doc) /\ p \in Read(sub, doc) /\ W[p] = Export(Build(sub, doc, p), at)
      /\ v = NodesBack(p, w) /\ Sequence(w) /\ Sequence(v) /\ cls \in DOMAIN Rows
  BY <1>1, AgainFields
<1>3. DOMAIN v = DOMAIN w /\ \A i \in DOMAIN w : v[i] = ParsedNode(p, i, w[i])
  BY <1>2 DEF NodesBack
<1>4. ASSUME NEW i \in DOMAIN w
      PROVE  /\ i \in Characters(v, {"text"}) \cup Children(v, KidTags(cls))
             /\ ExportItem(BuildItem(cls, again, v[i])) = w[i]
             /\ PartAt(sub, again, p, i) => v[i].name \in PartsAt(sub, doc, p)
  BY <1>1, MixedNodeAgain
<1>5. exportChildren(Build(sub, again, p), now) = w
  <2>1. PICK C : C = Characters(v, {"text"}) \cup Children(v, KidTags(cls))
    OBVIOUS
  <2>2. Kept(v, C) = v
    BY <1>2, <1>3, <1>4, <2>1, KeptAll
  <2>3. PICK obj : obj = Build(sub, again, p)
    OBVIOUS
  <2>4. obj.cls = cls /\ obj.content = BuildContent(cls, again, v)
    BY <1>1, <2>3 DEF Build
  <2>5. obj.content = [i \in DOMAIN v |-> BuildItem(cls, again, v[i])]
    BY <2>1, <2>2, <2>4 DEF BuildContent
  <2>6. exportChildren(obj, now) = [i \in DOMAIN obj.content |-> ExportItem(obj.content[i])]
    BY <1>1, <2>4 DEF exportChildren
  <2>7. exportChildren(obj, now) = [i \in DOMAIN w |-> w[i]]
    BY <1>3, <1>4, <2>5, <2>6
  <2>8. w = [i \in DOMAIN w |-> w[i]]
    BY <1>2 DEF Sequence
  <2> QED
    BY <2>3, <2>7, <2>8
<1>6. PartsAt(sub, again, p) \subseteq PartsAt(sub, doc, p)
  BY <1>1, <1>3, <1>4 DEF PartsAt
<1>7. ASSUME NEW x \in PartsAt(sub, doc, p) PROVE x \in PartsAt(sub, again, p)
  <2>1. PICK j \in DOMAIN nodes : PartAt(sub, doc, p, j) /\ x = nodes[j].name
    BY <1>1 DEF PartsAt
  <2>2. PICK tag, k : tag = Tag(x) /\ k = KidOf(cls, tag)
    OBVIOUS
  <2>3. j \in Children(nodes, KidTags(cls)) /\ k.style \in {"one", "many"}
    BY <1>1, <2>1, <2>2 DEF PartAt
  <2>4. ~IsText(k) /\ tag \in KidTags(cls)
    BY <2>1, <2>2, <2>3 DEF IsText, Children
  <2>5. ExportItem(BuildItem(cls, doc, nodes[j])) = Child(x)
    <3>1. PICK n : n = nodes[j]
      OBVIOUS
    <3>2. KidOf(cls, Tag(n.name)) = k /\ n.name = x
      BY <2>1, <2>2, <3>1
    <3>3. ~IsText(KidOf(cls, Tag(n.name))) /\ doc[p].nodes[j] = n /\ j \in DOMAIN doc[p].nodes
          /\ j \in Children(doc[p].nodes, KidTags(cls))
      BY <1>1, <2>3, <2>4, <3>1, <3>2
    <3>4. ExportItem(BuildItem(cls, doc, n)) = Child(n.name)
      BY <1>1, <1>2, <3>3, MixedItem
    <3> QED
      BY <3>1, <3>2, <3>4
  <2>6. w = exportChildren(Build(sub, doc, p), at)
    BY <1>1, <1>2 DEF Export, Element
  <2>7. Child(x) \in ToSet(w)
    BY <1>1, <1>2, <2>3, <2>5, <2>6, MixedChildren
  <2>8. PICK i \in DOMAIN w : w[i] = Child(x)
    BY <2>7 DEF ToSet
  <2>9. w[i].type = "element" /\ w[i].name = x
    BY <2>8 DEF Child
  <2>10. v[i] = w[i]
    BY <1>3, <2>9 DEF ParsedNode
  <2>11. i \in Children(v, KidTags(cls))
    BY <1>3, <2>2, <2>4, <2>9, <2>10 DEF Children
  <2>12. PartAt(sub, again, p, i)
    BY <1>1, <2>2, <2>3, <2>9, <2>10, <2>11 DEF PartAt
  <2> QED
    BY <1>1, <1>3, <2>9, <2>10, <2>12 DEF PartsAt
<1> QED
  BY <1>1, <1>5, <1>6, <1>7

\* An object with a text of its own has no parts.
LEMMA ValueHasNoParts ==
  ASSUME NEW sub, NEW doc, NEW p, ClassOf(sub, p) \in DOMAIN Rows,
         Row(ClassOf(sub, p)).content \in {"value", "mixedvalue"}
  PROVE  PartsAt(sub, doc, p) = {}
<1>1. PICK cls : cls = ClassOf(sub, p)
  OBVIOUS
<1>2. IsRow(Row(cls))
  BY <1>1, SchemaAssumption
<1>3. Row(cls).kids = <<>>
  BY <1>1, <1>2 DEF IsRow
<1>4. KidTags(cls) = {}
  BY <1>3 DEF KidTags, KidsOf, ToSet
<1> QED
  BY <1>1, <1>4 DEF PartsAt, PartAt, Children

\* The tag a child is written under.
WrittenTag(n) == IF n.type = "simple" THEN n.tag ELSE Tag(n.name)
Under(nodes, tag) == {n \in ToSet(nodes) : WrittenTag(n) = tag}

\* What is kept under a tag is written under it.
LEMMA KidWrittenUnder ==
  ASSUME NEW sub, NEW doc, NEW at, Legible(doc), NEW p \in Read(sub, doc),
         NEW k \in KidsOf(ClassOf(sub, p)), Row(ClassOf(sub, p)).content = "plain",
         NEW n \in ToSet(ExportKid(Build(sub, doc, p), k, at))
  PROVE  WrittenTag(n) = k.tag
<1>1. PICK cls, obj, kept, w : /\ cls = ClassOf(sub, p) /\ obj = Build(sub, doc, p)
                               /\ kept = obj.kids[k.tag] /\ w = ExportKid(obj, k, at)
  OBVIOUS
<1>2. PICK j \in DOMAIN w : n = w[j]
  BY <1>1 DEF ToSet
<1>3. ASSUME NEW text, n = ExportText(k.tag, text) PROVE WrittenTag(n) = k.tag
  <2>1. n.type = "simple" /\ n.tag = k.tag
    BY <1>3 DEF ExportText, TextChild
  <2> QED
    BY <2>1 DEF WrittenTag
<1>4. CASE IsText(k)
  <2>1. w = [i \in DOMAIN kept |-> ExportText(k.tag, kept[i])]
    BY <1>1, <1>4 DEF ExportKid
  <2> QED
    BY <1>2, <1>3, <2>1
<1>5. CASE ~IsText(k) /\ k.style = "titled"
  <2>1. w = ExportTitle(obj, k.tag, at)
    BY <1>1, <1>5 DEF ExportKid
  <2>2. PICK a : a = ExportText(k.tag, Repr(at))
    OBVIOUS
  <2>3. PICK b : b = ExportText(k.tag, <<>>)
    OBVIOUS
  <2>4. w = <<a>> \/ w = <<b>> \/ w = <<>>
    BY <2>1, <2>2, <2>3 DEF ExportTitle
  <2>5. n = a \/ n = b
    BY <1>2, <2>4
  <2> QED
    BY <1>3, <2>2, <2>3, <2>5
<1>6. CASE ~IsText(k) /\ k.style # "titled"
  <2>1. w = [i \in DOMAIN kept |-> Child(kept[i])]
    BY <1>1, <1>6 DEF ExportKid
  <2>2. cls \in DOMAIN Rows /\ Sequence(doc[p].nodes)
    <3>1. p \in DOMAIN doc /\ cls # "" /\ Sequence(p) /\ p # <<>> /\ Sequence(doc[p].nodes)
      BY <1>1 DEF Read, Legible, LegibleElement
    <3> QED
      BY <1>1, <3>1, ClassStep DEF Classes
  <2>3. k.style \in {"one", "many"}
    BY <1>1, <1>6, <2>2, KidFields DEF IsText
  <2>4. kept = BuildKid(sub, doc, doc[p].nodes, k)
    BY <1>1, KidsOfObject
  <2>5. ToSet(kept) = KidParts(doc[p].nodes, k)
    BY <2>2, <2>3, <2>4, PartsOfKid
  <2>6. PICK x : n = Child(x) /\ x \in ToSet(kept)
    BY <1>2, <2>1 DEF ToSet
  <2>7. Tag(x) = k.tag
    BY <2>5, <2>6 DEF KidParts, Children
  <2>8. n.type = "element" /\ n.name = x
    BY <2>6 DEF Child
  <2> QED
    BY <2>7, <2>8 DEF WrittenTag
<1> QED
  BY <1>4, <1>5, <1>6

\* What is written under a tag is what is kept under it, in its order.
LEMMA WrittenByKid ==
  ASSUME NEW sub \in BOOLEAN, NEW doc, NEW at, Legible(doc), NEW p \in Read(sub, doc),
         NEW k \in KidsOf(ClassOf(sub, p)), Row(ClassOf(sub, p)).content = "plain",
         NEW w, w = exportChildren(Build(sub, doc, p), at)
  PROVE  Those(w, Under(w, k.tag)) = ExportKid(Build(sub, doc, p), k, at)
<1>1. PICK cls, obj, kids, ss :
        /\ cls = ClassOf(sub, p) /\ obj = Build(sub, doc, p) /\ kids = Row(cls).kids
        /\ ss = [i \in DOMAIN kids |-> ExportKid(obj, kids[i], at)]
  OBVIOUS
<1>2. w = Concat(ss)
  BY <1>1 DEF exportChildren, Build
<1>3. /\ Sequence(kids) /\ \A i \in DOMAIN kids : kids[i] \in KidsOf(cls)
      /\ \A i, j \in DOMAIN kids : kids[i].tag = kids[j].tag => i = j
  <2>1. cls \in DOMAIN Rows
    <3>1. p \in DOMAIN doc /\ cls # "" /\ Sequence(p) /\ p # <<>>
      BY <1>1 DEF Read, Legible, LegibleElement
    <3> QED
      BY <1>1, <3>1, ClassStep DEF Classes
  <2>2. IsRow(Row(cls))
    BY <2>1, SchemaAssumption
  <2> QED
    BY <1>1, <2>2 DEF IsRow, KidsOf, ToSet
<1>4. PICK m \in DOMAIN kids : kids[m] = k
  BY <1>1 DEF KidsOf, ToSet
<1>5. ASSUME NEW i \in DOMAIN kids
      PROVE  /\ ss[i] = ExportKid(obj, kids[i], at) /\ Sequence(ss[i])
             /\ \A n \in ToSet(ss[i]) : WrittenTag(n) = kids[i].tag
  <2>1. ss[i] = ExportKid(obj, kids[i], at)
    BY <1>1
  <2>2. PICK h \in KidsOf(cls) : h = kids[i]
    BY <1>3
  <2>3. Sequence(ExportKid(obj, h, at))
    BY <1>1, <2>2, ExportKidFields
  <2>4. \A n \in ToSet(ExportKid(obj, h, at)) : WrittenTag(n) = h.tag
    BY <1>1, <2>2, KidWrittenUnder
  <2> QED
    BY <2>1, <2>2, <2>3, <2>4
<1>6. PICK S : S = UNION {ToSet(ss[i]) : i \in DOMAIN kids}
  OBVIOUS
<1>7. ss \in Seq(Seq(S))
  <2>1. ASSUME NEW i \in DOMAIN kids PROVE ss[i] \in Seq(S)
    <3>1. ToSet(ss[i]) \subseteq S
      BY <1>6
    <3> QED
      BY <1>5, <3>1, SuperSequence DEF Sequence
  <2>2. PICK l \in Nat : DOMAIN kids = 1 .. l
    BY <1>3 DEF Sequence
  <2>3. ss \in [1 .. l -> Seq(S)]
    <3>1. \A i \in 1 .. l : ss[i] \in Seq(S)
      BY <2>1, <2>2
    <3>2. ss = [i \in 1 .. l |-> ss[i]]
      BY <1>1, <2>2
    <3> QED
      BY <3>1, <3>2
  <2> QED
    BY <2>3, SeqDef
<1>8. PICK T : T = Under(w, k.tag)
  OBVIOUS
<1>9. ToSet(w) = UNION {ToSet(ss[i]) : i \in DOMAIN ss} /\ DOMAIN ss = DOMAIN kids
  <2>1. ToSet(Concat(ss)) = UNION {ToSet(ss[i]) : i \in DOMAIN ss}
    BY <1>7, ConcatElements
  <2> QED
    BY <1>1, <1>2, <2>1
<1>10. m \in DOMAIN ss /\ ToSet(ss[m]) \subseteq T
  BY <1>4, <1>5, <1>8, <1>9 DEF Under
<1>11. ASSUME NEW j \in DOMAIN ss, j # m PROVE ToSet(ss[j]) \cap T = {}
  <2>1. \A n \in ToSet(ss[j]) : WrittenTag(n) = kids[j].tag
    BY <1>5, <1>9
  <2>2. kids[j].tag # k.tag
    BY <1>3, <1>4, <1>9, <1>11
  <2> QED
    BY <1>8, <2>1, <2>2 DEF Under
<1>12. Those(Concat(ss), T) = ss[m]
  BY <1>7, <1>10, <1>11, ConcatGroup
<1> QED
  BY <1>1, <1>2, <1>4, <1>5, <1>8, <1>12

ReadUnder(doc, p, tag) == Kept(doc[p].nodes, Children(doc[p].nodes, {tag}))

CameBack(W, again, p, tag, out) ==
    LET read == ReadUnder(again, p, tag) IN
    /\ Sequence(read) /\ Sequence(out) /\ DOMAIN read = DOMAIN out /\ Len(read) = Len(out)
    /\ \A j \in DOMAIN out : \E i \in DOMAIN W[p].nodes :
         out[j] = W[p].nodes[i] /\ read[j] = ParsedNode(p, i, out[j])
    /\ Children(again[p].nodes, {tag}) = {} <=> out = <<>>

\* What is read back under a tag is what was written under it.
LEMMA ReadBack ==
  ASSUME NEW sub, NEW doc, NEW at, NEW W, NEW again, Printing(sub, doc, at, W, again),
         NEW p \in PrintedOf(sub, doc), Row(ClassOf(sub, p)).content = "plain",
         NEW k \in KidsOf(ClassOf(sub, p))
  PROVE  CameBack(W, again, p, k.tag, ExportKid(Build(sub, doc, p), k, at))
<1>0. PICK C, read, out : /\ C = Children(again[p].nodes, {k.tag})
                          /\ read = Kept(again[p].nodes, C)
                          /\ out = ExportKid(Build(sub, doc, p), k, at)
  OBVIOUS
<1>1. PICK cls, w, v : cls = ClassOf(sub, p) /\ w = W[p].nodes /\ v = again[p].nodes
  OBVIOUS
<1>2. /\ sub \in BOOLEAN /\ Legible(doc) /\ p \in Read(sub, doc) /\ W[p] = Export(Build(sub, doc, p), at)
      /\ v = NodesBack(p, w) /\ Sequence(w) /\ Sequence(v)
  BY <1>1, AgainFields
<1>3. DOMAIN v = DOMAIN w /\ \A i \in DOMAIN w : v[i] = ParsedNode(p, i, w[i])
  BY <1>2 DEF NodesBack
<1>4. w = exportChildren(Build(sub, doc, p), at)
  BY <1>1, <1>2 DEF Export, Element
<1>5. PICK U : U = {i \in DOMAIN w : w[i] \in Under(w, k.tag)}
  OBVIOUS
<1>6. ASSUME NEW i \in DOMAIN w PROVE i \in C <=> i \in U
  <2>1. PICK a, b : a = w[i] /\ b = v[i]
    OBVIOUS
  <2>2. a \in ToSet(w) /\ b = ParsedNode(p, i, a)
    BY <1>3, <2>1 DEF ToSet
  <2>3. IsSimple(a) \/ IsChild(a, PartsAt(sub, doc, p))
    BY <1>1, <1>2, <1>4, <2>2, PlainChildren
  <2>4. i \in U <=> WrittenTag(a) = k.tag
    BY <1>5, <2>1, <2>2 DEF Under
  <2>5. i \in C <=> b.type = "element" /\ Tag(b.name) = k.tag
    BY <1>0, <1>1, <1>3, <2>1 DEF Children
  <2>6. CASE IsSimple(a)
    <3>1. a.type = "simple"
      BY <2>6 DEF IsSimple, TextChild
    <3>2. PICK x : x = TextName(p, a.tag, i)
      OBVIOUS
    <3>3. i \in DOMAIN W[p].nodes /\ a = W[p].nodes[i]
      BY <1>1, <2>1
    <3>4. Tag(x) = a.tag /\ again[p].nodes[i] = Child(x)
      BY <3>1, <3>2, <3>3, TextAgain
    <3>5. b.type = "element" /\ b.name = x
      BY <1>1, <2>1, <3>4 DEF Child
    <3> QED
      BY <2>4, <2>5, <3>1, <3>4, <3>5 DEF WrittenTag
  <2>7. CASE IsChild(a, PartsAt(sub, doc, p))
    <3>1. a.type = "element"
      BY <2>7 DEF IsChild, Child
    <3>2. b = a
      BY <2>2, <3>1 DEF ParsedNode
    <3> QED
      BY <2>4, <2>5, <3>1, <3>2 DEF WrittenTag
  <2> QED
    BY <2>3, <2>6, <2>7
<1>7. C = U
  <2>1. C \subseteq DOMAIN w /\ U \subseteq DOMAIN w
    BY <1>0, <1>1, <1>3, <1>5 DEF Children
  <2> QED
    BY <1>6, <2>1
<1>8. Kept(w, C) = out
  <2>1. Those(w, Under(w, k.tag)) = out
    BY <1>0, <1>1, <1>2, <1>4, WrittenByKid
  <2> QED
    BY <1>5, <1>7, <2>1 DEF Those
<1>9. Sequence(read) /\ Sequence(out)
  BY <1>0, <1>1, <1>2, <1>8, KeptSequence
<1>10. /\ DOMAIN out = DOMAIN read
       /\ \A j \in DOMAIN out : \E i \in DOMAIN w \cap C : out[j] = w[i] /\ read[j] = v[i]
  <2>1. /\ DOMAIN Kept(w, C) = DOMAIN Kept(v, C)
        /\ \A j \in DOMAIN Kept(w, C) : \E i \in DOMAIN w \cap C :
             Kept(w, C)[j] = w[i] /\ Kept(v, C)[j] = v[i]
    <3>1. Sequence(w)
      BY <1>2
    <3>2. Sequence(v)
      BY <1>2
    <3>3. DOMAIN w = DOMAIN v
      BY <1>3
    <3> QED
      BY ONLY <3>1, <3>2, <3>3, KeptAlike
  <2>2. read = Kept(v, C)
    BY <1>0, <1>1
  <2> QED
    BY <1>8, <2>1, <2>2
<1>11. Len(read) = Len(out)
  <2>1. PICK m \in Nat, n \in Nat : m = Len(read) /\ n = Len(out) /\ DOMAIN read = 1 .. m /\ DOMAIN out = 1 .. n
    BY <1>9 DEF Sequence
  <2>2. 1 .. m = 1 .. n
    BY <1>10, <2>1
  <2>3. m = n
    <3>1. CASE m < n
      BY <2>2, <3>1
    <3>2. CASE n < m
      BY <2>2, <3>2
    <3> QED
      BY <3>1, <3>2
  <2> QED
    BY <2>1, <2>3
<1>12. ASSUME NEW j \in DOMAIN out
       PROVE  \E i \in DOMAIN W[p].nodes : out[j] = W[p].nodes[i] /\ read[j] = ParsedNode(p, i, out[j])
  <2>1. PICK i \in DOMAIN w : out[j] = w[i] /\ read[j] = v[i]
    BY <1>10
  <2> QED
    BY <1>1, <1>3, <2>1
<1>13. C = {} <=> out = <<>>
  <2>1. out = <<>> <=> DOMAIN w \cap C = {}
    BY <1>2, <1>8, NoneKept
  <2>2. C \subseteq DOMAIN w
    BY <1>0, <1>1, <1>3 DEF Children
  <2> QED
    BY <2>1, <2>2
<1> QED
  BY <1>0, <1>9, <1>10, <1>11, <1>12, <1>13 DEF CameBack, ReadUnder

\* What is kept of the children with a tag, by the kinds of child.
KidKept(sub, doc, p, kid) ==
    LET read == ReadUnder(doc, p, kid.tag)
        kept == BuildKid(sub, doc, doc[p].nodes, kid) IN
    /\ kid.style = "many" => kept = [i \in DOMAIN read |-> read[i].name]
    /\ kid.style = "texts" => kept = [i \in DOMAIN read |-> NodeText(doc[read[i].name])]
    /\ kid.style \in {"one", "titled"} => kept = IF read = <<>> THEN <<>> ELSE <<Last(read).name>>
    /\ kid.style = "text" =>
         kept = IF read # <<>> THEN <<NodeText(doc[Last(read).name])>>
                ELSE IF sub THEN << <<>> >> ELSE <<>>

LEMMA BuildKidFields ==
  ASSUME NEW sub, NEW doc, NEW p, NEW kid
  PROVE  KidKept(sub, doc, p, kid)
BY DEF KidKept, ReadUnder, BuildKid, IsText, Unset

\* A sequence of one, and a function that is one.
LEMMA LastOfOne ==
  ASSUME NEW s, Sequence(s), Len(s) = 1
  PROVE  s # <<>> /\ 1 \in DOMAIN s /\ Last(s) = s[1] /\ s = <<s[1]>>
BY DEF Sequence, Last

\* Sequences of the same domain are empty, or of one, together.
LEMMA AlikeInLength ==
  ASSUME NEW a, NEW b, Sequence(a), Sequence(b), DOMAIN a = DOMAIN b
  PROVE  /\ b = <<>> => a = <<>>
         /\ Len(b) = 1 => a # <<>> /\ Last(a) = a[1] /\ a = <<a[1]>>
<1>1. PICK m \in Nat, n \in Nat : m = Len(a) /\ n = Len(b) /\ DOMAIN a = 1 .. m /\ DOMAIN b = 1 .. n
  BY DEF Sequence
<1>2. 1 .. m = 1 .. n
  BY <1>1
<1>3. m = n
  <2>1. CASE m < n
    BY <1>2, <2>1
  <2>2. CASE n < m
    BY <1>2, <2>2
  <2> QED
    BY <2>1, <2>2
<1>4. b = <<>> => a = <<>>
  BY <1>1, <1>3 DEF Sequence
<1>5. ASSUME Len(b) = 1 PROVE a # <<>> /\ Last(a) = a[1] /\ a = <<a[1]>>
  <2>1. Len(a) = 1
    BY <1>1, <1>3, <1>5
  <2> QED
    BY <2>1, LastOfOne
<1> QED
  BY <1>4, <1>5

\* The parts an object of the plain kind keeps are kept again.
LEMMA PartKidAgain ==
  ASSUME NEW sub, NEW doc, NEW at, NEW W, NEW again, Printing(sub, doc, at, W, again),
         NEW p \in PrintedOf(sub, doc), Row(ClassOf(sub, p)).content = "plain",
         NEW k \in KidsOf(ClassOf(sub, p)), k.style \in {"one", "many"}
  PROVE  Build(sub, again, p).kids[k.tag] = Build(sub, doc, p).kids[k.tag]
<1>1. PICK old, new, out : /\ old = Build(sub, doc, p).kids[k.tag]
                           /\ new = Build(sub, again, p).kids[k.tag]
                           /\ out = ExportKid(Build(sub, doc, p), k, at)
  OBVIOUS
<1>2. PICK read : read = ReadUnder(again, p, k.tag)
  OBVIOUS
<1>3. /\ Legible(doc) /\ Legible(again) /\ p \in Read(sub, doc) /\ p \in Read(sub, again)
  BY AgainFields
<1>4. old = BuildKid(sub, doc, doc[p].nodes, k) /\ Sequence(old)
  BY <1>1, <1>3, KidsOfObject
<1>5. new = BuildKid(sub, again, again[p].nodes, k)
  BY <1>1, <1>3, KidsOfObject
<1>6. /\ Sequence(read) /\ Sequence(out) /\ DOMAIN read = DOMAIN out /\ Len(read) = Len(out)
      /\ \A j \in DOMAIN out : \E i \in DOMAIN W[p].nodes : read[j] = ParsedNode(p, i, out[j])
  <2>1. CameBack(W, again, p, k.tag, out)
    BY <1>1, ReadBack
  <2> QED
    BY <1>2, <2>1 DEF CameBack
<1>7. out = [i \in DOMAIN old |-> Child(old[i])]
  BY <1>1 DEF ExportKid, IsText
<1>8. ASSUME NEW j \in DOMAIN old PROVE j \in DOMAIN read /\ read[j].name = old[j]
  <2>1. j \in DOMAIN out /\ out[j] = Child(old[j])
    BY <1>7
  <2>2. out[j].type = "element" /\ out[j].name = old[j]
    BY <2>1 DEF Child
  <2>3. PICK i \in DOMAIN W[p].nodes : read[j] = ParsedNode(p, i, out[j])
    BY <1>6, <2>1
  <2>4. read[j] = out[j]
    BY <2>2, <2>3 DEF ParsedNode
  <2> QED
    BY <1>6, <2>1, <2>2, <2>4
<1>9. DOMAIN read = DOMAIN old
  BY <1>6, <1>7
<1>10. CASE k.style = "many"
  <2>1. new = [i \in DOMAIN read |-> read[i].name]
    <3>1. KidKept(sub, again, p, k)
      BY BuildKidFields
    <3> QED
      BY <1>2, <1>5, <1>10, <3>1 DEF KidKept
  <2>2. old = [i \in DOMAIN old |-> old[i]]
    BY <1>4 DEF Sequence
  <2> QED
    BY <1>1, <1>8, <1>9, <2>1, <2>2
<1>11. CASE k.style = "one"
  <2>1. new = IF read = <<>> THEN <<>> ELSE <<Last(read).name>>
    <3>1. KidKept(sub, again, p, k)
      BY BuildKidFields
    <3> QED
      BY <1>2, <1>5, <1>11, <3>1 DEF KidKept
  <2>2. PICK earlier : earlier = ReadUnder(doc, p, k.tag)
    OBVIOUS
  <2>3. old = IF earlier = <<>> THEN <<>> ELSE <<Last(earlier).name>>
    <3>1. KidKept(sub, doc, p, k)
      BY BuildKidFields
    <3> QED
      BY <1>4, <1>11, <2>2, <3>1 DEF KidKept
  <2>4. CASE old = <<>>
    <3>1. read = <<>>
      BY <1>4, <1>6, <1>9, <2>4, AlikeInLength
    <3> QED
      BY <1>1, <2>1, <2>4, <3>1
  <2>5. CASE old # <<>>
    <3>1. PICK y : old = <<y>>
      BY <2>3, <2>5
    <3>2. DOMAIN old = 1 .. 1 /\ old[1] = y /\ Len(old) = 1
      BY <3>1
    <3>3. read # <<>> /\ Last(read) = read[1]
      BY <1>4, <1>6, <1>9, <3>2, AlikeInLength
    <3>4. read[1].name = y
      BY <1>8, <3>2
    <3> QED
      BY <1>1, <2>1, <3>1, <3>3, <3>4
  <2> QED
    BY <2>4, <2>5
<1> QED
  BY <1>10, <1>11

\* A text comes back as the bytes literal it was written as.
LEMMA TextKidAgain ==
  ASSUME NEW sub, NEW doc, NEW at, NEW W, NEW again, Printing(sub, doc, at, W, again),
         NEW p \in PrintedOf(sub, doc), Row(ClassOf(sub, p)).content = "plain",
         NEW k \in KidsOf(ClassOf(sub, p)), IsText(k),
         NEW old, old = Build(sub, doc, p).kids[k.tag]
  PROVE  Build(sub, again, p).kids[k.tag] = [j \in DOMAIN old |-> AsBytes(old[j])]
<1>1. PICK new, out : /\ new = Build(sub, again, p).kids[k.tag]
                      /\ out = ExportKid(Build(sub, doc, p), k, at)
  OBVIOUS
<1>2. PICK read : read = ReadUnder(again, p, k.tag)
  OBVIOUS
<1>3. /\ Legible(doc) /\ Legible(again) /\ p \in Read(sub, doc) /\ p \in Read(sub, again)
      /\ sub \in BOOLEAN
  BY AgainFields
<1>4. /\ old = BuildKid(sub, doc, doc[p].nodes, k) /\ Sequence(old)
      /\ \A t \in ToSet(old) : IsWords(t)
  BY <1>3, KidsOfObject
<1>5. new = BuildKid(sub, again, again[p].nodes, k)
  BY <1>1, <1>3, KidsOfObject
<1>6. /\ Sequence(read) /\ DOMAIN read = DOMAIN out
      /\ \A j \in DOMAIN out : \E i \in DOMAIN W[p].nodes :
           out[j] = W[p].nodes[i] /\ read[j] = ParsedNode(p, i, out[j])
  <2>1. CameBack(W, again, p, k.tag, out)
    BY <1>1, ReadBack
  <2> QED
    BY <1>2, <2>1 DEF CameBack
<1>7. out = [j \in DOMAIN old |-> ExportText(k.tag, old[j])]
  BY <1>1 DEF ExportKid
<1>8. DOMAIN read = DOMAIN old
  BY <1>6, <1>7
<1>9. ASSUME NEW j \in DOMAIN old PROVE NodeText(again[read[j].name]) = AsBytes(old[j])
  <2>1. PICK t : t = old[j] /\ IsWords(t)
    BY <1>4 DEF ToSet
  <2>2. PICK i \in DOMAIN W[p].nodes : out[j] = W[p].nodes[i] /\ read[j] = ParsedNode(p, i, out[j])
    BY <1>6, <1>7
  <2>3. PICK n : n = out[j]
    OBVIOUS
  <2>4. n = ExportText(k.tag, t)
    BY <1>7, <2>1, <2>3
  <2>5. n.type = "simple" /\ n.tag = k.tag /\ n.text = AsBytes(quote_xml(t))
    BY <2>4 DEF ExportText, TextChild
  <2>6. PICK x : x = TextName(p, n.tag, i)
    OBVIOUS
  <2>7. NodeText(again[x]) = Unquoted(n.text)
    BY <2>2, <2>3, <2>5, <2>6, TextAgain
  <2>8. read[j] = Child(x)
    BY <2>2, <2>3, <2>5, <2>6 DEF ParsedNode
  <2>9. read[j].name = x
    BY <2>8 DEF Child
  <2>10. Unquoted(AsBytes(quote_xml(t))) = AsBytes(t)
    BY <2>1, BytesBack
  <2> QED
    BY <2>1, <2>5, <2>7, <2>9, <2>10
<1>10. CASE k.style = "texts"
  <2>1. new = [i \in DOMAIN read |-> NodeText(again[read[i].name])]
    <3>1. KidKept(sub, again, p, k)
      BY BuildKidFields
    <3> QED
      BY <1>2, <1>5, <1>10, <3>1 DEF KidKept
  <2> QED
    BY <1>1, <1>8, <1>9, <2>1
<1>11. CASE k.style = "text"
  <2>1. new = IF read # <<>> THEN <<NodeText(again[Last(read).name])>>
              ELSE IF sub THEN << <<>> >> ELSE <<>>
    <3>1. KidKept(sub, again, p, k)
      BY BuildKidFields
    <3> QED
      BY <1>2, <1>5, <1>11, <3>1 DEF KidKept
  <2>2. PICK earlier : earlier = ReadUnder(doc, p, k.tag)
    OBVIOUS
  <2>3. old = IF earlier # <<>> THEN <<NodeText(doc[Last(earlier).name])>>
              ELSE IF sub THEN << <<>> >> ELSE <<>>
    <3>1. KidKept(sub, doc, p, k)
      BY BuildKidFields
    <3> QED
      BY <1>4, <1>11, <2>2, <3>1 DEF KidKept
  <2>4. CASE old = <<>>
    <3>1. read = <<>>
      BY <1>4, <1>6, <1>8, <2>4, AlikeInLength
    <3>2. sub = FALSE
      BY <1>3, <2>3, <2>4
    <3>3. new = <<>>
      BY <2>1, <3>1, <3>2
    <3>4. [j \in DOMAIN old |-> AsBytes(old[j])] = <<>>
      BY <2>4
    <3> QED
      BY <1>1, <3>3, <3>4
  <2>5. CASE old # <<>>
    <3>1. PICK y : old = <<y>>
      BY <2>3, <2>5
    <3>2. DOMAIN old = 1 .. 1 /\ old[1] = y /\ Len(old) = 1
      BY <3>1
    <3>3. read # <<>> /\ Last(read) = read[1]
      BY <1>4, <1>6, <1>8, <3>2, AlikeInLength
    <3>4. NodeText(again[Last(read).name]) = AsBytes(y)
      BY <1>9, <3>2, <3>3
    <3>5. new = <<AsBytes(y)>>
      BY <2>1, <3>3, <3>4
    <3>6. PICK b : b = AsBytes(y)
      OBVIOUS
    <3>7. [j \in DOMAIN old |-> AsBytes(old[j])] = <<b>>
      BY <3>2, <3>6
    <3> QED
      BY <1>1, <3>5, <3>6, <3>7
  <2> QED
    BY <2>4, <2>5
<1> QED
  BY <1>10, <1>11 DEF IsText

NotThere(doc, p, kid) == Children(doc[p].nodes, {kid.tag}) = {}

\* The texts two addresses are written as differ as they do.
LEMMA ReprsDiffer ==
  ASSUME NEW tag, NEW at \in Addresses, NEW now \in Addresses,
         ExportText(tag, Repr(now)) = ExportText(tag, Repr(at))
  PROVE  now = at
<1>1. ASSUME NEW a \in Addresses
      PROVE  /\ IsWords(quote_xml(Repr(a))) /\ quote_xml(Repr(a))[2] = Token(a)
             /\ Len(quote_xml(Repr(a))) = 2
  <2>1. PICK r, q : r = Repr(a) /\ q = quote_xml(r)
    OBVIOUS
  <2>2. IsWords(r) /\ DOMAIN r = {1, 2} /\ r[2] = Token(a)
    BY <2>1, ReprFields
  <2>3. DOMAIN q = {1, 2} /\ q[2] = Quote(r[2])
    BY <2>1, <2>2 DEF quote_xml
  <2>4. Quote(Token(a)) = Token(a)
    BY AddressesAssumption, TokenFields DEF Quote
  <2>5. IsWords(q)
    BY <2>1, <2>2, QuoteXmlFields
  <2>6. PICK l \in Nat : l = Len(q) /\ DOMAIN q = 1 .. l
    BY <2>5 DEF IsWords, Sequence
  <2>7. l = 2
    BY <2>3, <2>6
  <2> QED
    BY <2>1, <2>2, <2>3, <2>4, <2>5, <2>6, <2>7
<1>2. ASSUME NEW a \in Addresses
      PROVE  AsBytes(quote_xml(Repr(a)))[3] = Token(a)
  <2>1. PICK q, x, y : q = quote_xml(Repr(a)) /\ x = Token("b'") /\ y = Token("'")
    OBVIOUS
  <2>2. PICK S : S = ToSet(q) \cup {x, y}
    OBVIOUS
  <2>3. q \in Seq(S) /\ Len(q) = 2 /\ q[2] = Token(a) /\ x \in S /\ y \in S
    BY <1>1, <2>1, <2>2, SuperSequence DEF IsWords, Sequence
  <2>4. PICK b : b = <<x>> \o q
    OBVIOUS
  <2>5. b \in Seq(S) /\ Len(b) = 3 /\ b[3] = Token(a)
    <3>1. PICK z : z = <<x>>
      OBVIOUS
    <3>2. z \in Seq(S) /\ Len(z) = 1
      BY <2>3, <3>1
    <3>3. b = z \o q
      BY <2>4, <3>1
    <3>4. Joined(S, z, q)
      BY <2>3, <3>2, JoinedFields
    <3>5. Len(b) = Len(z) + Len(q) /\ \A i \in 1 .. Len(q) : b[Len(z) + i] = q[i]
      BY <3>3, <3>4 DEF Joined
    <3>6. b \in Seq(S)
      BY <3>3, <3>4 DEF Joined
    <3> QED
      BY <2>3, <3>2, <3>5, <3>6
  <2>6. PICK c : c = b \o <<y>>
    OBVIOUS
  <2>7. c[3] = Token(a)
    BY <2>3, <2>5, <2>6
  <2>8. AsBytes(q) = c
    BY <2>1, <2>4, <2>6 DEF AsBytes
  <2> QED
    BY <2>1, <2>7, <2>8
<1>3. AsBytes(quote_xml(Repr(now))) = AsBytes(quote_xml(Repr(at)))
  BY DEF ExportText, TextChild
<1>4. Token(now) = Token(at)
  BY <1>2, <1>3
<1> QED
  BY <1>4, TokenFields

NoSubclass(sub) == sub = FALSE

\* A title that no subclass set to '' is written again, and as it was if it
\* is found where it was.
LEMMA TitleAgain ==
  ASSUME NEW sub, NEW doc, NEW at, NEW now \in Addresses, NEW W, NEW again,
         Printing(sub, doc, at, W, again),
         NEW p \in PrintedOf(sub, doc), Row(ClassOf(sub, p)).content = "plain",
         NEW k \in KidsOf(ClassOf(sub, p)), k.style = "titled", NoSubclass(sub)
  PROVE  ExportKid(Build(sub, again, p), k, now) = ExportKid(Build(sub, doc, p), k, at) <=>
           (NotThere(again, p, k) \/ now = at)
<1>1. PICK old, new : old = Build(sub, doc, p) /\ new = Build(sub, again, p)
  OBVIOUS
<1>2. PICK read, out : read = ReadUnder(again, p, k.tag) /\ out = ExportKid(old, k, at)
  OBVIOUS
<1>3. /\ Legible(again) /\ p \in Read(sub, again) /\ at \in Addresses
  BY AgainFields DEF Printing
<1>4. new.kids[k.tag] = IF read = <<>> THEN <<>> ELSE <<Last(read).name>>
  <2>1. new.kids[k.tag] = BuildKid(sub, again, again[p].nodes, k)
    BY <1>1, <1>3, KidsOfObject
  <2>2. KidKept(sub, again, p, k)
    BY BuildKidFields
  <2> QED
    BY <1>2, <2>1, <2>2 DEF KidKept
<1>5. out = ExportTitle(old, k.tag, at) /\ ExportKid(new, k, now) = ExportTitle(new, k.tag, now)
  BY <1>2 DEF ExportKid, IsText
<1>6. old.sub = sub /\ new.sub = sub
  BY <1>1 DEF Build
<1>7. Sequence(read) /\ Sequence(out) /\ DOMAIN read = DOMAIN out
      /\ (NotThere(again, p, k) <=> out = <<>>)
  <2>1. CameBack(W, again, p, k.tag, out)
    BY <1>1, <1>2, ReadBack
  <2> QED
    BY <1>2, <2>1 DEF CameBack, NotThere
<1>8. CASE old.kids[k.tag] # <<>>
  <2>1. PICK a, b : a = ExportText(k.tag, Repr(at)) /\ b = ExportText(k.tag, Repr(now))
    OBVIOUS
  <2>2. out = <<a>> /\ out # <<>>
    BY <1>5, <1>8, <2>1 DEF ExportTitle
  <2>3. read # <<>>
    <3>1. Len(out) = 1
      BY <2>2
    <3> QED
      BY <1>7, <3>1, AlikeInLength
  <2>4. new.kids[k.tag] # <<>>
    BY <1>4, <2>3
  <2>5. ExportTitle(new, k.tag, now) = <<b>>
    BY <2>1, <2>4 DEF ExportTitle
  <2>6. a = b <=> now = at
    BY <1>3, <2>1, ReprsDiffer
  <2>7. <<a>> = <<b>> <=> a = b
    OBVIOUS
  <2> QED
    BY <1>1, <1>2, <1>5, <1>7, <2>2, <2>5, <2>6, <2>7
<1>9. CASE old.kids[k.tag] = <<>>
  <2>1. sub = FALSE
    BY DEF NoSubclass
  <2>2. out = <<>>
    BY <1>5, <1>6, <1>9, <2>1 DEF ExportTitle
  <2>3. read = <<>>
    BY <1>7, <2>2, AlikeInLength
  <2>4. new.kids[k.tag] = <<>>
    BY <1>4, <2>3
  <2>5. ExportTitle(new, k.tag, now) = <<>>
    BY <1>6, <2>1, <2>4 DEF ExportTitle
  <2> QED
    BY <1>1, <1>2, <1>5, <1>7, <2>2, <2>5
<1> QED
  BY <1>8, <1>9

\* Each printing of a text is longer by the two marks of the bytes literal.
LEMMA TextKidGrows ==
  ASSUME NEW sub, NEW doc, NEW at, NEW now, NEW W, NEW again, Printing(sub, doc, at, W, again),
         NEW p \in PrintedOf(sub, doc), Row(ClassOf(sub, p)).content = "plain",
         NEW k \in KidsOf(ClassOf(sub, p)), IsText(k)
  PROVE  /\ ExportKid(Build(sub, again, p), k, now) = ExportKid(Build(sub, doc, p), k, at) <=>
              NotThere(again, p, k)
         /\ NotThere(again, p, k) => Build(sub, doc, p).kids[k.tag] = <<>>
<1>1. PICK old, new, out, kept :
        /\ old = Build(sub, doc, p) /\ new = Build(sub, again, p)
        /\ out = ExportKid(old, k, at) /\ kept = old.kids[k.tag]
  OBVIOUS
<1>2. Legible(doc) /\ p \in Read(sub, doc)
  BY AgainFields
<1>3. Sequence(kept) /\ \A t \in ToSet(kept) : IsWords(t)
  BY <1>1, <1>2, KidsOfObject
<1>4. new.kids[k.tag] = [j \in DOMAIN kept |-> AsBytes(kept[j])]
  BY <1>1, TextKidAgain
<1>5. Sequence(out) /\ (NotThere(again, p, k) <=> out = <<>>)
  <2>1. CameBack(W, again, p, k.tag, out)
    BY <1>1, ReadBack
  <2> QED
    BY <2>1 DEF CameBack, NotThere
<1>6. out = [j \in DOMAIN kept |-> ExportText(k.tag, kept[j])]
  BY <1>1 DEF ExportKid
<1>7. PICK newer : newer = new.kids[k.tag]
  OBVIOUS
<1>8. ExportKid(new, k, now) = [j \in DOMAIN newer |-> ExportText(k.tag, newer[j])]
  BY <1>7 DEF ExportKid
<1>9. CASE out = <<>>
  <2>1. kept = <<>>
    <3>1. DOMAIN kept = DOMAIN out
      BY <1>6
    <3> QED
      BY <1>3, <1>5, <1>9, <3>1, AlikeInLength
  <2>2. DOMAIN newer = {}
    BY <1>4, <1>7, <2>1
  <2>3. ExportKid(new, k, now) = <<>>
    BY <1>8, <2>2
  <2> QED
    BY <1>1, <1>5, <1>9, <2>1, <2>3
<1>10. CASE out # <<>>
  <2>1. PICK j : j \in DOMAIN kept
    <3>1. DOMAIN kept = DOMAIN out
      BY <1>6
    <3>2. kept # <<>>
      BY <1>3, <1>5, <1>10, <3>1, AlikeInLength
    <3>3. DOMAIN kept # {}
      <4>1. Sequence(<<>>)
        BY OneSequence
      <4>2. DOMAIN <<>> = {}
        OBVIOUS
      <4>3. DOMAIN kept = {} => kept = <<>>
        BY <1>3, <4>1, <4>2, AlikeInLength
      <4> QED
        BY <3>2, <4>3
    <3> QED
      BY <3>3
  <2>2. PICK t : t = kept[j] /\ IsWords(t)
    BY <1>3, <2>1 DEF ToSet
  <2>3. PICK b : b = AsBytes(t)
    OBVIOUS
  <2>4. IsWords(b) /\ Len(b) = Len(t) + 2 /\ Len(t) \in Nat /\ Len(AsBytes(quote_xml(t))) = Len(t) + 2
    BY <2>2, <2>3, BytesBack
  <2>5. Len(AsBytes(quote_xml(b))) = Len(b) + 2
    BY <2>4, BytesBack
  <2>6. out[j].text = AsBytes(quote_xml(t))
    <3>1. out[j] = ExportText(k.tag, t)
      BY <1>6, <2>1, <2>2
    <3> QED
      BY <3>1 DEF ExportText, TextChild
  <2>7. ExportKid(new, k, now)[j].text = AsBytes(quote_xml(b))
    <3>1. j \in DOMAIN newer /\ newer[j] = b
      BY <1>4, <1>7, <2>1, <2>2, <2>3
    <3>2. ExportKid(new, k, now)[j] = ExportText(k.tag, b)
      BY <1>8, <3>1
    <3> QED
      BY <3>2 DEF ExportText, TextChild
  <2>8. ExportKid(new, k, now) # out
    <3>1. PICK a, c : a = AsBytes(quote_xml(t)) /\ c = AsBytes(quote_xml(b))
      OBVIOUS
    <3>2. a # c
      BY <2>4, <2>5, <3>1
    <3> QED
      BY <2>6, <2>7, <3>1, <3>2
  <2> QED
    BY <1>1, <1>5, <1>10, <2>8
<1> QED
  BY <1>9, <1>10

NoTexts(sub, doc, p, at, now) ==
    \A k \in KidsOf(ClassOf(sub, p)) :
       /\ IsText(k) => NotThere(doc, p, k)
       /\ k.style = "titled" => NotThere(doc, p, k) \/ now = at

\* No subclass has set a text to '' if none was printed.
LEMMA NoneWithoutSubclass ==
  ASSUME NEW sub, NEW doc, NEW at, NEW W, NEW again, Printing(sub, doc, at, W, again),
         NEW p \in PrintedOf(sub, doc), Row(ClassOf(sub, p)).content = "plain",
         NEW j \in KidsOf(ClassOf(sub, p)), j.style = "text", NotThere(again, p, j)
  PROVE  NoSubclass(sub)
<1>1. /\ Legible(doc) /\ p \in Read(sub, doc) /\ sub \in BOOLEAN
  BY AgainFields
<1>2. IsText(j)
  BY DEF IsText
<1>3. Build(sub, doc, p).kids[j.tag] = <<>>
  <2>1. /\ ExportKid(Build(sub, again, p), j, at) = ExportKid(Build(sub, doc, p), j, at) <=>
             NotThere(again, p, j)
        /\ NotThere(again, p, j) => Build(sub, doc, p).kids[j.tag] = <<>>
    BY <1>2, TextKidGrows
  <2> QED
    BY <2>1
<1>4. Build(sub, doc, p).kids[j.tag] = BuildKid(sub, doc, doc[p].nodes, j)
  BY <1>1, KidsOfObject
<1>5. KidKept(sub, doc, p, j)
  BY BuildKidFields
<1>6. PICK read : read = ReadUnder(doc, p, j.tag)
  OBVIOUS
<1>7. <<>> = IF read # <<>> THEN <<NodeText(doc[Last(read).name])>>
             ELSE IF sub THEN << <<>> >> ELSE <<>>
  BY <1>3, <1>4, <1>5, <1>6 DEF KidKept
<1> QED
  BY <1>1, <1>7 DEF NoSubclass

\* The children of an object of the plain kind are written as they were
\* exactly when none of them was read as a text, and a title is found where
\* it was.
LEMMA PlainAgain ==
  ASSUME NEW sub, NEW doc, NEW at, NEW now \in Addresses, NEW W, NEW again,
         Printing(sub, doc, at, W, again),
         NEW p \in PrintedOf(sub, doc), Row(ClassOf(sub, p)).content = "plain"
  PROVE  exportChildren(Build(sub, again, p), now) = W[p].nodes <=> NoTexts(sub, again, p, at, now)
<1>1. PICK cls, old, new, w, x :
        /\ cls = ClassOf(sub, p) /\ old = Build(sub, doc, p) /\ new = Build(sub, again, p)
        /\ w = W[p].nodes /\ x = exportChildren(new, now)
  OBVIOUS
<1>2. /\ Legible(doc) /\ Legible(again) /\ p \in Read(sub, doc) /\ p \in Read(sub, again)
      /\ sub \in BOOLEAN /\ cls \in DOMAIN Rows /\ W[p] = Export(old, at)
  BY <1>1, AgainFields
<1>3. w = exportChildren(old, at)
  BY <1>1, <1>2 DEF Export, Element
<1>6. ASSUME NEW k \in KidsOf(cls), k.style = "titled",
             \A j \in KidsOf(cls) : IsText(j) => NotThere(again, p, j)
      PROVE  NoSubclass(sub)
  <2>1. PICK j \in KidsOf(cls) : j.style = "text"
    BY <1>2, <1>6, KidFields
  <2>2. NotThere(again, p, j)
    BY <1>6, <2>1 DEF IsText
  <2> QED
    BY <1>1, <2>1, <2>2, NoneWithoutSubclass
<1>4. ASSUME \A k \in KidsOf(cls) : /\ IsText(k) => NotThere(again, p, k)
                                    /\ k.style = "titled" => NotThere(again, p, k) \/ now = at
      PROVE  x = w
  <2>1. ASSUME NEW k \in KidsOf(cls) PROVE ExportKid(new, k, now) = ExportKid(old, k, at)
    <3>1. CASE IsText(k)
      <4>1. NotThere(again, p, k)
        BY <1>4, <3>1
      <4> QED
        BY <1>1, <3>1, <4>1, TextKidGrows
    <3>2. CASE k.style = "titled"
      <4>1. NoSubclass(sub)
        BY <1>4, <1>6, <3>2
      <4>2. k \in KidsOf(ClassOf(sub, p))
        BY <1>1
      <4>3. ExportKid(Build(sub, again, p), k, now) = ExportKid(Build(sub, doc, p), k, at) <=>
              (NotThere(again, p, k) \/ now = at)
        BY <3>2, <4>1, <4>2, TitleAgain
      <4> QED
        BY <1>1, <1>4, <3>2, <4>3
    <3>3. CASE k.style \in {"one", "many"}
      <4>1. new.kids[k.tag] = old.kids[k.tag]
        BY <1>1, <3>3, PartKidAgain
      <4> QED
        BY <3>3, <4>1 DEF ExportKid, IsText
    <3> QED
      BY <1>2, <3>1, <3>2, <3>3, KidFields DEF IsText
  <2>2. PICK kids : kids = Row(cls).kids
    OBVIOUS
  <2>3. PICK ss : ss = [i \in DOMAIN kids |-> ExportKid(old, kids[i], at)]
    OBVIOUS
  <2>4. PICK tt : tt = [i \in DOMAIN kids |-> ExportKid(new, kids[i], now)]
    OBVIOUS
  <2>5. ss = tt
    <3>1. ASSUME NEW i \in DOMAIN kids PROVE ExportKid(new, kids[i], now) = ExportKid(old, kids[i], at)
      BY <2>1, <2>2 DEF KidsOf, ToSet
    <3> QED
      BY <2>3, <2>4, <3>1
  <2>6. w = Concat(ss)
    BY <1>1, <1>3, <2>2, <2>3 DEF exportChildren, Build
  <2>7. x = Concat(tt)
    BY <1>1, <2>2, <2>4 DEF exportChildren, Build
  <2> QED
    BY <2>5, <2>6, <2>7
<1>5. ASSUME x = w, NEW k \in KidsOf(cls)
      PROVE  ExportKid(new, k, now) = ExportKid(old, k, at)
  <2>1. Those(w, Under(w, k.tag)) = ExportKid(old, k, at)
    BY <1>1, <1>2, <1>3, WrittenByKid
  <2>2. Those(x, Under(x, k.tag)) = ExportKid(new, k, now)
    BY <1>1, <1>2, WrittenByKid
  <2> QED
    BY <1>5, <2>1, <2>2
<1>7. ASSUME x = w PROVE NoTexts(sub, again, p, at, now)
  <2>1. ASSUME NEW k \in KidsOf(cls), IsText(k) PROVE NotThere(again, p, k)
    BY <1>1, <1>5, <1>7, <2>1, TextKidGrows
  <2>2. ASSUME NEW k \in KidsOf(cls), k.style = "titled"
        PROVE  NotThere(again, p, k) \/ now = at
    <3>1. NoSubclass(sub)
      BY <1>6, <2>1, <2>2
    <3>2. k \in KidsOf(ClassOf(sub, p))
      BY <1>1
    <3>3. ExportKid(Build(sub, again, p), k, now) = ExportKid(Build(sub, doc, p), k, at) <=>
            (NotThere(again, p, k) \/ now = at)
      BY <2>2, <3>1, <3>2, TitleAgain
    <3> QED
      BY <1>1, <1>5, <1>7, <3>3
  <2> QED
    BY <1>1, <2>1, <2>2 DEF NoTexts
<1> QED
  BY <1>1, <1>4, <1>7 DEF NoTexts

\* An object of the plain kind has the parts it had.
LEMMA PlainPartsAgain ==
  ASSUME NEW sub, NEW doc, NEW at, NEW W, NEW again, Printing(sub, doc, at, W, again),
         NEW p \in PrintedOf(sub, doc), Row(ClassOf(sub, p)).content = "plain"
  PROVE  PartsAt(sub, again, p) = PartsAt(sub, doc, p)
<1>1. PICK cls, old, new :
        cls = ClassOf(sub, p) /\ old = Build(sub, doc, p) /\ new = Build(sub, again, p)
  OBVIOUS
<1>2. /\ Legible(doc) /\ Legible(again) /\ p \in Read(sub, doc) /\ p \in Read(sub, again)
  BY AgainFields
<1>3. Parts(old) = PartsAt(sub, doc, p) /\ Parts(new) = PartsAt(sub, again, p)
  BY <1>1, <1>2, PartsOfObject
<1>4. PICK K : K = {j \in KidsOf(cls) : j.tag \in KidTags(cls) /\ j.style \in {"one", "many"}}
  OBVIOUS
<1>5. /\ old.cls = cls /\ new.cls = cls /\ old.content = <<>> /\ new.content = <<>>
      /\ DOMAIN old.kids = KidTags(cls) /\ DOMAIN new.kids = KidTags(cls)
  BY <1>1 DEF Build
<1>6. Parts(old) = (UNION {ToSet(old.kids[k.tag]) : k \in K}) \cup Complex(old.content)
  BY <1>4, <1>5 DEF Parts, Complex
<1>7. Parts(new) = (UNION {ToSet(new.kids[k.tag]) : k \in K}) \cup Complex(new.content)
  BY <1>4, <1>5 DEF Parts, Complex
<1>8. ASSUME NEW k \in K PROVE new.kids[k.tag] = old.kids[k.tag]
  BY <1>1, <1>4, PartKidAgain
<1> QED
  BY <1>3, <1>5, <1>6, <1>7, <1>8

LEMMA PartsAgain ==
  ASSUME NEW sub, NEW doc, NEW at, NEW W, NEW again, Printing(sub, doc, at, W, again),
         NEW p \in PrintedOf(sub, doc)
  PROVE  PartsAt(sub, again, p) = PartsAt(sub, doc, p)
<1>1. PICK content : content = Row(ClassOf(sub, p)).content
  OBVIOUS
<1>2. ClassOf(sub, p) \in DOMAIN Rows
  BY AgainFields
<1>3. content \in {"plain", "mixed", "value", "mixedvalue"}
  BY <1>1, <1>2, SchemaAssumption DEF IsRow
<1>4. CASE content = "plain"
  BY <1>1, <1>4, PlainPartsAgain
<1>5. CASE content = "mixed"
  BY <1>1, <1>5, MixedAgain
<1>6. CASE content \in {"value", "mixedvalue"}
  <2>1. PartsAt(sub, again, p) = {}
    BY <1>1, <1>2, <1>6, ValueHasNoParts
  <2>2. PartsAt(sub, doc, p) = {}
    BY <1>1, <1>2, <1>6, ValueHasNoParts
  <2> QED
    BY <2>1, <2>2
<1> QED
  BY <1>3, <1>4, <1>5, <1>6

\* What of an element makes its second printing the same as its first.
Settled(sub, doc, p, at, now) ==
    LET cls == ClassOf(sub, p) IN
    /\ Row(cls).content = "plain" => NoTexts(sub, doc, p, at, now)
    /\ Row(cls).content \in {"value", "mixedvalue"} =>
         \A n \in ToSet(doc[p].nodes) : n.type = "cdata" => n.token.kind # "markup"

LEMMA ElementAgain ==
  ASSUME NEW sub, NEW doc, NEW at, NEW now \in Addresses, NEW W, NEW again, Printing(sub, doc, at, W, again),
         NEW p \in PrintedOf(sub, doc)
  PROVE  Export(Build(sub, again, p), now) = W[p] <=> Settled(sub, again, p, at, now)
<1>1. PICK cls, content : cls = ClassOf(sub, p) /\ content = Row(cls).content
  OBVIOUS
<1>2. cls \in DOMAIN Rows /\ W[p] = Export(Build(sub, doc, p), at)
  BY <1>1, AgainFields
<1>3. content \in {"plain", "mixed", "value", "mixedvalue"}
  BY <1>1, <1>2, SchemaAssumption DEF IsRow
<1>4. Export(Build(sub, again, p), now) = W[p] <=> exportChildren(Build(sub, again, p), now) = W[p].nodes
  <2>1. PICK a, b, v : /\ a = exportAttributes(Build(sub, doc, p))
                       /\ b = exportChildren(Build(sub, doc, p), at)
                       /\ v = exportChildren(Build(sub, again, p), now)
    OBVIOUS
  <2>2. W[p] = Element(a, b)
    BY <1>2, <2>1 DEF Export
  <2>3. W[p].attrs = a /\ W[p].nodes = b
    BY <2>2 DEF Element
  <2>4. exportAttributes(Build(sub, again, p)) = a
    BY <2>3, AttributesAgain
  <2>5. Export(Build(sub, again, p), now) = Element(a, v)
    BY <2>1, <2>4 DEF Export
  <2>6. Element(a, v) = Element(a, b) <=> v = b
    BY DEF Element
  <2> QED
    BY <2>1, <2>2, <2>3, <2>5, <2>6
<1>5. exportChildren(Build(sub, again, p), now) = W[p].nodes <=> Settled(sub, again, p, at, now)
  <2>1. CASE content = "plain"
    <3>1. Row(ClassOf(sub, p)).content = "plain"
      BY <1>1, <2>1
    <3>2. exportChildren(Build(sub, again, p), now) = W[p].nodes <=> NoTexts(sub, again, p, at, now)
      BY <3>1, PlainAgain
    <3> QED
      BY <3>1, <3>2 DEF Settled
  <2>2. CASE content = "mixed"
    <3>1. Row(ClassOf(sub, p)).content = "mixed"
      BY <1>1, <2>2
    <3>2. exportChildren(Build(sub, again, p), now) = W[p].nodes
      BY <3>1, MixedAgain
    <3> QED
      BY <3>1, <3>2 DEF Settled
  <2>3. CASE content \in {"value", "mixedvalue"}
    <3>1. exportChildren(Build(sub, again, p), now) = W[p].nodes <=>
            \A n \in ToSet(again[p].nodes) : n.type = "cdata" => n.token.kind # "markup"
      BY <1>1, <2>3, ValueAgain
    <3> QED
      BY <1>1, <2>3, <3>1 DEF Settled
  <2> QED
    BY <1>3, <2>1, <2>2, <2>3
<1> QED
  BY <1>4, <1>5

\* The objects that are printed are the ones that were.
LEMMA PrintedAgain ==
  ASSUME NEW sub, NEW doc, NEW at, NEW W, NEW again, Printing(sub, doc, at, W, again)
  PROVE  PrintedOf(sub, again) = PrintedOf(sub, doc)
<1>1. PICK P, Q : P = PrintedOf(sub, doc) /\ Q = PrintedOf(sub, again)
  OBVIOUS
<1>2. Legible(doc) /\ sub \in BOOLEAN /\ Legible(again)
  BY ParsedIsLegible DEF Printing, Fresh
<1>3. \A q \in P : q # <<>> /\ Sequence(q) /\ q \in Read(sub, again)
  BY <1>1, AgainFields
<1>4. /\ \A q \in P : Len(q) > 1 => Front(q) \in P
      /\ \A q \in P : PartsAt(sub, doc, q) \subseteq P
  BY <1>1, <1>2, WrittenFields
<1>5. \A q \in P : PartsAt(sub, again, q) = PartsAt(sub, doc, q)
  BY <1>1, PartsAgain
<1>6. ASSUME NEW p \in P PROVE p \in Q
  <2>1. p \in DOMAIN again
    BY <1>3 DEF Read
  <2>2. ASSUME NEW n \in 1 .. Len(p) - 1
        PROVE  Prefix(p, n + 1) \in PartsAt(sub, again, Prefix(p, n))
    <3>1. Prefix(p, n + 1) \in PartsAt(sub, doc, Prefix(p, n))
      BY <1>1 DEF PrintedOf
    <3>2. Prefix(p, n) \in P
      <4>1. PICK m \in Nat : m = n /\ m \in 1 .. Len(p)
        <5>1. PICK l \in Nat : l = Len(p)
          BY <1>3 DEF Sequence
        <5> QED
          BY <5>1
      <4> QED
        BY <1>3, <1>4, <4>1, OnTheWay
    <3> QED
      BY <1>5, <3>1, <3>2
  <2> QED
    BY <1>1, <2>1, <2>2 DEF PrintedOf
<1>7. ASSUME NEW p \in Q PROVE p \in P
  <2>1. p \in Read(sub, again)
    BY <1>1, <1>2, PrintedIsRead
  <2>2. p \in DOMAIN again /\ Sequence(p) /\ p # <<>>
    BY <1>2, <2>1 DEF Read, Legible, LegibleElement
  <2>3. PICK l \in Nat : l = Len(p) /\ l > 0
    BY <2>2 DEF Sequence
  <2>4. PICK T : T = {n \in Nat : n + 1 <= l => Prefix(p, n + 1) \in P}
    OBVIOUS
  <2>5. 0 \in T
    <3>1. PICK r : r = Prefix(p, 1)
      OBVIOUS
    <3>2. 1 \in 1 .. Len(p)
      BY <2>3
    <3>3. Len(r) = 1
      BY <2>2, <3>1, <3>2, PrefixFields
    <3>4. r \in DOMAIN again
      <4>1. r \in Read(sub, again)
        BY <1>2, <2>1, <3>1, <3>2, ReadOnTheWay
      <4> QED
        BY <4>1 DEF Read
    <3>5. r \in P
      <4>1. r \in PrintedOf(sub, doc) \/ Len(r) > 1
        BY <3>4, AgainNames
      <4> QED
        BY <1>1, <3>3, <4>1
    <3>6. 0 + 1 = 1
      OBVIOUS
    <3> QED
      BY <2>4, <3>1, <3>5, <3>6
  <2>6. ASSUME NEW n \in Nat, n \in T PROVE n + 1 \in T
    <3>1. PICK m \in Nat : m = n + 1
      OBVIOUS
    <3>2. ASSUME m + 1 <= l PROVE Prefix(p, m + 1) \in P
      <4>1. m \in 1 .. Len(p) - 1 /\ n + 1 <= l
        BY <2>3, <3>1, <3>2
      <4>2. Prefix(p, m) \in P
        BY <2>4, <2>6, <3>1, <4>1
      <4>3. Prefix(p, m + 1) \in PartsAt(sub, again, Prefix(p, m))
        BY <1>1, <4>1 DEF PrintedOf
      <4> QED
        BY <1>4, <1>5, <4>2, <4>3
    <3> QED
      BY <2>4, <3>1, <3>2
  <2>7. Nat \subseteq T
    BY <2>5, <2>6, Induction
  <2>8. l - 1 \in Nat /\ (l - 1) + 1 = l
    BY <2>3
  <2>9. Prefix(p, l) \in P
    BY <2>4, <2>7, <2>8
  <2>10. Prefix(p, l) = p
    BY <2>2, <2>3, PrefixOfPrefix
  <2> QED
    BY <2>9, <2>10
<1> QED
  BY <1>1, <1>6, <1>7

\* What is printed again is what was printed exactly when all of it is settled.
LEMMA StableOnce ==
  ASSUME NEW sub, NEW doc, NEW at, NEW now \in Addresses, NEW W, NEW again, Printing(sub, doc, at, W, again)
  PROVE  ExportAll(BuildAll(sub, again), now) = W <=>
           \A p \in PrintedOf(sub, again) : Settled(sub, again, p, at, now)
<1>1. PICK P, V : P = PrintedOf(sub, doc) /\ V = ExportAll(BuildAll(sub, again), now)
  OBVIOUS
<1>2. P = PrintedOf(sub, again)
  BY <1>1, PrintedAgain
<1>3. /\ Legible(doc) /\ Legible(again) /\ W = ExportAll(BuildAll(sub, doc), at)
  BY ParsedIsLegible DEF Printing, Fresh
<1>4. DOMAIN V = P /\ \A p \in P : V[p] = Export(Build(sub, again, p), now)
  BY <1>1, <1>2, <1>3, WrittenFields
<1>5. DOMAIN W = P
  BY <1>1, <1>3, WrittenFields
<1>6. \A p \in P : V[p] = W[p] <=> Settled(sub, again, p, at, now)
  BY <1>1, <1>4, ElementAgain
<1>7. V = W <=> \A p \in P : V[p] = W[p]
  <2>1. V = [p \in P |-> V[p]]
    BY <1>1, <1>4 DEF ExportAll
  <2>2. W = [p \in P |-> W[p]]
    BY <1>3, <1>5 DEF ExportAll
  <2> QED
    BY <2>1, <2>2
<1> QED
  BY <1>1, <1>2, <1>6, <1>7

\* After one printing the document is what was printed first, read back.
WasPrinted(doc, at) ==
    LET W == ExportAll(BuildAll(subclassed, doc), at) IN
    /\ at \in Addresses /\ WellFormed(W)
    /\ original = <<[text |-> W, address |-> at]>> /\ dom = Parsed(W)

Reprinted ==
    /\ generation \in Nat
    /\ generation = 0 => dom \in Documents
    /\ phase = "printed" /\ generation = 0 =>
         \E W : written = <<W>> /\ original = <<[text |-> W, address |-> address]>>
    /\ generation = 1 => \E doc \in Documents : \E at : WasPrinted(doc, at)

LEMMA ReprintedInit ==
  ASSUME Init
  PROVE  Reprinted
BY DEF Init, Reprinted

LEMMA ReprintedNext ==
  ASSUME Faithful, Reprinted, [Next]_vars
  PROVE  Reprinted'
<1>0. ASSUME UNCHANGED <<original, dom, subclassed>>
      PROVE  \A doc, at : WasPrinted(doc, at)' <=> WasPrinted(doc, at)
  BY <1>0 DEF WasPrinted
<1>1. CASE Parse
  <2>1. UNCHANGED <<original, dom, subclassed, generation>> /\ phase' # "printed"
    BY <1>1 DEF Parse
  <2> QED
    BY <1>0, <2>1 DEF Reprinted
<1>2. CASE ParseRaises
  <2>1. UNCHANGED <<original, dom, subclassed, generation>> /\ phase' # "printed"
    BY <1>2 DEF ParseRaises
  <2> QED
    BY <1>0, <2>1 DEF Reprinted
<1>3. CASE PrintXml
  <2>1. PICK W : W = ExportAll(objects[1], address)
    OBVIOUS
  <2>2. /\ written' = <<W>> /\ UNCHANGED <<dom, subclassed, address, generation>>
        /\ original' = IF generation = 0 THEN <<[text |-> W, address |-> address]>> ELSE original
    BY <1>3, <2>1 DEF PrintXml
  <2>3. CASE generation = 0
    <3>1. \E V : written' = <<V>> /\ original' = <<[text |-> V, address |-> address']>>
      BY <2>2, <2>3
    <3> QED
      BY <2>2, <2>3, <3>1 DEF Reprinted
  <2>4. CASE generation # 0
    <3>1. UNCHANGED <<original, dom, subclassed, generation>>
      BY <2>2, <2>4
    <3> QED
      BY <1>0, <2>4, <3>1 DEF Reprinted
  <2> QED
    BY <2>3, <2>4
<1>4. CASE PrintXmlRaises
  <2>1. UNCHANGED <<original, dom, subclassed, generation>> /\ phase' # "printed"
    BY <1>4 DEF PrintXmlRaises
  <2> QED
    BY <1>0, <2>1 DEF Reprinted
<1>5. CASE PrintLiteral
  <2>1. UNCHANGED <<original, dom, subclassed, generation>> /\ phase' # "printed"
    BY <1>5 DEF PrintLiteral
  <2> QED
    BY <1>0, <2>1 DEF Reprinted
<1>6. CASE Reload
  <2>1. PICK W : W = ExportAll(BuildAll(subclassed, dom), address)
    OBVIOUS
  <2>2. written = <<W>>
    BY <1>6, <2>1 DEF Faithful, Reload
  <2>3. written[1] = W
    BY <2>2
  <2>4. /\ WellFormed(W) /\ dom' = Parsed(W) /\ phase' = "file" /\ phase = "printed"
        /\ generation' = generation + 1 /\ subclassed' = subclassed /\ original' = original
    BY <1>6, <2>3 DEF Reload
  <2>5. generation \in Nat /\ generation' \in Nat /\ generation' # 0
    BY <2>4 DEF Reprinted
  <2>6. CASE generation = 0
    <3>1. PICK V : written = <<V>> /\ original = <<[text |-> V, address |-> address]>>
      BY <2>4, <2>6 DEF Reprinted
    <3>2. V = W
      <4>1. written[1] = V
        BY <3>1
      <4> QED
        BY <2>3, <4>1
    <3>3. dom \in Documents
      BY <2>6 DEF Reprinted
    <3>4. PICK doc : doc = dom
      OBVIOUS
    <3>5. PICK at : at = address /\ at \in Addresses
      BY DEF Faithful
    <3>6. WasPrinted(doc, at)'
      BY <2>1, <2>4, <3>1, <3>2, <3>4, <3>5 DEF WasPrinted
    <3> QED
      BY <2>4, <2>5, <3>3, <3>4, <3>6 DEF Reprinted
  <2>7. CASE generation # 0
    <3>1. generation' # 1
      BY <2>4, <2>5, <2>7
    <3> QED
      BY <2>4, <2>5, <3>1 DEF Reprinted
  <2> QED
    BY <2>6, <2>7
<1>7. CASE ReloadRefused
  <2>1. UNCHANGED <<original, dom, subclassed, generation>> /\ phase' # "printed"
    BY <1>7 DEF ReloadRefused
  <2> QED
    BY <1>0, <2>1 DEF Reprinted
<1>8. CASE Ended \/ UNCHANGED vars
  <2>1. UNCHANGED <<original, dom, subclassed, generation, phase, written, address>>
    BY <1>8 DEF Ended, vars
  <2> QED
    BY <1>0, <2>1 DEF Reprinted
<1> QED
  BY <1>1, <1>2, <1>3, <1>4, <1>5, <1>6, <1>7, <1>8 DEF Next

\* PrintingIsStable: parsing what was printed and printing it again gives
\* the same exactly when no child was read as a text, no CDATA section has
\* characters to escape, and a title that is written by its repr is found
\* where it was.
THEOREM StableAlways == Spec => []PrintingIsStable
<1>1. ASSUME Faithful, Reprinted PROVE PrintingIsStable
  <2> SUFFICES ASSUME phase = "printed", generation = 1
               PROVE  written[1] = original[1].text <=>
                        \A p \in Printed : Settled(subclassed, dom, p, original[1].address, address)
    BY DEF PrintingIsStable, Settled, NoTexts, NotThere, Class, Content, Nodes
  <2>1. PICK doc \in Documents : \E at : WasPrinted(doc, at)
    BY <1>1 DEF Reprinted
  <2>2. PICK at : WasPrinted(doc, at)
    BY <2>1
  <2>3. PICK W, now : W = ExportAll(BuildAll(subclassed, doc), at) /\ now = address
    OBVIOUS
  <2>4. /\ at \in Addresses /\ WellFormed(W) /\ dom = Parsed(W)
        /\ original = <<[text |-> W, address |-> at]>>
    BY <2>2, <2>3 DEF WasPrinted
  <2>5. original[1].text = W /\ original[1].address = at
    <3>1. PICK r : r = [text |-> W, address |-> at]
      OBVIOUS
    <3>2. original[1] = r
      BY <2>4, <3>1
    <3> QED
      BY <3>1, <3>2
  <2>6. Fresh(doc)
    BY DocumentsAssumption, FreshDocument
  <2>7. PICK V : V = ExportAll(BuildAll(subclassed, dom), now)
    OBVIOUS
  <2>8. subclassed \in BOOLEAN /\ now \in Addresses /\ written[1] = V
    <3>1. subclassed \in BOOLEAN /\ now \in Addresses /\ written = <<V>>
      BY <1>1, <2>3, <2>7 DEF Faithful
    <3> QED
      BY <3>1
  <2>9. Printing(subclassed, doc, at, W, dom)
    BY <2>3, <2>4, <2>6, <2>8 DEF Printing
  <2>10. V = W <=> \A p \in PrintedOf(subclassed, dom) : Settled(subclassed, dom, p, at, now)
    BY <2>7, <2>8, <2>9, StableOnce
  <2> QED
    BY <2>3, <2>5, <2>8, <2>10, PrintedHere
<1>2. Init => Faithful /\ Reprinted
  BY FaithfulInit, ReprintedInit
<1>3. Faithful /\ Reprinted /\ [Next]_vars => Faithful' /\ Reprinted'
  BY FaithfulNext, ReprintedNext
<1> QED
  BY <1>1, <1>2, <1>3, PTL DEF Spec
=============================================================================
