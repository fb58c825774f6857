----------------------------- MODULE XmlBinding -----------------------------
(***************************************************************************)
(* What the classes written by generateDS do with an XML document: build   *)
(* reads a DOM node into an object, export writes the object as XML again, *)
(* exportLiteral as Python, and text.py takes the text out of it.  The     *)
(* code is the same in every class up to its row.                          *)
(*                                                                         *)
(* `sub' says whether the subclasses of compound.py are registered, which  *)
(* they are when the package is imported and not when the generated module *)
(* runs as a script.                                                       *)
(*                                                                         *)
(* A document is a function from the names of its elements to the          *)
(* elements.  A name is the way to the element from outside: the tag of    *)
(* each element on it, and its place in the one before.  Objects are named *)
(* by the elements they are read from, and so is what they are written as. *)
(*                                                                         *)
(* The content of an element is a sequence of nodes: tokens of text, in a  *)
(* CDATA section or not, and child elements.  A token of kind "markup"     *)
(* holds characters XML must escape, `esc' times escaped; the others are   *)
(* "word", "number" and "accent" (outside ASCII).  White space is left out, *)
(* and with it what each printing adds around elements, which is read back  *)
(* as text: texts are compared but for it.                                  *)
(***************************************************************************)
EXTENDS Integers, SequencesExt, FiniteSetsExt, Selection

CONSTANT Rows

Token(kind) == [kind |-> kind, esc |-> 0]
Break == Token("break")       \* the empty line after a paragraph
Bare(token) == token.kind = "markup" /\ token.esc = 0

Step(tag, place) == [tag |-> tag, place |-> place]
Tag(name) == Last(name).tag

Element(attrs, nodes) == [attrs |-> attrs, nodes |-> nodes]
Text(token) == [type |-> "text", token |-> token]
CData(token) == [type |-> "cdata", token |-> token]
Child(name) == [type |-> "element", name |-> name]

Characters(nodes, types) == {i \in DOMAIN nodes : nodes[i].type \in types}
Children(nodes, tags) ==
    {i \in DOMAIN nodes : nodes[i].type = "element" /\ Tag(nodes[i].name) \in tags}

Row(cls) == Rows[cls]
KidsOf(cls) == ToSet(Row(cls).kids)
KidTags(cls) == {k.tag : k \in KidsOf(cls)}
KidOf(cls, tag) == CHOOSE k \in KidsOf(cls) : k.tag = tag
IsText(kid) == kid.style \in {"text", "texts"}
Styled(cls, style) == {a.name : a \in {b \in ToSet(Row(cls).attrs) : b.style = style}}
Encoded(cls) == Styled(cls, "encoded") \cup Styled(cls, "always encoded")
Demanded(cls) == Styled(cls, "always") \cup Styled(cls, "always encoded")
Named(cls) == {a.name : a \in ToSet(Row(cls).attrs)}

------------------------------------------------------------------------------
(* Reading.                                                                 *)

(* Both files start with a class DoxygenType; indexsuper's reads the index. *)
RootClass(tag) == IF tag = "doxygenindex" THEN "doxygenindex" ELSE "DoxygenType"

(* What docParaTypeSub reads besides what its base class does.              *)
IsPara(sub, cls) == sub /\ cls = "docParaType"
ParaClasses ==
    [ref |-> "docRefTextType", parameterlist |-> "docParamListType",
     simplesect |-> "docSimpleSectType"]

(* The class a child of an object is read by; "" if it is read as a text,   *)
(* or not at all.                                                           *)
ReaderOf(sub, cls, tag) ==
    IF cls = "" THEN ""
    ELSE IF tag \in KidTags(cls) THEN KidOf(cls, tag).cls
    ELSE IF IsPara(sub, cls) /\ tag \in DOMAIN ParaClasses THEN ParaClasses[tag]
    ELSE ""

(* The class of the object that is read from an element, "" if none is.     *)
ClassOf(sub, name) ==
    LET class[n \in 1 .. Len(name)] ==
          IF n = 1 THEN RootClass(name[1].tag)
          ELSE ReaderOf(sub, class[n - 1], name[n].tag)
    IN  class[Len(name)]

(* The text of an element read by adding up its children's nodeValue.       *)
NodeText(element) ==
    LET read == Kept(element.nodes, Characters(element.nodes, {"text", "cdata"}))
    IN  [i \in DOMAIN read |-> read[i].token]

(* A child is a sequence: empty when unset, of one value when it holds one. *)
(* The subclasses' constructors set every text to ''.                       *)
Unset(sub, kid) == IF sub /\ kid.style = "text" THEN << <<>> >> ELSE <<>>

BuildKid(sub, dom, nodes, kid) ==
    LET read == Kept(nodes, Children(nodes, {kid.tag}))
        value(n) == IF IsText(kid) THEN NodeText(dom[n.name]) ELSE n.name
    IN  IF kid.style \in {"many", "texts"} THEN [i \in DOMAIN read |-> value(read[i])]
        ELSE IF read = <<>> THEN Unset(sub, kid)
        ELSE <<value(Last(read))>>

(* An item of content_ (MixedContainer).                                    *)
Item(category, tag, text, name) ==
    [category |-> category, tag |-> tag, text |-> text, name |-> name]
TextItem(token) == Item("text", "", <<token>>, <<>>)

BuildItem(cls, dom, n) ==
    IF n.type = "text" THEN TextItem(n.token)
    ELSE IF IsText(KidOf(cls, Tag(n.name)))
    THEN Item("simple", Tag(n.name), NodeText(dom[n.name]), <<>>)
    ELSE Item("complex", Tag(n.name), <<>>, n.name)

BuildContent(cls, dom, nodes) ==
    LET read == Kept(nodes, Characters(nodes, {"text"}) \cup Children(nodes, KidTags(cls)))
    IN  [i \in DOMAIN read |-> BuildItem(cls, dom, read[i])]

\* faulty: the references in a paragraph are not read
BuildPara_TextOnly(nodes) ==
    LET read == Kept(nodes, Characters(nodes, {"text"}))
    IN  [i \in DOMAIN read |-> TextItem(read[i].token)]

(* Text and references in the order they come, and no other markup.         *)
BuildPara(nodes) ==
    LET read == Kept(nodes, Characters(nodes, {"text"}) \cup Children(nodes, {"ref"}))
    IN  [i \in DOMAIN read |->
           IF read[i].type = "text" THEN TextItem(read[i].token)
           ELSE Item("complex", "", <<>>, read[i].name)]

(* Parameter lists and simple sections apart.                               *)
BuildParts(nodes, tag) ==
    LET read == Kept(nodes, Children(nodes, {tag}))
    IN  [i \in DOMAIN read |-> read[i].name]

(* A class of the mixed kind keeps its children in content_ and has no      *)
(* attribute of their own for them.                                         *)
Build(sub, dom, name) ==
    LET cls == ClassOf(sub, name)
        element == dom[name]
        content == Row(cls).content
        para == IF IsPara(sub, cls) THEN element.nodes ELSE <<>>
    IN  [cls |-> cls, sub |-> sub,
         attrs |-> [a \in Named(cls) \cap DOMAIN element.attrs |-> element.attrs[a]],
         kids |-> [t \in (IF content = "mixed" THEN {} ELSE KidTags(cls)) |->
                     BuildKid(sub, dom, element.nodes, KidOf(cls, t))],
         content |-> IF content \in {"mixed", "mixedvalue"}
                     THEN BuildContent(cls, dom, element.nodes) ELSE <<>>,
         value |-> IF content \in {"value", "mixedvalue"}
                   THEN Kept(element.nodes, Characters(element.nodes, {"text", "cdata"}))
                   ELSE <<>>,
         inline |-> BuildPara(para),
         parameterlist |-> BuildParts(para, "parameterlist"),
         simplesects |-> BuildParts(para, "simplesect")]

(* The elements that are read into objects.                                 *)
Read(sub, dom) == {p \in DOMAIN dom : ClassOf(sub, p) # ""}

BuildAll(sub, dom) == [p \in Read(sub, dom) |-> Build(sub, dom, p)]

(* build raises for a number that is not one (int) and for an element       *)
(* inside one that is read as a text (its nodeValue is None).               *)
BuildRaises(sub, dom) ==
    \E p \in Read(sub, dom) :
       LET cls == ClassOf(sub, p) IN
       \/ \E a \in Styled(cls, "integer") \cap DOMAIN dom[p].attrs :
            dom[p].attrs[a].kind # "number"
       \/ \E i \in Children(dom[p].nodes, {k.tag : k \in {j \in KidsOf(cls) : IsText(j)}}) :
            \E n \in ToSet(dom[dom[p].nodes[i].name].nodes) : n.type = "element"

------------------------------------------------------------------------------
(* Writing.  What export writes is again made of elements.  A child that is *)
(* written as a text has no name yet.  An attribute says whether it was     *)
(* written as a bytes literal, b'"..."', which is no XML.                   *)

TextChild(tag, text) == [type |-> "simple", tag |-> tag, text |-> text]

Quote(token) == IF token.kind = "markup" THEN [token EXCEPT !.esc = @ + 1] ELSE token
Unquote(token) == IF token.kind = "markup" THEN [token EXCEPT !.esc = @ - 1] ELSE token
quote_xml(text) == [i \in DOMAIN text |-> Quote(text[i])]

(* '%s' of what str.encode returned: b'...'                                 *)
AsBytes(text) == <<Token("b'")>> \o text \o <<Token("'")>>

exportAttributes(obj) ==
    [a \in DOMAIN obj.attrs \cup Demanded(obj.cls) |->
       [token |-> Quote(IF a \in DOMAIN obj.attrs THEN obj.attrs[a] ELSE Token("None")),
        bytes |-> a \in Encoded(obj.cls)]]

\* faulty: a text is written as text
ExportText_AsText(tag, text) == TextChild(tag, quote_xml(text))

ExportText(tag, text) == TextChild(tag, AsBytes(quote_xml(text)))

(* '<docTitleType object at 0x...>': `at' is where a document's title, of   *)
(* which it has one at most, lies in memory.                                *)
Repr(at) == <<Token("markup"), Token(at)>>

(* A title read as an object is written by its repr; one never read is None *)
(* in the class and '' in its subclass.                                     *)
ExportTitle(obj, tag, at) ==
    IF obj.kids[tag] # <<>> THEN <<ExportText(tag, Repr(at))>>
    ELSE IF obj.sub THEN <<ExportText(tag, <<>>)>> ELSE <<>>

ExportKid(obj, kid, at) ==
    LET kept == obj.kids[kid.tag]
    IN  IF IsText(kid) THEN [i \in DOMAIN kept |-> ExportText(kid.tag, kept[i])]
        ELSE IF kid.style = "titled" THEN ExportTitle(obj, kid.tag, at)
        ELSE [i \in DOMAIN kept |-> Child(kept[i])]

\* faulty: the text between the elements is escaped
ExportItem_Quoted(item) ==
    IF item.category = "text" THEN Text(Quote(item.text[1]))
    ELSE IF item.category = "simple" THEN TextChild(item.tag, item.text)
    ELSE Child(item.name)

ExportItem(item) ==
    IF item.category = "text" THEN Text(item.text[1])
    ELSE IF item.category = "simple" THEN TextChild(item.tag, item.text)
    ELSE Child(item.name)

exportChildren(obj, at) ==
    LET row == Row(obj.cls)
    IN  IF row.content = "plain"
        THEN Concat([i \in DOMAIN row.kids |-> ExportKid(obj, row.kids[i], at)])
        ELSE IF row.content = "mixed"
        THEN [i \in DOMAIN obj.content |-> ExportItem(obj.content[i])]
        ELSE [i \in DOMAIN obj.value |->
                [type |-> obj.value[i].type, token |-> Quote(obj.value[i].token)]]

Export(obj, at) == Element(exportAttributes(obj), exportChildren(obj, at))

(* The objects an object writes.                                            *)
Parts(obj) ==
    (UNION {ToSet(obj.kids[k.tag]) : k \in {j \in KidsOf(obj.cls) :
              j.tag \in DOMAIN obj.kids /\ j.style \in {"one", "many"}}}) \cup
    {item.name : item \in {i \in ToSet(obj.content) : i.category = "complex"}}

(* The objects that are written when the root is.                           *)
Prefix(name, n) == SubSeq(name, 1, n)
Within(objects) ==
    {p \in DOMAIN objects :
       \A n \in 1 .. Len(p) - 1 : Prefix(p, n + 1) \in Parts(objects[Prefix(p, n)])}

ExportAll(objects, at) == [p \in Within(objects) |-> Export(objects[p], at)]

Accented(text) == Token("accent") \in ToSet(text)

(* encode('ascii') raises for a letter outside ASCII.                       *)
ExportRaises(objects) ==
    \E p \in Within(objects) :
       LET obj == objects[p] IN
       \/ \E a \in DOMAIN obj.attrs \cap Encoded(obj.cls) : obj.attrs[a].kind = "accent"
       \/ \E k \in KidsOf(obj.cls) :
            /\ Row(obj.cls).content = "plain" /\ IsText(k)
            /\ \E t \in ToSet(obj.kids[k.tag]) : Accented(t)

\* faulty: an empty list is no content
hasContent_Filled(obj) ==
    \E k \in KidsOf(obj.cls) : obj.kids[k.tag] # <<>> \/ (k.style = "titled" /\ obj.sub)

(* hasContent_ of a class of the plain kind: a list is there even if empty. *)
hasContent_(obj) ==
    \E k \in KidsOf(obj.cls) :
       \/ k.style \in {"many", "texts"} \/ obj.kids[k.tag] # <<>>
       \/ k.style = "titled" /\ obj.sub

(* quote_python fails on None, and encode on a letter outside ASCII.        *)
LiteralFails(obj) ==
    /\ Row(obj.cls).content = "plain" /\ hasContent_(obj)
    /\ \E k \in KidsOf(obj.cls) :
          \/ k.style = "text" /\ obj.kids[k.tag] = <<>>
          \/ IsText(k) /\ \E t \in ToSet(obj.kids[k.tag]) : Accented(t)

(* exportLiteral asks hasContent_ first, which in a class of the mixed kind *)
(* looks at attributes no constructor sets.  An object with parts has       *)
(* content, so that each part is reached unless the object itself raises.   *)
LiteralRaises(objects) ==
    \E p \in Within(objects) :
       Row(objects[p].cls).content = "mixed" \/ LiteralFails(objects[p])

(* An XML parser reading what export wrote.                                 *)
WellFormed(written) ==
    \A p \in DOMAIN written :
       /\ \A a \in DOMAIN written[p].attrs : ~written[p].attrs[a].bytes
       /\ \A n \in ToSet(written[p].nodes) :
            /\ n.type = "text" => ~Bare(n.token)
            /\ n.type = "simple" => \A t \in ToSet(n.text) : ~Bare(t)

(* An element that was written as a text is named by its place and a minus. *)
TextName(name, tag, place) == Append(name, Step(tag, 0 - place))

TextNames(name, nodes) ==
    {TextName(name, nodes[i].tag, i) : i \in {j \in DOMAIN nodes : nodes[j].type = "simple"}}

ParsedNode(name, place, n) ==
    IF n.type = "simple" THEN Child(TextName(name, n.tag, place))
    ELSE IF n.type = "text" THEN Text(Unquote(n.token))
    ELSE n

Parsed(written) ==
    [p \in DOMAIN written \cup UNION {TextNames(q, written[q].nodes) : q \in DOMAIN written} |->
       IF p \in DOMAIN written
       THEN LET nodes == written[p].nodes IN
            Element([a \in DOMAIN written[p].attrs |-> Unquote(written[p].attrs[a].token)],
                    [i \in DOMAIN nodes |-> ParsedNode(p, i, nodes[i])])
       ELSE LET text == written[Front(p)].nodes[0 - Last(p).place].text IN
            Element([a \in {} |-> Token("")],
                    [i \in DOMAIN text |-> Text(Unquote(text[i]))])]

------------------------------------------------------------------------------
(* Taking the text out (text.py).                                           *)

DescribeItem(bits, item) ==
    LET text == IF item.category = "complex" THEN bits[item.name] ELSE item.text
    IN  IF item.tag = "para" THEN Append(text, Break) ELSE text

Items(obj) == IF IsPara(obj.sub, obj.cls) THEN obj.inline ELSE obj.content

description_bit(objects) ==
    LET bits[p \in DOMAIN objects] ==
          Concat([i \in DOMAIN Items(objects[p]) |-> DescribeItem(bits, Items(objects[p])[i])])
    IN  bits

(* strip(): no white space at either end.                                   *)
Strip(text) ==
    LET inner == {i \in DOMAIN text : text[i] # Break}
    IN  IF inner = {} THEN <<>> ELSE SubSeq(text, Min(inner), Max(inner))

description(objects, p) == Strip(description_bit(objects)[p])
=============================================================================
