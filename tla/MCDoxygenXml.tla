---------------------------- MODULE MCDoxygenXml ----------------------------
(***************************************************************************)
(* Documents for DoxygenXml: one class with every mix of paragraph markup, *)
(* and with every combination of the parts that are read or written in a   *)
(* way of their own.                                                       *)
(***************************************************************************)
EXTENDS DoxygenXml, TLC

Compound == INSTANCE CompoundSchema
Index == INSTANCE IndexSchema

MCRows ==
    [c \in DOMAIN Compound!Schema \cup DOMAIN Index!Schema |->
        IF c \in DOMAIN Index!Schema THEN Index!Schema[c] ELSE Compound!Schema[c]]

(* Documents are written here with the elements inside each other.          *)
Word == Token("word")
Attr(names) == [n \in names |-> Word]
Nested(tag, attrs, nodes) ==
    [type |-> "element", tag |-> tag, attrs |-> attrs, nodes |-> nodes]
E(tag, nodes) == Nested(tag, Attr({}), nodes)
T(kind) == Text(Token(kind))

RECURSIVE Laid(_, _)
Laid(name, e) ==
    LET inner == {i \in DOMAIN e.nodes : e.nodes[i].type = "element"}
        step(i) == Append(name, Step(e.nodes[i].tag, i))
        own == Element(e.attrs, [i \in DOMAIN e.nodes |->
                                   IF i \in inner THEN Child(step(i)) ELSE e.nodes[i]])
    IN  FoldSet(LAMBDA i, doc : doc @@ Laid(step(i), e.nodes[i]), name :> own, inner)

Document(e) == Laid(<<Step(e.tag, 1)>>, e)

Inline ==
    {T("word"), T("markup"), CData(Token("markup")), E("bold", <<T("word")>>),
     Nested("ref", Attr({"refid"}), <<T("word")>>),
     E("parameterlist", <<E("parameteritem", <<E("parameternamelist",
         <<E("parametername", <<T("word")>>)>>)>>)>>)}

Paragraphs == UNION {[1 .. k -> Inline] : k \in 0 .. 2}

Description(blocks) == E("detaileddescription", blocks)

ClassWith(attrs, nodes) ==
    Nested("doxygen", Attr({"version"}),
            <<Nested("compounddef", Attr(attrs), nodes)>>)

Described ==
    {ClassWith({"kind"}, <<Description(<<E("para", p)>>)>>) : p \in Paragraphs} \cup
    {ClassWith({"kind", "id"}, <<E("compoundname", <<T("word")>>),
                             Description(<<E("title", <<T("word"), E("bold", <<T("word")>>)>>),
                                           E("para", p), T("word"),
                                           E("sect1", <<E("para", q)>>)>>)>>) :
        p \in [1 .. 1 -> Inline], q \in [1 .. 1 -> Inline]}

(* At most one of each of these parts.                                      *)
Names == {<<>>, <<E("compoundname", <<T("word")>>)>>, <<E("compoundname", <<T("accent")>>)>>,
          <<E("compoundname", <<T("word"), E("bold", <<T("word")>>)>>)>>}
Titles == {<<>>, <<E("title", <<T("word")>>)>>}
Places == {<<>>} \cup {<<Nested("location", [n \in {"line"} |-> Token(k)], <<>>)>> :
                         k \in {"number", "word"}}
Types == {<<>>, <<T("word")>>, <<T("word"), Nested("ref", Attr({}), <<T("markup")>>)>>,
          <<T("markup")>>}
Members ==
    {<<>>} \cup
    {<<E("sectiondef", <<Nested("memberdef", Attr(a), <<E("type", t)>>)>>)>> :
        a \in {{"kind"}, {"kind", "id"}}, t \in Types}
Values == {<<>>, <<E("sectiondef", <<E("memberdef", <<E("enumvalue",
                      <<E("name", <<T("markup")>>)>>)>>)>>)>>}

Composed ==
    {ClassWith({"kind"}, n \o t \o m \o v \o l) :
        n \in Names, t \in Titles, m \in Members, v \in Values, l \in Places}

(* A second description replaces the first; labels are all kept.            *)
Repeated ==
    {ClassWith({"kind"}, <<Description(<<T(k)>>), Description(<<T(l)>>)>>) :
        k \in {"word", "markup"}, l \in {"word", "markup"}} \cup
    {ClassWith({"kind"}, <<E("inheritancegraph", <<E("node", n)>>)>>) :
        n \in {<<>>, <<E("childnode", <<E("edgelabel", <<T("word")>>),
                                       E("edgelabel", <<T("markup")>>)>>)>>}}

(* The index: compounds with and without a name, an attribute or members.   *)
IndexEntries ==
    {Nested("compound", Attr(a), n \o m) :
        a \in {{"kind"}, {"kind", "refid"}}, n \in Names,
        m \in {<<>>, <<Nested("member", Attr({"kind", "refid"}), <<>>)>>,
               <<Nested("member", Attr({"refid"}), <<E("name", <<T("markup")>>)>>)>>}}

Indexes ==
    {Nested("doxygenindex", Attr(v), c) :
        v \in {{}, {"version"}},
        c \in {<<>>} \cup {<<e>> : e \in IndexEntries}}

MCDocuments ==
    {Document(e) : e \in Described \cup Composed \cup Repeated \cup Indexes \cup {E("doxygen", <<>>)}}
=============================================================================
