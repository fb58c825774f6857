----------------------------- MODULE DoxygenXml -----------------------------
(***************************************************************************)
(* A document of Doxygen's XML in the hands of doxyxml/generated: parsed   *)
(* into objects (parse of compound and index), printed as XML (parse of    *)
(* compoundsuper and indexsuper) or as Python (their parseLiteral), and    *)
(* what was printed parsed again.                                          *)
(***************************************************************************)
EXTENDS XmlBinding

CONSTANTS Documents,     \* of compounds and of the index, as Doxygen writes them
          Addresses,     \* of objects in memory, as they are printed
          Generations    \* how often a document is printed and parsed again

ASSUME AddressesAssumption == Addresses # {} /\ "markup" \notin Addresses
ASSUME GenerationsAssumption == Generations \in Nat

HasContent(cls) == Row(cls).content \in {"mixed", "mixedvalue"}

(* A row is of one of the four kinds, and its children have tags of their   *)
(* own and classes that are there.  Where text.py goes, it finds content_.  *)
IsRow(row) ==
    /\ row.content \in {"plain", "mixed", "value", "mixedvalue"}
    /\ Sequence(row.attrs) /\ Sequence(row.kids)
    /\ row.content \in {"value", "mixedvalue"} => row.kids = <<>>
    /\ \A i, j \in DOMAIN row.attrs : row.attrs[i].name = row.attrs[j].name => i = j
    /\ \A i, j \in DOMAIN row.kids : row.kids[i].tag = row.kids[j].tag => i = j
    /\ \A k \in ToSet(row.kids) :
          /\ k.style \in {"one", "many", "text", "texts", "titled"}
          /\ IF IsText(k) THEN k.cls = "" ELSE k.cls \in DOMAIN Rows
          /\ k.style = "titled" =>
               row.content = "plain" /\ \E j \in ToSet(row.kids) : j.style = "text"
          /\ row.content = "mixed" => IsText(k) \/ HasContent(k.cls)

ASSUME SchemaAssumption ==
    /\ \A c \in DOMAIN Rows : c # "" /\ IsRow(Row(c))
    /\ {"doxygenindex", "DoxygenType", "docParaType", "docRefTextType",
        "docParamListType", "docSimpleSectType", "descriptionType"} \subseteq DOMAIN Rows
    /\ Row("docParaType").kids = <<>>
    /\ HasContent("docRefTextType") /\ HasContent("descriptionType")

(* The elements of a document hang together, and nothing is escaped in it.  *)
IsToken(token) == token = Token(token.kind)

IsNode(doc, p, i, n) ==
    \/ n.type \in {"text", "cdata"} /\ n.token = Token(n.token.kind)
    \/ /\ n.type = "element" /\ n.name \in DOMAIN doc
       /\ n.name = Append(p, Step(Tag(n.name), i))

IsDocument(doc) ==
    /\ \E q \in DOMAIN doc : \A p \in DOMAIN doc : Len(p) <= Len(q)
    /\ \E r \in DOMAIN doc : Len(r) = 1 /\ \A p \in DOMAIN doc : p[1] = r[1]
    /\ \A p \in DOMAIN doc :
         /\ p # <<>> /\ Sequence(p)
         /\ Len(p) > 1 => Front(p) \in DOMAIN doc /\ Child(p) \in ToSet(doc[Front(p)].nodes)
         /\ \A a \in DOMAIN doc[p].attrs : IsToken(doc[p].attrs[a])
         /\ Sequence(doc[p].nodes)
         /\ \A i \in DOMAIN doc[p].nodes : IsNode(doc, p, i, doc[p].nodes[i])

ASSUME DocumentsAssumption == \A doc \in Documents : IsDocument(doc)

VARIABLES dom,           \* the document as the XML parser gives it
          subclassed,    \* are compound.py and index.py imported
          objects,       \* the objects built, none or one tree
          address,       \* where the title's object lies
          written,       \* the XML printed, none or one text
          phase,         \* how far the program has got
          generation,    \* how often the document has been through it
          original       \* what was printed first (history), none or one

vars == <<dom, subclassed, objects, address, written, phase, generation, original>>

Init ==
    /\ dom \in Documents
    /\ subclassed \in BOOLEAN
    /\ objects = <<>> /\ written = <<>> /\ address \in Addresses
    /\ phase = "file" /\ generation = 0
    /\ original = <<>>

Parse ==
    /\ phase = "file" /\ ~BuildRaises(subclassed, dom)
    /\ objects' = <<BuildAll(subclassed, dom)>>
    /\ address' \in Addresses
    /\ phase' = "parsed"
    /\ UNCHANGED <<dom, subclassed, written, generation, original>>

ParseRaises ==
    /\ phase = "file" /\ BuildRaises(subclassed, dom)
    /\ phase' = "unread"
    /\ UNCHANGED <<dom, subclassed, objects, address, written, generation, original>>

PrintXml ==
    /\ phase = "parsed" /\ ~ExportRaises(objects[1])
    /\ written' = <<ExportAll(objects[1], address)>>
    /\ original' = IF generation = 0
                   THEN <<[text |-> ExportAll(objects[1], address), address |-> address]>>
                   ELSE original
    /\ phase' = "printed"
    /\ UNCHANGED <<dom, subclassed, objects, address, generation>>

PrintXmlRaises ==
    /\ phase = "parsed" /\ ExportRaises(objects[1])
    /\ phase' = "cut short"
    /\ UNCHANGED <<dom, subclassed, objects, address, written, generation, original>>

PrintLiteral ==
    /\ phase = "parsed"
    /\ phase' = IF LiteralRaises(objects[1]) THEN "literal cut short" ELSE "literal"
    /\ UNCHANGED <<dom, subclassed, objects, address, written, generation, original>>

(* The XML parser is given what was printed.                               *)
Reload ==
    /\ phase = "printed" /\ generation < Generations
    /\ WellFormed(written[1])
    /\ dom' = Parsed(written[1])
    /\ objects' = <<>> /\ written' = <<>>
    /\ generation' = generation + 1 /\ phase' = "file"
    /\ UNCHANGED <<subclassed, address, original>>

ReloadRefused ==
    /\ phase = "printed" /\ generation < Generations
    /\ ~WellFormed(written[1])
    /\ phase' = "refused"
    /\ UNCHANGED <<dom, subclassed, objects, address, written, generation, original>>

(* A printed document that is left as it is, and an ending by error.       *)
Ended ==
    /\ \/ phase \in {"unread", "cut short", "literal", "literal cut short", "refused"}
       \/ phase = "printed" /\ generation = Generations
    /\ UNCHANGED vars

Next ==
    \/ Parse \/ ParseRaises
    \/ PrintXml \/ PrintXmlRaises \/ PrintLiteral
    \/ Reload \/ ReloadRefused \/ Ended

Spec == Init /\ [][Next]_vars

------------------------------------------------------------------------------
(* What the document itself says, told from the DOM and the rows alone.    *)

Class(p) == ClassOf(subclassed, p)
Nodes(p) == ToSet(dom[p].nodes)

(* The i-th node of an element is printed: of the children kept as one the  *)
(* last is, and none of those kept as texts.                                *)
IsPrinted(p, i) ==
    LET nodes == dom[p].nodes IN
    /\ i \in Children(nodes, KidTags(Class(p)))
    /\ KidOf(Class(p), Tag(nodes[i].name)).style \in {"one", "many"}
    /\ KidOf(Class(p), Tag(nodes[i].name)).style = "one" /\ Row(Class(p)).content = "plain" =>
         \A j \in Children(nodes, {Tag(nodes[i].name)}) : j <= i

Printed ==
    {p \in DOMAIN dom :
       \A n \in 1 .. Len(p) - 1 :
          \E i \in DOMAIN dom[Prefix(p, n)].nodes :
             /\ IsPrinted(Prefix(p, n), i)
             /\ dom[Prefix(p, n)].nodes[i].name = Prefix(p, n + 1)}

Content(p) == Row(Class(p)).content

(* The tags whose text counts in an element that is described.              *)
Heard(cls) == IF cls = "docParaType" THEN {"ref"} ELSE KidTags(cls)

(* The text of an element, told from its children's.                        *)
TellNode(p, told, n) ==
    IF n.type = "text" THEN <<n.token>>
    ELSE IF n.type = "cdata" \/ Tag(n.name) \notin Heard(Class(p)) THEN <<>>
    ELSE LET text == IF Class(n.name) = "" THEN NodeText(dom[n.name]) ELSE told[n.name]
         IN  IF Tag(n.name) = "para" THEN Append(text, Break) ELSE text

Told ==
    LET told[p \in DOMAIN dom] ==
          Concat([i \in DOMAIN dom[p].nodes |-> TellNode(p, told, dom[p].nodes[i])])
    IN  told

------------------------------------------------------------------------------
(* DescriptionText: the description update_pydoc takes from a class is the  *)
(* text of its paragraphs, titles and references, each word once and in the *)
(* order of the document, and of nothing else: the words of any other       *)
(* markup inside a paragraph (bold, code, lists) are lost, as are CDATA     *)
(* sections (docParaTypeSub.buildChildren, text.description).               *)
DescriptionText ==
    phase = "parsed" /\ subclassed =>
        \A p \in DOMAIN dom :
           Class(p) = "descriptionType" => description(objects[1], p) = Strip(Told[p])

(* PrintedIsXml: what compoundsuper.parse prints is XML exactly when no     *)
(* element has an attribute that is encoded before it is written, which     *)
(* those of the index always have, and no text with a character to escape   *)
(* stands in a class of the mixed kind, whose text is written as it is      *)
(* (exportAttributes, MixedContainer.export).                               *)
PrintedIsXml ==
    phase = "printed" =>
        (WellFormed(written[1]) <=>
         \A p \in Printed :
            /\ DOMAIN dom[p].attrs \cap Encoded(Class(p)) = {}
            /\ Styled(Class(p), "always encoded") = {}
            /\ Content(p) = "mixed" =>
                 \A n \in Nodes(p) :
                    /\ n.type = "text" => ~Bare(n.token)
                    /\ \A k \in KidsOf(Class(p)) :
                         n.type = "element" /\ IsText(k) /\ k.tag = Tag(n.name) =>
                           \A t \in ToSet(NodeText(dom[n.name])) : ~Bare(t))

(* PrintingIsStable: parsing what was printed and printing it again gives   *)
(* the same, but for white space, exactly when nothing in the document is a *)
(* child read as text (each printing wraps it in b'...' once more), no      *)
(* CDATA section holds characters to escape (each printing escapes them     *)
(* once more), and a title, if there is one, is read to the address it was  *)
(* at before, as its repr is what is printed.  A missing text that a        *)
(* subclass set to '' is there once it has been printed.                    *)
PrintingIsStable ==
    phase = "printed" /\ generation = 1 =>
        (written[1] = original[1].text <=>
         \A p \in Printed :
            /\ Content(p) = "plain" =>
                 \A k \in KidsOf(Class(p)) :
                    Children(dom[p].nodes, {k.tag}) # {} =>
                      /\ ~IsText(k)
                      /\ k.style = "titled" => address = original[1].address
            /\ Content(p) \in {"value", "mixedvalue"} =>
                 \A n \in Nodes(p) : n.type = "cdata" => n.token.kind # "markup")

(* The children of a tag whose text is kept: the last, or all of a list.    *)
KeptTexts(p, k) ==
    LET read == Children(dom[p].nodes, {k.tag})
    IN  {dom[p].nodes[i].name : i \in {j \in read :
                                  k.style = "texts" \/ \A l \in read : l <= j}}

(* LiteralEndsOnlyFor: a document is written as Python to its end exactly   *)
(* when nothing in it is of the mixed kind, which every description, type   *)
(* and initializer is (hasContent_ reads attributes no constructor sets),   *)
(* no text that is kept has a letter outside ASCII, and no class without    *)
(* its subclass has an unset text beside a child, or a list of children,    *)
(* be it empty (quote_python is given None).                                *)
LiteralEndsOnlyFor ==
    phase \in {"literal", "literal cut short"} =>
        (phase = "literal" <=>
         \A p \in Printed :
            /\ Content(p) # "mixed"
            /\ Content(p) = "plain" =>
                 \A k \in {j \in KidsOf(Class(p)) : IsText(j)} :
                    /\ \A q \in KeptTexts(p, k) : ~Accented(NodeText(dom[q]))
                    /\ ~subclassed /\ k.style = "text" /\ KeptTexts(p, k) = {} =>
                         \A j \in KidsOf(Class(p)) :
                            /\ j.style \notin {"many", "texts"}
                            /\ Children(dom[p].nodes, {j.tag}) = {})
=============================================================================
