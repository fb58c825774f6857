------------------------------ MODULE XmlRows ------------------------------
(***************************************************************************)
(* The rows in which CompoundSchema and IndexSchema describe the classes   *)
(* that generateDS wrote for Doxygen's XML.  A row says what is particular *)
(* to a class; XmlBinding has the code that is the same in all of them.    *)
(***************************************************************************)
EXTENDS Sequences

(* A class by what it keeps of an element's content: its child elements    *)
(* only; child elements and text in one ordered list, content_; its text,  *)
(* valueOf_; or its text twice, in valueOf_ and in content_.               *)
Plain(attrs, kids) == [content |-> "plain", attrs |-> attrs, kids |-> kids]
Mixed(attrs, kids) == [content |-> "mixed", attrs |-> attrs, kids |-> kids]
Value(attrs) == [content |-> "value", attrs |-> attrs, kids |-> <<>>]
MixedValue(attrs) == [content |-> "mixedvalue", attrs |-> attrs, kids |-> <<>>]

Attributes(style, names) ==
    [i \in DOMAIN names |-> [name |-> names[i], style |-> style]]

(* Attributes by how they are written: quoted; quoted and then encoded;    *)
(* as an integer, which they are when read; and the first two also when    *)
(* the attribute is absent.                                                *)
Quoted(names) == Attributes("quoted", names)
Encoded(names) == Attributes("encoded", names)
Integer(names) == Attributes("integer", names)
Always(names) == Attributes("always", names)
AlwaysEncoded(names) == Attributes("always encoded", names)

Kid(tag, style, cls) == [tag |-> tag, style |-> style, cls |-> cls]

(* Child elements by how they are kept: an object, of which a second       *)
(* replaces the first; a list of objects; their text, or a list of texts;  *)
(* and the one that is read as an object and written as a text.            *)
One(tag, cls) == Kid(tag, "one", cls)
Many(tag, cls) == Kid(tag, "many", cls)
Text(tag) == Kid(tag, "text", "")
Texts(tag) == Kid(tag, "texts", "")
Titled(tag, cls) == Kid(tag, "titled", cls)
=============================================================================
