----------------------------- MODULE DoxyIndex -----------------------------
(***************************************************************************)
(* doxyxml: the objects update_pydoc looks a directory of Doxygen's XML up *)
(* through (base.py, doxyindex.py).  index.xml lists the compounds; the    *)
(* contents of a compound are in a file of its own, read when they are     *)
(* first asked for.                                                        *)
(*                                                                         *)
(* A name is a sequence of words and of the marks "::", "_" and ".h".  A   *)
(* description is a sequence of texts: none, or the one Doxygen took from  *)
(* the source.                                                             *)
(***************************************************************************)
EXTENDS Naturals, SequencesExt, FiniteSetsExt, Selection

VARIABLES xml,        \* the compounds of index.xml that are still to be read
          members,    \* DoxyIndex._members
          phase       \* how far the program has got

(* What index.xml and the compound's file say.  `file' is "ok", "malformed" *)
(* (the parser raises ExpatError) or "missing" (it raises something else).  *)
Compound(kind, name, file, contents, doc, params) ==
    [kind |-> kind, name |-> name, file |-> file, contents |-> contents,
     doc |-> doc, params |-> params, definition |-> name]

(* A memberdef; `definition' is the last word of its definition.            *)
Member(kind, name, definition, doc, params) ==
    [kind |-> kind, name |-> name, file |-> "ok", contents |-> <<>>,
     doc |-> doc, params |-> params, definition |-> definition]

OtherKinds == {"variable", "struct", "union", "define", "typedef", "enum",
               "dir", "page", "signal", "slot", "property"}

Known(item) == item.kind \in OtherKinds \cup {"function", "class", "file", "namespace",
                                              "group", "friend"}

(* A category is a class, given by the kinds it can parse.                  *)
DoxyFunction(item) == item.kind = "function"
DoxyClass(item) == item.kind = "class"
DoxyFile(item) == item.kind = "file"
DoxyFriend(item) == item.kind = "friend"

\* faulty: every member is kept
process_memberdefs_All(contents) == contents

(* Members of one name in one compound are taken for one member in several  *)
(* sections: the first stands for all, overloads too.                       *)
process_memberdefs(contents) ==
    Kept(contents, {i \in DOMAIN contents :
                      \A j \in 1 .. i - 1 : contents[j].name # contents[i].name})

in_category(items, kinds) == Kept(items, {i \in DOMAIN items : items[i].kind \in kinds})

(* The part of a name before the first "::", and whether there is more.     *)
FirstBit(name) ==
    LET marks == {i \in DOMAIN name : name[i] = "::"}
    IN  IF marks = {} THEN name ELSE SubSeq(name, 1, Min(marks) - 1)
Nested(name) == "::" \in ToSet(name)

(* get_member looks the first bit up among the members of a category.  Two  *)
(* of that name are a Duplicate; none, or more bits to look up in one, which *)
(* has no members of that category, is a NoSuchMember.                      *)
Lookup(items, name, kinds) ==
    {i \in DOMAIN items : items[i].kind \in kinds /\ items[i].name = FirstBit(name)}
Duplicate(items, name, kinds) == Cardinality(Lookup(items, name, kinds)) > 1
has_member(items, name, kinds) ==
    Cardinality(Lookup(items, name, kinds)) = 1 /\ ~Nested(name)
get_member(items, name, kinds) ==
    items[CHOOSE i \in Lookup(items, name, kinds) : TRUE]

------------------------------------------------------------------------------
(* DoxyIndex._parse, a compound at a time.                                  *)

Header(c) == DoxyFile(c) /\ Last(c.name) = ".h"

(* The contents of headers and namespaces are reached from the index.       *)
Spread(c) == Header(c) \/ c.kind = "namespace"

(* An unknown kind raises when the class is asked for the second time; a    *)
(* file or namespace that cannot be read when its descriptions are set.     *)
Breaks(c) == ~Known(c) \/ (Spread(c) /\ c.file # "ok")

ReadCompound ==
    /\ phase = "index" /\ xml # <<>>
    /\ LET c == Head(xml) IN
         /\ ~Breaks(c)
         /\ members' = members \o
              (IF Spread(c) THEN Append(process_memberdefs(c.contents), c)
               ELSE IF DoxyFile(c) THEN <<>> ELSE <<c>>)
    /\ xml' = Tail(xml)
    /\ UNCHANGED phase

ReadCompoundRaises ==
    /\ phase = "index" /\ xml # <<>>
    /\ Breaks(Head(xml))
    /\ phase' = "raised"
    /\ UNCHANGED <<xml, members>>
=============================================================================
