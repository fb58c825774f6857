---------------------------- MODULE UpdatePydoc ----------------------------
(***************************************************************************)
(* update_pydoc.py: scrape reads Doxygen's XML and writes a docstring for  *)
(* every class and function to a JSON file; sub puts them into the slots   *)
(* of the header templates, and copy leaves the slots blank.               *)
(*                                                                         *)
(* A text says how it starts, which decides what a replacement string      *)
(* makes of it, and whether it holds a closing bracket, which ends the     *)
(* pattern that finds the slot.  Names are cut so finely that one begins   *)
(* with another, piece by piece, when it does so letter by letter; the     *)
(* characters of an operator's sign are a piece each, for the pattern takes *)
(* them for its own.                                                       *)
(***************************************************************************)
EXTENDS DoxyIndex

CONSTANTS Directories,   \* contents of index.xml, with the compounds' files
          Templates,     \* the headers: name, and the slots' keys in order
          Filters        \* values of --filter, <<>> for none

(* What Doxygen writes: functions and friends are members, of a compound    *)
(* and of nothing else.  A text is about what it is found at: a method, or  *)
(* the last word of a function's definition, mostly its qualified name, but *)
(* ">" for every 'void f< int >'.                                           *)
About(item, name) ==
    /\ Sequence(item.doc) /\ Sequence(item.params)
    /\ \A t \in ToSet(item.doc) \cup ToSet(item.params) : t.of = name

ASSUME DirectoriesAssumption ==
    \A d \in Directories :
        /\ Sequence(d)
        /\ \A c \in ToSet(d) :
             /\ c.kind \notin {"function", "friend"} /\ About(c, c.name)
             /\ Sequence(c.name) /\ Sequence(c.contents)
             /\ \A m \in ToSet(c.contents) :
                  /\ m.kind \notin {"class", "file", "namespace"} /\ m.contents = <<>>
                  /\ DoxyFunction(m) => About(m, IF DoxyClass(c) THEN c.name \o <<"::">> \o m.name
                                                   ELSE m.definition)

Marks == {"[", "]", "|", "(", ")", "+", "*", "^", "=", "<", ">"}

(* A slot is a variable of the header: no two are of one name, and no name  *)
(* has a sign in it.  None ends with the word operator, be its last letter  *)
(* missing or twice there, which is what the patterns of operator*, + and   *)
(* () could find.                                                           *)
ASSUME TemplatesAssumption ==
    /\ Sequence(Templates)
    /\ \A t \in ToSet(Templates) :
         /\ Sequence(t.slots) /\ t.slots # <<>>
         /\ \A i, j \in DOMAIN t.slots : t.slots[i] = t.slots[j] => i = j
         /\ \A key \in ToSet(t.slots) : /\ Sequence(key) /\ key # <<>>
                                         /\ ToSet(key) \cap Marks = {}
                                         /\ Last(key) \notin {"operato", "operator", "operatorr"}

VARIABLES todo,          \* what the stage has still to go through
          make_funcs,    \* make functions written
          output,        \* the dictionary: <<key, value>> in its order
          filter_str,    \* the filter given to sub
          files,         \* templates still to be read
          file_in,       \* the template's slots, as substituted so far
          status_file,   \* lines of docstring_status
          written,       \* headers written
          source         \* what index.xml held (history)

scrapeVars == <<xml, members, todo, make_funcs, output>>
subVars == <<filter_str, files, file_in, status_file, written>>
vars == <<scrapeVars, subVars, phase, source>>

Text(of, start, closes) == [of |-> of, start |-> start, closes |-> closes]
ConstructorHeading == Text(<<"Constructor Specific Documentation">>, "word", FALSE)
ArgsHeading == Text(<<"Args">>, "word", FALSE)

Init ==
    /\ \/ xml \in Directories /\ phase = "index" /\ filter_str \in Filters
       \/ xml = <<>> /\ phase = "copy" /\ filter_str = <<>>
    /\ source = xml /\ members = <<>>
    /\ todo = <<>> /\ make_funcs = {} /\ output = <<>>
    /\ files = Templates
    /\ file_in = <<>> /\ status_file = <<>> /\ written = {}

------------------------------------------------------------------------------
(* scrape                                                                   *)

(* A '_make_' after the first word, or at the end of a name without '_'.    *)
make_name(name) ==
    LET cuts == {i \in DOMAIN name : name[i] = "_"}
        cut == IF cuts = {} THEN Len(name) + 1 ELSE Min(cuts)
    IN  SubSeq(name, 1, cut - 1) \o <<"_", "make", "_">> \o
        SubSeq(name, cut + 1, Len(name))

MembersOf(k) == process_memberdefs(k.contents)

BefriendsMake(k) == has_member(MembersOf(k), make_name(k.name), {"friend"})

Block(k) ==
    /\ DoxyClass(k) /\ k.file = "ok"
    /\ \/ BefriendsMake(k)
       \/ has_member(members, make_name(k.name), {"function"})

\* faulty: an error in the class's XML is not asked for first
BlockRaises_Unchecked(k) ==
    /\ DoxyClass(k)
    /\ \/ k.file # "ok"
       \/ /\ ~BefriendsMake(k)
          /\ Duplicate(members, make_name(k.name), {"function"})

(* What reading the class or looking up its make function raises.           *)
BlockRaises(k) ==
    /\ DoxyClass(k)
    /\ \/ k.file = "missing"
       \/ /\ k.file = "ok" /\ ~BefriendsMake(k)
          /\ Duplicate(members, make_name(k.name), {"function"})

Block2(k) ==
    /\ DoxyClass(k) /\ k.file = "ok"
    /\ has_member(MembersOf(k), <<"make">>, {"function"})
    /\ has_member(MembersOf(k), <<"sptr">>, OtherKinds)

(* dict.update: a key keeps its first place and has its last value.         *)
Update(dict, entries) ==
    LET all == dict \o entries
        at(key) == {i \in DOMAIN all : all[i][1] = key}
    IN  Kept([i \in DOMAIN all |-> <<all[i][1], all[Max(at(all[i][1]))][2]>>],
             {i \in DOMAIN all : i = Min(at(all[i][1]))})

(* make_entry makes none for a conversion operator.                         *)
Entries(named) == Kept(named, {i \in DOMAIN named : "operator " \notin ToSet(named[i][1])})

Args(params) == IF params = <<>> THEN <<>> ELSE <<ArgsHeading>> \o params

make_entry(name, description, params) == Entries(<< <<name, description \o Args(params)>> >>)

Methods(k, ignored) ==
    LET functions == in_category(MembersOf(k), {"function"})
    IN  Kept(functions, {i \in DOMAIN functions : functions[i].name \notin ignored})

\* faulty: the methods get the class's description
make_class_entry_Shared(k, description, ignored, params) ==
    make_entry(k.name, description, params) \o
    Entries([i \in DOMAIN Methods(k, ignored) |->
                <<k.name \o <<"::">> \o Methods(k, ignored)[i].name, description>>])

make_class_entry(k, description, ignored, params) ==
    make_entry(k.name, description, params) \o
    Entries([i \in DOMAIN Methods(k, ignored) |->
                <<k.name \o <<"::">> \o Methods(k, ignored)[i].name,
                  Methods(k, ignored)[i].doc>>])

(* Class, make function and header together describe a block.               *)
make_block_entry(k, make) ==
    LET header == Append(k.name, ".h")
        file_desc == IF has_member(members, header, {"file"})
                     THEN get_member(members, header, {"file"}).doc ELSE <<>>
        description == k.doc \o make.doc \o file_desc
    IN  make_class_entry(k, description, {}, k.params) \o
        make_entry(make.definition, description, k.params)

make_block2_entry(k, make) ==
    LET description == k.doc \o <<ConstructorHeading>> \o make.doc
    IN  make_class_entry(k, description, {<<"make">>}, make.params) \o
        make_entry(k.name \o <<"::", "make">>, description, make.params)

Std(item) == IsPrefix(<<"std", "::">>, item.name)

block_names == {k.name : k \in {c \in ToSet(members) : Block(c) \/ Block2(c)}}

(* What a stage of get_docstrings_dict goes through.                        *)
FindBlocks ==
    /\ phase = "index" /\ xml = <<>>
    /\ \A k \in ToSet(members) : ~BlockRaises(k)
    /\ phase' = "blocks"
    /\ todo' = Kept(members, {i \in DOMAIN members : Block(members[i])})
    /\ UNCHANGED <<xml, members, make_funcs, output, subVars, source>>

FindBlocksRaises ==
    /\ phase = "index" /\ xml = <<>>
    /\ \E k \in ToSet(members) : BlockRaises(k)
    /\ phase' = "raised"
    /\ UNCHANGED <<scrapeVars, subVars, source>>

NextStage ==
    /\ todo = <<>>
    /\ \/ /\ phase = "blocks" /\ phase' = "blocks2"
          /\ todo' = Kept(members, {i \in DOMAIN members : Block2(members[i])})
       \/ /\ phase = "blocks2" /\ phase' = "functions"
          /\ todo' = LET functions == in_category(members, {"function"})
                     IN  Kept(functions, {i \in DOMAIN functions :
                                functions[i].name \notin make_funcs /\ ~Std(functions[i])})
       \/ /\ phase = "functions" /\ phase' = "classes"
          /\ todo' = LET classes == in_category(members, {"class"})
                     IN  Kept(classes, {i \in DOMAIN classes :
                                classes[i].name \notin block_names /\ ~Std(classes[i])})
    /\ UNCHANGED <<xml, members, make_funcs, output, subVars, source>>

(* The make function, or the header it may be documented in, is not one.    *)
BlockEntryRaises(k) ==
    LET make == make_name(k.name)
    IN  has_member(members, make, {"function"}) =>
          /\ get_member(members, make, {"function"}).name \notin make_funcs
          /\ Duplicate(members, Append(k.name, ".h"), {"file"})

DescribeBlock ==
    /\ phase = "blocks" /\ todo # <<>>
    /\ LET k == Head(todo)
           make == get_member(members, make_name(k.name), {"function"})
       IN  /\ ~BlockEntryRaises(k)
           /\ make_funcs' = make_funcs \cup {make.name}
           /\ output' = IF make.name \in make_funcs THEN output
                        ELSE Update(output, make_block_entry(k, make))
    /\ todo' = Tail(todo)
    /\ UNCHANGED <<phase, xml, members, subVars, source>>

DescribeBlockRaises ==
    /\ phase = "blocks" /\ todo # <<>> /\ BlockEntryRaises(Head(todo))
    /\ phase' = "raised"
    /\ UNCHANGED <<scrapeVars, subVars, source>>

DescribeBlock2 ==
    /\ phase = "blocks2" /\ todo # <<>>
    /\ LET k == Head(todo)
           name == k.name \o <<"::", "make">>
           make == get_member(MembersOf(k), <<"make">>, {"function"})
       IN  /\ make_funcs' = make_funcs \cup {name}
           /\ output' = IF name \in make_funcs THEN output
                        ELSE Update(output, make_block2_entry(k, make))
    /\ todo' = Tail(todo)
    /\ UNCHANGED <<phase, xml, members, subVars, source>>

DescribeFunction ==
    /\ phase = "functions" /\ todo # <<>>
    /\ output' = Update(output, make_entry(Head(todo).definition, Head(todo).doc, <<>>))
    /\ todo' = Tail(todo)
    /\ UNCHANGED <<phase, xml, members, make_funcs, subVars, source>>

(* A class whose file cannot be parsed is reported and left out.            *)
DescribeClass ==
    /\ phase = "classes" /\ todo # <<>>
    /\ LET k == Head(todo) IN
         output' = IF k.file # "ok" THEN output
                   ELSE Update(output, make_class_entry(k, k.doc, {}, k.params))
    /\ todo' = Tail(todo)
    /\ UNCHANGED <<phase, xml, members, make_funcs, subVars, source>>

WriteJson ==
    /\ phase = "classes" /\ todo = <<>>
    /\ phase' = "sub"
    /\ UNCHANGED <<scrapeVars, subVars, source>>

------------------------------------------------------------------------------
(* sub and copy                                                             *)

(* `name' is what the file still has of the slot's name, and `header' says  *)
(* whether ' = R"doc(' still stands before its text.                        *)
Blank(template) ==
    [i \in DOMAIN template.slots |->
        [key |-> template.slots[i], name |-> template.slots[i],
         header |-> TRUE, text |-> <<>>]]

(* '_'.join(key.split('::'))                                                *)
DocKey(key) == [i \in DOMAIN key |-> IF key[i] = "::" THEN "_" ELSE key[i]]

(* The keys a file is given: all, or those that start with its own name.    *)
Selected(dict, template) ==
    Kept(dict, {i \in DOMAIN dict :
                  \/ filter_str = <<>>
                  \/ IsPrefix(filter_str \o <<"::">> \o template.name, dict[i][1])})

Start(value) == IF value = <<>> THEN "word" ELSE Head(value).start
Closes(value) == \E t \in ToSet(value) : t.closes

(* The replacement is '\1', the value and '\2'.  With a digit in front the  *)
(* first is the number of a group there is not, or, if two octal digits     *)
(* come first, a character; a '[' in the key opens a set of characters, and *)
(* older versions of Python do not take '++' for a pattern.                 *)
SubRaises(key, value) == Start(value) = "digit" \/ "[" \in ToSet(key)
MayRaise(key) == \E i \in DOMAIN key \ {1} : key[i - 1] = "+" /\ key[i] = "+"

(* A bar in the key, of operator|, |= or ||, splits the pattern's group     *)
(* (__doc_<key> =\sR"doc\(): it finds what begins as the key does before    *)
(* the bar, or after a last bar any ' = R"doc(', or between two bars what   *)
(* precedes the first ')doc"' of the file, back to a bracket.               *)
Bars(key) == {i \in DOMAIN key : key[i] = "|"}
Beginning(key) == SubSeq(DocKey(key), 1, Min(Bars(key)) - 1)
Bare(key) == \E i \in Bars(key) : i - 1 \in Bars(key)

Whole(slot, key) == Bars(key) = {} /\ slot.header /\ slot.name = DocKey(key)
Begins(slot, key) == Bars(key) # {} /\ IsPrefix(Beginning(key), slot.name)
Tails(slot, key) == Bars(key) # {} /\ Last(key) = "|" /\ slot.header

(* The slots a key's pattern finds: with no bracket in their text, but for  *)
(* the bare one's.                                                          *)
Found(slots, key) ==
    IF Bare(key) THEN {1}
    ELSE {i \in DOMAIN slots :
            /\ ~Closes(slots[i].text)
            /\ Whole(slots[i], key) \/ Begins(slots[i], key) \/ Tails(slots[i], key)}

\* faulty: a value that starts with digits is put in as it is
Substitute_Literal(slots, i, key, value) == [slots EXCEPT ![i].text = value]

UpToBracket(text) == SubSeq(text, 1, Max({0} \cup {n \in DOMAIN text : text[n].closes}))

(* \1 puts back what the group found, unless two digits make a character    *)
(* of it; before a bare key's match there is nothing to put back.           *)
Refill(slot, key, value) ==
    LET back == Start(value) # "octal" IN
    IF Bare(key)
    THEN LET left == Closes(slot.text) IN
         [key |-> slot.key, name |-> IF left THEN slot.name ELSE <<>>,
          header |-> left /\ slot.header, text |-> UpToBracket(slot.text) \o value]
    ELSE IF Begins(slot, key)
    THEN [key |-> slot.key, name |-> IF back THEN Beginning(key) ELSE <<>>,
          header |-> FALSE, text |-> value]
    ELSE [key |-> slot.key, name |-> IF back \/ Tails(slot, key) THEN slot.name ELSE <<>>,
          header |-> back, text |-> value]

Substitute(slots, i, key, value) == [slots EXCEPT ![i] = Refill(@, key, value)]

ReadTemplate ==
    /\ phase = "sub" /\ file_in = <<>> /\ files # <<>>
    /\ file_in' = Blank(Head(files))
    /\ todo' = Selected(output, Head(files))
    /\ UNCHANGED <<phase, xml, members, make_funcs, output, filter_str, files,
                   status_file, written, source>>

Sub ==
    /\ phase = "sub" /\ file_in # <<>> /\ todo # <<>>
    /\ LET key == Head(todo)[1]
           value == Head(todo)[2]
           found == Found(file_in, key)
           status(word) == Append(status_file, <<word, Head(files).name>>)
       IN  \/ /\ SubRaises(key, value) \/ MayRaise(key)
              /\ status_file' = status("FAIL") /\ UNCHANGED file_in
           \/ /\ ~SubRaises(key, value) /\ found = {}
              /\ UNCHANGED <<status_file, file_in>>
           \/ /\ ~SubRaises(key, value) /\ found # {}
              /\ status_file' = status("PASS")
              /\ file_in' = Substitute(file_in, Min(found), key, value)
    /\ todo' = Tail(todo)
    /\ UNCHANGED <<phase, xml, members, make_funcs, output, filter_str, files,
                   written, source>>

WriteHeader ==
    /\ phase = "sub" /\ file_in # <<>> /\ todo = <<>>
    /\ written' = written \cup {[template |-> Head(files), slots |-> file_in]}
    /\ files' = Tail(files) /\ file_in' = <<>>
    /\ UNCHANGED <<phase, scrapeVars, filter_str, status_file, source>>

CopyTemplate ==
    /\ phase = "copy" /\ files # <<>>
    /\ written' = written \cup {[template |-> Head(files), slots |-> Blank(Head(files))]}
    /\ files' = Tail(files)
    /\ UNCHANGED <<phase, scrapeVars, filter_str, file_in, status_file, source>>

CopyDone ==
    /\ phase = "copy" /\ files = <<>>
    /\ status_file = <<>> /\ status_file' = << <<"DONE">> >>
    /\ UNCHANGED <<phase, scrapeVars, filter_str, files, file_in, written, source>>

Next ==
    \/ ReadCompound /\ UNCHANGED <<todo, make_funcs, output, subVars, source>>
    \/ ReadCompoundRaises /\ UNCHANGED <<todo, make_funcs, output, subVars, source>>
    \/ FindBlocks \/ FindBlocksRaises \/ NextStage
    \/ DescribeBlock \/ DescribeBlockRaises \/ DescribeBlock2
    \/ DescribeFunction \/ DescribeClass \/ WriteJson
    \/ ReadTemplate \/ Sub \/ WriteHeader \/ CopyTemplate \/ CopyDone

Spec == Init /\ [][Next]_vars

------------------------------------------------------------------------------
(* What the XML says, told from it alone.                                   *)

Described == {i \in DOMAIN source : Spread(source[i])}

(* The members that are the first of their name in their compound.          *)
FirstPlaces(contents) ==
    {n \in DOMAIN contents : \A j \in 1 .. n - 1 : contents[j].name # contents[n].name}
FirstOnes(contents) == {contents[n] : n \in FirstPlaces(contents)}
Firsts(i) == {f \in FirstOnes(source[i].contents) : DoxyFunction(f)}

Named(name) == {i \in Described : \E f \in Firsts(i) : f.name = name}
HeadersOf(k) == {i \in Described : DoxyFile(source[i]) /\ source[i].name = Append(k.name, ".h")}
Befriends(k) == \E m \in FirstOnes(k.contents) : DoxyFriend(m) /\ m.name = make_name(k.name)

(* A class and the number of its make functions; its header is looked for   *)
(* with the first class of that make function.  What is looked up of a name *)
(* in a namespace is the namespace.                                         *)
Troubled(i) ==
    LET k == source[i]
        makes == Named(FirstBit(make_name(k.name)))
    IN  /\ DoxyClass(k) /\ k.file = "ok"
        /\ \/ Cardinality(makes) > 1
           \/ ~Nested(k.name) /\ makes = {} /\ Befriends(k)
           \/ /\ ~Nested(k.name) /\ makes # {} /\ Cardinality(HeadersOf(k)) > 1
              /\ \A j \in 1 .. i - 1 : DoxyClass(source[j]) /\ source[j].file = "ok" =>
                   make_name(source[j].name) # make_name(k.name)

(* ScrapeRaisesOnlyFor: scrape ends without its JSON file exactly for: a    *)
(* kind of compound it does not know; a header, namespace or class whose    *)
(* file is missing; a header or namespace (not a class) whose file is not   *)
(* XML; and a class that befriends a make function no header documents, or  *)
(* whose make function, or header, there are two of, or in a namespace that *)
(* two functions have the name of (get_docstrings_dict catches ParsingError *)
(* alone, has_member NoSuchMember alone, base.py and update_pydoc.py).      *)
ScrapeRaisesOnlyFor ==
    LET fatal == \E i \in DOMAIN source : LET c == source[i] IN
                   \/ ~Known(c) \/ Troubled(i)
                   \/ c.kind = "namespace" /\ c.file # "ok"
                   \/ c.kind = "file" /\ Last(c.name) = ".h" /\ c.file # "ok"
                   \/ c.kind = "class" /\ c.file = "missing"
    IN  /\ phase = "raised" => fatal
        /\ phase \in {"blocks2", "functions", "classes", "sub"} => ~fatal

(* The names of the classes and of their methods.                           *)
ClassKeys ==
    UNION {{k.name} \cup {k.name \o <<"::">> \o m.name : m \in ToSet(k.contents)} :
             k \in {c \in ToSet(source) : DoxyClass(c)}}

(* Where a compound has a first function of a definition.                   *)
Defining(i, definition) ==
    {n \in FirstPlaces(source[i].contents) :
        LET m == source[i].contents[n] IN DoxyFunction(m) /\ m.definition = definition}

(* FunctionsHaveTheirOwn: when the JSON file is written, a function's key,  *)
(* if no block's make function has it, no class or method is spelt so and   *)
(* it is no conversion, has the description of the first overload in the    *)
(* last header or namespace that documents one, of the last function there  *)
(* when several are defined by one word (every 'void f< int >' by ">"), and *)
(* a function that is nowhere the first of its name has none                *)
(* (process_memberdefs, make_entry, get_docstrings_dict).                   *)
FunctionsHaveTheirOwn ==
    phase = "sub" =>
        \A i \in Described :
          \A f \in {m \in ToSet(source[i].contents) : DoxyFunction(m)} :
            LET places == {j \in Described : Defining(j, f.definition) # {}}
                alike == {g \in UNION {Firsts(j) : j \in places} : g.definition = f.definition}
                entry == {e[2] : e \in {x \in ToSet(output) : x[1] = f.definition}}
                told == source[Max(places)].contents[Max(Defining(Max(places), f.definition))]
            IN  /\ \A g \in alike : g.name \notin make_funcs /\ ~Std(g)
                /\ "operator " \notin ToSet(f.definition) /\ f.definition \notin ClassKeys
                => entry = IF places = {} THEN {} ELSE {told.doc}

(* SlotHoldsItsOwn: a header written by sub has in each slot the value of   *)
(* the keys that are spelt like it once '::' is '_', the last of them, or   *)
(* the first with a bracket in it, which hides the slot from the others;    *)
(* values that start with a digit leave it as it was, unless they start     *)
(* with two octal digits, which destroys the slot's beginning for good.     *)
(* All that a key with a bar in it can spoil is one slot                    *)
(* (sub_docstring_in_pydoc_h).                                              *)
SlotHoldsItsOwn ==
    \A w \in written :
        LET given == {n \in DOMAIN output :
                       filter_str # <<>> =>
                         IsPrefix(filter_str \o <<"::">> \o w.template.name, output[n][1])}
            mine(i) == {n \in given : /\ DocKey(output[n][1]) = w.slots[i].key
                                      /\ Start(output[n][2]) # "digit"}
            last(i) == {n \in mine(i) : Closes(output[n][2]) \/ Start(output[n][2]) = "octal"}
            value(i) == IF mine(i) = {} THEN <<>>
                        ELSE output[IF last(i) = {} THEN Max(mine(i)) ELSE Min(last(i))][2]
            spoilt == {i \in DOMAIN w.slots :
                         \/ w.slots[i].text # value(i)
                         \/ w.slots[i].header # (Start(value(i)) # "octal")}
        IN  Cardinality(spoilt) <= Cardinality({n \in given : "|" \in ToSet(output[n][1])})

(* SlotDescribesItsOwn: from end to end, what a slot says was written about *)
(* something spelt like the slot, or about the class, make function or      *)
(* header of the same block, or else it came with a key with a bar in it.   *)
SlotDescribesItsOwn ==
    LET kin(k) == {DocKey(n) : n \in {k.name, Append(k.name, ".h"), make_name(k.name),
                                       k.name \o <<"::", "make">>}}
        made(k) == {DocKey(f.definition) :
                      f \in {g \in UNION {Firsts(i) : i \in Described} :
                              g.name = make_name(k.name)}}
    IN  \A w \in written : \A i \in DOMAIN w.slots : \A t \in ToSet(w.slots[i].text) :
          \/ t \in {ConstructorHeading, ArgsHeading}
          \/ DocKey(t.of) = w.slots[i].key
          \/ \E k \in {c \in ToSet(source) : c.kind = "class"} :
               {DocKey(t.of), w.slots[i].key} \subseteq kin(k) \cup made(k)
          \/ \E e \in ToSet(output) : "|" \in ToSet(e[1]) /\ t \in ToSet(e[2])
=============================================================================
