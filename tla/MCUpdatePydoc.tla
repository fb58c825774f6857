--------------------------- MODULE MCUpdatePydoc ---------------------------
(***************************************************************************)
(* Directories of XML for UpdatePydoc: the compounds of a module with an   *)
(* old style block (rtp_source and rtp_make_source), a new style one       *)
(* (gr::rtp::source and its make), their headers and a namespace, each as  *)
(* it should be and in the ways it can be wrong; and names that are spelt  *)
(* alike, with every way a description can start.                          *)
(***************************************************************************)
EXTENDS UpdatePydoc

Doc(of) == <<Text(of, "word", FALSE)>>
Ns == <<"gr", "::", "rtp">>
In(scope, name) == scope \o <<"::">> \o name

Function(scope, name) == Member("function", name, In(scope, name), Doc(In(scope, name)), <<>>)
Global(name) == Member("function", name, name, Doc(name), <<>>)
Overload(f) == [f EXCEPT !.doc = <<Text(f.definition, "word", TRUE)>>]
HeaderFile(name, file, contents) ==
    Compound("file", Append(name, ".h"), file, contents, Doc(Append(name, ".h")), <<>>)
Class(name, file, contents) ==
    Compound("class", name, file, contents, Doc(name), <<Text(name, "word", TRUE)>>)
Namespace(file, contents) == Compound("namespace", Ns, file, contents, <<>>, <<>>)

Old == <<"rtp", "_", "source">>
make == Global(<<"rtp", "_", "make", "_", "source">>)
friend == Member("friend", make.name, make.name, <<>>, <<>>)
work == Function(Old, <<"work">>)
nsMake == Function(Ns, make.name)

New == Ns \o <<"::", "source">>
newMake == [Function(New, <<"make">>) EXCEPT !.params = Doc(In(New, <<"make">>))]
sptr == Member("typedef", <<"sptr">>, In(New, <<"sptr">>), <<>>, <<>>)
set_ssrc == Function(New, <<"set", "_", "ssrc">>)
send == Function(Ns, <<"send">>)

Blocks == {Class(Old, "ok", c) : c \in {<<work>>, <<friend, work, Overload(work)>>}}
          \cup {Class(Old, f, <<>>) : f \in {"malformed", "missing"}}
Headers == {HeaderFile(Old, f, c) : f \in {"ok", "malformed"}, c \in {<<>>, <<make>>}}
           \cup {HeaderFile(Old, "ok", <<make, Overload(make), send>>)}
Classes == {Class(New, "ok", c) : c \in {<<newMake, sptr, set_ssrc>>, <<newMake, set_ssrc>>,
                                        <<set_ssrc, Overload(newMake), newMake, sptr>>}}
           \cup {Class(New, "malformed", <<>>)}
Namespaces == {Namespace("ok", c) : c \in {<<send, Overload(send)>>, <<nsMake, send>>}}
              \cup {Namespace("malformed", <<>>)}
Others == {HeaderFile(<<"other">>, "ok", <<Overload(send)>>),
           Compound("file", <<"lib">>, "malformed", <<>>, <<>>, <<>>),
           Compound("struct", Ns \o <<"::", "info">>, "ok", <<>>, <<>>, <<>>),
           Compound("group", <<"docs">>, "missing", <<>>, <<>>, <<>>),
           Compound("example", <<"demo">>, "ok", <<>>, <<>>, <<>>),
           Class(<<"std", "::", "vector">>, "ok", <<Member("function", <<"operator ", "T">>,
                 <<"operator ", "T">>, <<>>, <<>>)>>)}

(* Two compounds of a kind may be of the same name (files are named without *)
(* their directory); a class or a namespace has one file.                   *)
OneOf(sets) == {<<>>} \cup {<<x>> : x \in UNION sets}
Directory ==
    {a \o b \o c \o d :
        a \in OneOf({Blocks}), b \in OneOf({Headers}),
        c \in OneOf({Headers, Others, Classes}), d \in OneOf({Namespaces, Others})}

(* gr::rtp::a::b, gr::rtp::a_b and gr::rtp::a's own entry.                  *)
Starts == {<<>>} \cup {<<Text(<<"x">>, t, c)>> : t \in {"word", "digit", "octal"},
                                                c \in BOOLEAN}
Told(item, doc, of) == [item EXCEPT !.doc = IF doc = <<>> THEN doc
                                            ELSE <<[doc[1] EXCEPT !.of = of]>>]
A == Ns \o <<"::", "a">>
Alike ==
    {<<Told([Class(A, "ok", <<Told(Function(A, <<"b">>), x, A \o <<"::", "b">>)>>)
             EXCEPT !.params = <<>>], z, A),
       Namespace("ok", <<Told(Function(Ns, <<"a", "_", "b">>), y, A \o <<"_", "b">>),
                         Function(Ns, <<"operator", "[", "]">>)>>)>> :
        x \in Starts, y \in Starts, z \in Starts}

(* Functions named as a namespace is, classes of one make function, and a   *)
(* function named as a class is.                                            *)
Namesakes ==
    LET headers(name, f) == {<<>>, <<HeaderFile(name, "ok", f)>>,
                           <<HeaderFile(name, "ok", f), HeaderFile(name, "ok", f)>>}
        a == Class(<<"a">>, "ok", <<>>)
        a_ == Class(<<"a", "_">>, "ok", <<>>)
        a_make_ == Global(<<"a", "_", "make", "_">>)
    IN  {<<Class(New, "ok", <<set_ssrc>>)>> \o h : h \in headers(<<"gr">>, <<Global(<<"gr">>)>>)}
        \cup {<<HeaderFile(<<"make">>, "ok", <<a_make_>>)>> \o g \o h \o k :
                g \in headers(<<"a">>, <<>>), h \in headers(<<"a", "_">>, <<>>),
                k \in {<<a, a_>>, <<a_, a>>}}
        \cup {<<a, HeaderFile(<<"a">>, "ok", <<Global(<<"a">>)>>)>>}

(* Operators, before and after the functions whose slots their patterns     *)
(* find, with every way their descriptions can start.                       *)
operator_or == Function(Ns, <<"operator", "_", "or">>)
sources == Class(Append(New, "s"), "ok", <<Function(Append(New, "s"), <<"make">>)>>)
Operators ==
    LET signs == {<<"|">>, <<"|", "|">>, <<"|", "=">>, <<"+", "+">>}
        operator(sign, doc) == LET f == Function(Ns, <<"operator">> \o sign)
                               IN  Told(f, doc, f.definition)
        orders(f) == {<<f, send, operator_or>>, <<send, operator_or, f>>,
                      <<send, Overload(operator_or), f>>}
    IN  {<<sources, Namespace("ok", o)>> :
            o \in UNION {orders(operator(sign, doc)) : sign \in signs, doc \in Starts}}
        \cup {<<Namespace("ok", <<operator_or, operator(<<"|">>, a), operator(<<"|", "|">>, b),
                                 Overload(send), operator(<<"|", "=">>, c)>>)>> :
                a \in Starts, b \in Starts, c \in {<<>>, Doc(<<"x">>)}}

(* Specialised functions are defined by one word.                           *)
Specialised ==
    LET special(f, doc) == [f EXCEPT !.definition = <<">">>, !.doc = doc]
        a == special(send, Doc(<<">">>))
        b == special(operator_or, <<Text(<<">">>, "word", TRUE)>>)
    IN  {<<Namespace("ok", <<a, b>>)>>, <<Namespace("ok", <<b, a>>)>>,
         <<Namespace("ok", <<b>>), HeaderFile(<<"f">>, "ok", <<a>>)>>}

MCDirectories == Directory \cup Alike \cup Namesakes \cup Operators \cup Specialised

MCTemplates ==
    <<[name |-> <<"source">>,
       slots |-> <<DocKey(New), DocKey(New \o <<"::", "make">>),
                   DocKey(New \o <<"::", "set", "_", "ssrc">>), DocKey(Old), make.name>>],
      [name |-> <<"a">>, slots |-> <<DocKey(A), DocKey(A \o <<"::", "b">>),
                                     DocKey(send.definition),
                                     DocKey(operator_or.definition)>>]>>

MCFilters == {<<>>, Ns}
=============================================================================
