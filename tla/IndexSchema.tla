---------------------------- MODULE IndexSchema -----------------------------
(***************************************************************************)
(* The classes of doxyxml/generated/indexsuper.py, which read index.xml.   *)
(***************************************************************************)
EXTENDS XmlRows

DoxygenType ==
    Plain(AlwaysEncoded(<<"version">>), <<Many("compound", "CompoundType")>>)

CompoundType ==
    Plain(Always(<<"kind">>) \o AlwaysEncoded(<<"refid">>),
          <<Text("name"), Many("member", "MemberType")>>)

MemberType ==
    Plain(Always(<<"kind">>) \o AlwaysEncoded(<<"refid">>), <<Text("name")>>)

Schema ==
    [doxygenindex |-> DoxygenType, CompoundType |-> CompoundType,
     MemberType |-> MemberType]
=============================================================================
