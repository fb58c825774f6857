--------------------------- MODULE CompoundSchema ---------------------------
(***************************************************************************)
(* The classes of doxyxml/generated/compoundsuper.py, one row each: the    *)
(* attributes in the order they are written, the child elements in the     *)
(* order they are written, and the class that reads each of them.          *)
(***************************************************************************)
EXTENDS XmlRows

DoxygenType == Plain(Always(<<"version">>), <<One("compounddef", "compounddefType")>>)

compounddefType ==
    Plain(Quoted(<<"kind", "prot">>) \o Encoded(<<"id">>),
          <<Text("compoundname"), Titled("title", "docTitleType"),
            Many("basecompoundref", "compoundRefType"),
            Many("derivedcompoundref", "compoundRefType"), Many("includes", "incType"),
            Many("includedby", "incType"), One("incdepgraph", "graphType"),
            One("invincdepgraph", "graphType"), Many("innerdir", "refType"),
            Many("innerfile", "refType"), Many("innerclass", "refType"),
            Many("innernamespace", "refType"), Many("innerpage", "refType"),
            Many("innergroup", "refType"),
            One("templateparamlist", "templateparamlistType"),
            Many("sectiondef", "sectiondefType"),
            One("briefdescription", "descriptionType"),
            One("detaileddescription", "descriptionType"),
            One("inheritancegraph", "graphType"),
            One("collaborationgraph", "graphType"),
            One("programlisting", "listingType"), One("location", "locationType"),
            One("listofallmembers", "listofallmembersType")>>)

listofallmembersType == Plain(<<>>, <<Many("member", "memberRefType")>>)

memberRefType ==
    Plain(Quoted(<<"virt", "prot">>) \o Encoded(<<"refid", "ambiguityscope">>),
          <<Text("scope"), Text("name")>>)

scope == Value(<<>>)
name == Value(<<>>)
compoundRefType == MixedValue(Quoted(<<"virt", "prot">>) \o Encoded(<<"refid">>))
reimplementType == MixedValue(Encoded(<<"refid">>))
incType == MixedValue(Quoted(<<"local">>) \o Encoded(<<"refid">>))
refType == MixedValue(Quoted(<<"prot">>) \o Encoded(<<"refid">>))

refTextType ==
    MixedValue(Encoded(<<"refid">>) \o Quoted(<<"kindref">>) \o Encoded(<<"external">>))

sectiondefType ==
    Plain(Quoted(<<"kind">>),
          <<Text("header"), One("description", "descriptionType"),
            Many("memberdef", "memberdefType")>>)

memberdefType ==
    Plain(Quoted(<<"initonly", "kind", "volatile", "const", "raise", "virt", "readable",
                   "prot", "explicit", "new", "final", "writable", "add", "static",
                   "remove", "sealed", "mutable", "gettable", "inline", "settable">>) \o
          Encoded(<<"id">>),
          <<One("templateparamlist", "templateparamlistType"),
            One("type", "linkedTextType"), Text("definition"), Text("argsstring"),
            Text("name"), Text("read"), Text("write"), Text("bitfield"),
            Many("reimplements", "reimplementType"),
            Many("reimplementedby", "reimplementType"), Many("param", "paramType"),
            Many("enumvalue", "enumvalueType"), One("initializer", "linkedTextType"),
            One("exceptions", "linkedTextType"),
            One("briefdescription", "descriptionType"),
            One("detaileddescription", "descriptionType"),
            One("inbodydescription", "descriptionType"),
            One("location", "locationType"), Many("references", "referenceType"),
            Many("referencedby", "referenceType")>>)

definition == Value(<<>>)
argsstring == Value(<<>>)
read == Value(<<>>)
write == Value(<<>>)
bitfield == Value(<<>>)

descriptionType ==
    Mixed(<<>>,
          <<Many("title", "docTitleType"), Many("para", "docParaType"),
            Many("sect1", "docSect1Type"), Many("internal", "docInternalType")>>)

enumvalueType ==
    Mixed(Quoted(<<"prot">>) \o Encoded(<<"id">>),
          <<Texts("name"), Many("initializer", "linkedTextType"),
            Many("briefdescription", "descriptionType"),
            Many("detaileddescription", "descriptionType")>>)

templateparamlistType == Plain(<<>>, <<Many("param", "paramType")>>)

paramType ==
    Plain(<<>>,
          <<One("type", "linkedTextType"), Text("declname"), Text("defname"),
            Text("array"), One("defval", "linkedTextType"),
            One("briefdescription", "descriptionType")>>)

declname == Value(<<>>)
defname == Value(<<>>)
array == Value(<<>>)
linkedTextType == Mixed(<<>>, <<Many("ref", "docRefTextType")>>)
graphType == Plain(<<>>, <<Many("node", "nodeType")>>)

nodeType ==
    Plain(Encoded(<<"id">>),
          <<Text("label"), One("link", "linkType"), Many("childnode", "childnodeType")>>)

label == Value(<<>>)

childnodeType ==
    Plain(Quoted(<<"relation">>) \o Encoded(<<"refid">>), <<Texts("edgelabel")>>)

edgelabel == Value(<<>>)
linkType == Value(Encoded(<<"refid", "external">>))
listingType == Plain(<<>>, <<Many("codeline", "codelineType")>>)

codelineType ==
    Plain(Quoted(<<"external">>) \o
          Integer(<<"lineno">>) \o
          Quoted(<<"refkind">>) \o
          Encoded(<<"refid">>),
          <<Many("highlight", "highlightType")>>)

highlightType ==
    Mixed(Quoted(<<"class">>), <<Texts("sp"), Many("ref", "docRefTextType")>>)

sp == Value(<<>>)

referenceType ==
    MixedValue(Integer(<<"endline", "startline">>) \o Encoded(<<"refid", "compoundref">>))

locationType ==
    Value(Integer(<<"bodystart", "line", "bodyend">>) \o
          Encoded(<<"bodyfile", "file">>))

docSect1Type ==
    Mixed(Encoded(<<"id">>),
          <<Many("title", "docTitleType"), Many("para", "docParaType"),
            Many("sect2", "docSect2Type"), Many("internal", "docInternalS1Type")>>)

docSect2Type ==
    Mixed(Encoded(<<"id">>),
          <<Many("title", "docTitleType"), Many("para", "docParaType"),
            Many("sect3", "docSect3Type"), Many("internal", "docInternalS2Type")>>)

docSect3Type ==
    Mixed(Encoded(<<"id">>),
          <<Many("title", "docTitleType"), Many("para", "docParaType"),
            Many("sect4", "docSect4Type"), Many("internal", "docInternalS3Type")>>)

docSect4Type ==
    Mixed(Encoded(<<"id">>),
          <<Many("title", "docTitleType"), Many("para", "docParaType"),
            Many("internal", "docInternalS4Type")>>)

docInternalType ==
    Mixed(<<>>, <<Many("para", "docParaType"), Many("sect1", "docSect1Type")>>)

docInternalS1Type ==
    Mixed(<<>>, <<Many("para", "docParaType"), Many("sect2", "docSect2Type")>>)

docInternalS2Type ==
    Mixed(<<>>, <<Many("para", "docParaType"), Many("sect3", "docSect3Type")>>)

docInternalS3Type ==
    Mixed(<<>>, <<Many("para", "docParaType"), Many("sect3", "docSect4Type")>>)

docInternalS4Type == Mixed(<<>>, <<Many("para", "docParaType")>>)
docTitleType == MixedValue(<<>>)
docParaType == MixedValue(<<>>)
docMarkupType == MixedValue(<<>>)
docURLLink == MixedValue(Encoded(<<"url">>))
docAnchorType == MixedValue(Encoded(<<"id">>))
docFormulaType == MixedValue(Encoded(<<"id">>))
docIndexEntryType == Plain(<<>>, <<Text("primaryie"), Text("secondaryie")>>)
docListType == Plain(<<>>, <<Many("listitem", "docListItemType")>>)
docListItemType == Plain(<<>>, <<Many("para", "docParaType")>>)

docSimpleSectType ==
    Plain(Quoted(<<"kind">>),
          <<One("title", "docTitleType"), Many("para", "docParaType")>>)

docVarListEntryType == Plain(<<>>, <<One("term", "docTitleType")>>)
docVariableListType == Value(<<>>)

docRefTextType ==
    MixedValue(Encoded(<<"refid">>) \o Quoted(<<"kindref">>) \o Encoded(<<"external">>))

docTableType ==
    Plain(Integer(<<"rows", "cols">>),
          <<Many("row", "docRowType"), One("caption", "docCaptionType")>>)

docRowType == Plain(<<>>, <<Many("entry", "docEntryType")>>)
docEntryType == Plain(Quoted(<<"thead">>), <<Many("para", "docParaType")>>)
docCaptionType == MixedValue(<<>>)
docHeadingType == MixedValue(Integer(<<"level">>))

docImageType ==
    MixedValue(Encoded(<<"width">>) \o Quoted(<<"type">>) \o Encoded(<<"name", "height">>))

docDotFileType == MixedValue(Encoded(<<"name">>))
docTocItemType == MixedValue(Encoded(<<"id">>))
docTocListType == Plain(<<>>, <<Many("tocitem", "docTocItemType")>>)
docLanguageType == Plain(Encoded(<<"langid">>), <<Many("para", "docParaType")>>)

docParamListType ==
    Plain(Quoted(<<"kind">>), <<Many("parameteritem", "docParamListItem")>>)

docParamListItem ==
    Plain(<<>>,
          <<Many("parameternamelist", "docParamNameList"),
            One("parameterdescription", "descriptionType")>>)

docParamNameList == Plain(<<>>, <<Many("parametername", "docParamName")>>)
docParamName == Mixed(Quoted(<<"direction">>), <<Many("ref", "docRefTextType")>>)

docXRefSectType ==
    Plain(Encoded(<<"id">>),
          <<Texts("xreftitle"), One("xrefdescription", "descriptionType")>>)

docCopyType ==
    Plain(Encoded(<<"link">>),
          <<Many("para", "docParaType"), Many("sect1", "docSect1Type"),
            One("internal", "docInternalType")>>)

docCharType == Value(Quoted(<<"char">>))
docEmptyType == Value(<<>>)

Schema ==
    [DoxygenType |-> DoxygenType, compounddefType |-> compounddefType,
     listofallmembersType |-> listofallmembersType, memberRefType |-> memberRefType,
     scope |-> scope, name |-> name, compoundRefType |-> compoundRefType,
     reimplementType |-> reimplementType, incType |-> incType, refType |-> refType,
     refTextType |-> refTextType, sectiondefType |-> sectiondefType,
     memberdefType |-> memberdefType, definition |-> definition,
     argsstring |-> argsstring, read |-> read, write |-> write, bitfield |-> bitfield,
     descriptionType |-> descriptionType, enumvalueType |-> enumvalueType,
     templateparamlistType |-> templateparamlistType, paramType |-> paramType,
     declname |-> declname, defname |-> defname, array |-> array,
     linkedTextType |-> linkedTextType, graphType |-> graphType, nodeType |-> nodeType,
     label |-> label, childnodeType |-> childnodeType, edgelabel |-> edgelabel,
     linkType |-> linkType, listingType |-> listingType, codelineType |-> codelineType,
     highlightType |-> highlightType, sp |-> sp, referenceType |-> referenceType,
     locationType |-> locationType, docSect1Type |-> docSect1Type,
     docSect2Type |-> docSect2Type, docSect3Type |-> docSect3Type,
     docSect4Type |-> docSect4Type, docInternalType |-> docInternalType,
     docInternalS1Type |-> docInternalS1Type, docInternalS2Type |-> docInternalS2Type,
     docInternalS3Type |-> docInternalS3Type, docInternalS4Type |-> docInternalS4Type,
     docTitleType |-> docTitleType, docParaType |-> docParaType,
     docMarkupType |-> docMarkupType, docURLLink |-> docURLLink,
     docAnchorType |-> docAnchorType, docFormulaType |-> docFormulaType,
     docIndexEntryType |-> docIndexEntryType, docListType |-> docListType,
     docListItemType |-> docListItemType, docSimpleSectType |-> docSimpleSectType,
     docVarListEntryType |-> docVarListEntryType,
     docVariableListType |-> docVariableListType, docRefTextType |-> docRefTextType,
     docTableType |-> docTableType, docRowType |-> docRowType,
     docEntryType |-> docEntryType, docCaptionType |-> docCaptionType,
     docHeadingType |-> docHeadingType, docImageType |-> docImageType,
     docDotFileType |-> docDotFileType, docTocItemType |-> docTocItemType,
     docTocListType |-> docTocListType, docLanguageType |-> docLanguageType,
     docParamListType |-> docParamListType, docParamListItem |-> docParamListItem,
     docParamNameList |-> docParamNameList, docParamName |-> docParamName,
     docXRefSectType |-> docXRefSectType, docCopyType |-> docCopyType,
     docCharType |-> docCharType, docEmptyType |-> docEmptyType]
=============================================================================
