------------------------------- MODULE Doxypy -------------------------------
(***************************************************************************)
(* doxypy.py, the filter Doxyfile.in puts before every Python file: a      *)
(* state machine reads the file line by line, moves the docstring of a     *)
(* definition in front of it as a comment block and passes everything else *)
(* on.  A line is what the machine's regular expressions tell of it, its   *)
(* kind; where it goes is told by its number.  --autobrief, which          *)
(* Doxyfile.in does not give, and indentation are left out.                *)
(***************************************************************************)
EXTENDS Integers, Sequences

CONSTANT MaxLines       \* bound on the length of a file

ASSUME MaxLinesAssumption == MaxLines \in Nat

(* The kinds of line, each with the expressions that match it.             *)
Matches ==
    [blank   |-> {"empty"},
     hash    |-> {"hashline"},
     import  |-> {"importline"},
     code    |-> {},                                        \* x = 1, and y):  # note
     block   |-> {"multi_end"},                             \* if x:, and y):
     def     |-> {"defclass", "multi_start", "multi_end"},  \* def f(x):
     defmid  |-> {"defclass", "multi_start"},               \* def f(x):  # note, and def f(x: int,
     defopen |-> {"multi_start"},                           \* def f(x,
     single  |-> {"single", "start_single", "end_single"},  \* '''text'''
     double  |-> {"double", "start_double", "end_double"},
     opensgl |-> {"start_single"},                          \* '''text
     opendbl |-> {"start_double"},
     endsgl  |-> {"end_single"},                            \* text'''
     enddbl  |-> {"end_double"},
     baresgl |-> {"start_single", "end_single"},            \* '''
     baredbl |-> {"start_double", "end_double"}]

Kinds == DOMAIN Matches

Rule(condition, to, callback) == [condition |-> condition, to |-> to, callback |-> callback]

(* The transition list, by the state a transition leaves.                  *)
InComment(end, to, self) ==
    <<Rule(end, to, "appendCommentLine"), Rule("catchall", self, "appendCommentLine")>>

transitions ==
    [FILEHEAD |->
       <<Rule("single", "FILEHEAD", "appendCommentLine"),
         Rule("double", "FILEHEAD", "appendCommentLine"),
         Rule("start_single", "FILEHEAD_COMMENT_SINGLE", "appendCommentLine"),
         Rule("start_double", "FILEHEAD_COMMENT_DOUBLE", "appendCommentLine"),
         Rule("empty", "FILEHEAD", "appendFileheadLine"),
         Rule("hashline", "FILEHEAD", "appendFileheadLine"),
         Rule("importline", "FILEHEAD", "appendFileheadLine"),
         Rule("defclass", "DEFCLASS", "resetCommentSearch"),
         Rule("multi_start", "DEFCLASS_MULTI", "resetCommentSearch"),
         Rule("catchall", "DEFCLASS_BODY", "appendFileheadLine")>>,
     FILEHEAD_COMMENT_SINGLE |->
       InComment("end_single", "FILEHEAD", "FILEHEAD_COMMENT_SINGLE"),
     FILEHEAD_COMMENT_DOUBLE |->
       InComment("end_double", "FILEHEAD", "FILEHEAD_COMMENT_DOUBLE"),
     DEFCLASS |->
       <<Rule("single", "DEFCLASS_BODY", "appendCommentLine"),
         Rule("double", "DEFCLASS_BODY", "appendCommentLine"),
         Rule("start_single", "COMMENT_SINGLE", "appendCommentLine"),
         Rule("start_double", "COMMENT_DOUBLE", "appendCommentLine"),
         Rule("empty", "DEFCLASS", "appendDefclassLine"),
         Rule("defclass", "DEFCLASS", "resetCommentSearch"),
         Rule("multi_start", "DEFCLASS_MULTI", "resetCommentSearch"),
         Rule("catchall", "DEFCLASS_BODY", "stopCommentSearch")>>,
     COMMENT_SINGLE |-> InComment("end_single", "DEFCLASS_BODY", "COMMENT_SINGLE"),
     COMMENT_DOUBLE |-> InComment("end_double", "DEFCLASS_BODY", "COMMENT_DOUBLE"),
     DEFCLASS_BODY |->
       <<Rule("defclass", "DEFCLASS", "startCommentSearch"),
         Rule("multi_start", "DEFCLASS_MULTI", "startCommentSearch"),
         Rule("catchall", "DEFCLASS_BODY", "appendNormalLine")>>,
     DEFCLASS_MULTI |->
       <<Rule("multi_end", "DEFCLASS", "appendDefclassLine"),
         Rule("catchall", "DEFCLASS_MULTI", "appendDefclassLine")>>]

States == DOMAIN transitions

VARIABLES current_state,
          comment,          \* numbers of the lines of the open comment
          defclass,         \* numbers of the lines that opened the search
          outstream,        \* what has been flushed
          lines,            \* lines read
          ended             \* the file has been read to its end

vars == <<current_state, comment, defclass, outstream, lines, ended>>

Init ==
    /\ current_state = "FILEHEAD"
    /\ comment = <<>> /\ defclass = <<>> /\ outstream = <<>>
    /\ lines = 0 /\ ended = FALSE

Marked(what, numbers) == [i \in DOMAIN numbers |-> [what |-> what, line |-> numbers[i]]]

(* A block is opened by a line of its own, "##".                           *)
makeCommentBlock(numbers) ==
    IF numbers = <<>> THEN <<>>
    ELSE <<[what |-> "##", line |-> numbers[1]]>> \o Marked("doc", numbers)

Closed_HeaderFirst(numbers) ==          \* faulty: the block behind the header
    outstream \o Marked("code", defclass) \o makeCommentBlock(numbers)

(* __closeComment.                                                         *)
Closed(numbers) == outstream \o makeCommentBlock(numbers) \o Marked("code", defclass)

(* The callbacks, for the line numbered n.                                 *)
startCommentSearch(n) ==
    defclass' = <<n>> /\ comment' = <<>> /\ UNCHANGED outstream

resetCommentSearch_Drops(n) ==         \* faulty: the last search is forgotten
    defclass' = <<n>> /\ comment' = <<>> /\ UNCHANGED outstream

resetCommentSearch(n) ==
    defclass' = <<n>> /\ comment' = <<>> /\ outstream' = Closed(comment)

stopCommentSearch_LineFirst(n) ==      \* faulty: the line before what it ends
    /\ outstream' = outstream \o Marked("code", <<n>>) \o Marked("code", defclass)
    /\ defclass' = <<>> /\ UNCHANGED comment

stopCommentSearch(n) ==
    /\ outstream' = Closed(comment) \o Marked("code", <<n>>)
    /\ defclass' = <<>> /\ UNCHANGED comment

appendFileheadLine_KeepsComment(n) == \* faulty: the comment stays open
    outstream' = Closed(comment) \o Marked("code", <<n>>) /\ UNCHANGED <<comment, defclass>>

appendFileheadLine(n) ==
    /\ outstream' = Closed(comment) \o Marked("code", <<n>>)
    /\ comment' = <<>> /\ UNCHANGED defclass

appendCommentLine(n, to) ==
    /\ comment' = Append(comment, n)
    /\ IF to = "DEFCLASS_BODY"
       THEN outstream' = Closed(comment') /\ defclass' = <<>>
       ELSE UNCHANGED <<outstream, defclass>>

appendNormalLine(n) ==
    outstream' = outstream \o Marked("code", <<n>>) /\ UNCHANGED <<comment, defclass>>

appendDefclassLine(n) ==
    defclass' = Append(defclass, n) /\ UNCHANGED <<comment, outstream>>

(* makeTransition takes the first rule whose condition the line meets.     *)
Meets(kind, rule) == rule.condition = "catchall" \/ rule.condition \in Matches[kind]

Chosen(kind, i) ==
    LET rules == transitions[current_state]
    IN  Meets(kind, rules[i]) /\ \A j \in 1 .. i - 1 : ~Meets(kind, rules[j])

Perform(rule, n) ==
    /\ current_state' = rule.to
    /\ \/ rule.callback = "startCommentSearch" /\ startCommentSearch(n)
       \/ rule.callback = "resetCommentSearch" /\ resetCommentSearch(n)
       \/ rule.callback = "stopCommentSearch" /\ stopCommentSearch(n)
       \/ rule.callback = "appendFileheadLine" /\ appendFileheadLine(n)
       \/ rule.callback = "appendCommentLine" /\ appendCommentLine(n, rule.to)
       \/ rule.callback = "appendNormalLine" /\ appendNormalLine(n)
       \/ rule.callback = "appendDefclassLine" /\ appendDefclassLine(n)

parseLine(kind) ==
    /\ ~ended /\ lines < MaxLines
    /\ \E i \in DOMAIN transitions[current_state] :
        Chosen(kind, i) /\ Perform(transitions[current_state][i], lines + 1)
    /\ lines' = lines + 1
    /\ UNCHANGED ended

(* parseFile at the end of the file: only a search without a docstring is  *)
(* closed and flushed.                                                     *)
EndOfFile ==
    /\ ~ended /\ ended' = TRUE
    /\ outstream' = IF current_state = "DEFCLASS" THEN Closed(comment) ELSE outstream
    /\ UNCHANGED <<current_state, comment, defclass, lines>>

Next == (\E kind \in Kinds : parseLine(kind)) \/ EndOfFile

Spec == Init /\ [][Next]_vars
-----------------------------------------------------------------------------
(* What the output holds of the file: the places of its lines.             *)
Places == {i \in DOMAIN outstream : outstream[i].what # "##"}
Emitted == {outstream[i].line : i \in Places}

(* What the machine holds back, in the order of the file.  A docstring     *)
(* that has been emitted stays in comment, stale, until the next search.   *)
Pending == IF current_state = "DEFCLASS_BODY" THEN <<>> ELSE defclass \o comment

(* Every line read is in the output once or held back: the output is the   *)
(* first lines of the file, each once, and what is held back the rest, in  *)
(* order.  What the filter loses at the end of a file is so one tail of it.*)
NothingLostOrRepeated ==
    \E n \in 0 .. lines :
        /\ Emitted = 1 .. n
        /\ \A i, j \in Places : outstream[i].line = outstream[j].line => i = j
        /\ IF ended /\ current_state = "DEFCLASS"
           THEN n = lines
           ELSE Len(Pending) = lines - n /\ \A i \in DOMAIN Pending : Pending[i] = n + i

(* The filter keeps the order of the file but for one move: what stands    *)
(* behind a later line is the header of a definition, directly behind the  *)
(* one comment block that was taken out from under it.                     *)
OnlyHeadersMove ==
    \A i, j \in DOMAIN outstream :
        i < j /\ outstream[i].line > outstream[j].line =>
            /\ outstream[j].what = "code"
            /\ \A k \in i .. j - 1 :
                /\ k > i => outstream[k].what # "##"
                /\ outstream[k].what = "code" => outstream[k].line < outstream[j].line
=============================================================================
