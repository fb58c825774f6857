---------------------------- MODULE PythonSource ----------------------------
(***************************************************************************)
(* The Python files doxypy.py is given, composed with it: the lines of a   *)
(* file come in an order Python allows, and the model remembers which      *)
(* lines are a definition's header and which its docstring, to judge what  *)
(* the filter made of them.                                                *)
(***************************************************************************)
EXTENDS Doxypy

VARIABLES place,     \* where in the file: head, body, header, fresh or text
          quote,     \* the quotes around the text
          first,     \* first line of the definition last begun, 0 for none
          under,     \* that definition's docstring may follow: its first line or 0
          docstring, \* first line of the docstring being read, 0 for none
          docs,      \* the docstrings read, with the definition of each
          plain      \* every line so far is one the filter tells rightly

fileVars == <<place, quote, first, under, docstring, docs, plain>>
allVars == <<vars, fileVars>>

FileInit ==
    /\ Init
    /\ place = "head" /\ quote = "sgl" /\ first = 0 /\ under = 0
    /\ docstring = 0 /\ docs = {} /\ plain = TRUE

Definitions == {"def", "defmid", "defopen"}
Single == [sgl |-> "single", dbl |-> "double"]
Opens == [sgl |-> "opensgl", dbl |-> "opendbl"]
Ends == [sgl |-> {"endsgl", "baresgl"}, dbl |-> {"enddbl", "baredbl"}]
Bare == [sgl |-> "baresgl", dbl |-> "baredbl"]
Quotes == DOMAIN Single

Now == lines + 1

(* Statements, blank lines and comments.                                   *)
Statement(kind) ==
    /\ place \in {"head", "body", "fresh"}
    /\ kind \in {"blank", "hash", "import", "code", "block"}
    /\ parseLine(kind)
    /\ place' = IF kind \in {"blank", "hash"} THEN place ELSE "body"
    /\ under' = IF kind = "blank" THEN under ELSE 0
    /\ UNCHANGED <<quote, first, docstring, docs, plain>>

(* A statement that leaves a string open.                                  *)
OpenString ==
    /\ place = "body" /\ parseLine("code")
    /\ place' = "text" /\ quote' \in Quotes /\ docstring' = 0 /\ under' = 0
    /\ UNCHANGED <<first, docs, plain>>

(* The first line of a definition: its whole header, the header and the    *)
(* body in one line, or a header that goes on.                             *)
Definition(kind) ==
    /\ place \in {"head", "body", "fresh"} /\ kind \in Definitions
    /\ parseLine(kind)
    /\ place' \in CASE kind = "def" -> {"fresh"}
                    [] kind = "defmid" -> {"fresh", "body", "header"}
                    [] kind = "defopen" -> {"header"}
    /\ first' = Now /\ under' = Now
    /\ plain' = (plain /\ ~(kind = "defmid" /\ place' = "header"))
    /\ UNCHANGED <<quote, docstring, docs>>

(* The other lines of a header; the last may carry a note.                 *)
HeaderLine(kind) ==
    /\ place = "header" /\ kind \in {"blank", "hash", "code", "block"}
    /\ parseLine(kind)
    /\ place' \in CASE kind = "block" -> {"fresh"}
                    [] kind = "code" -> {"header", "fresh"}
                    [] OTHER -> {"header"}
    /\ plain' = (plain /\ ~(kind = "code" /\ place' = "fresh"))
    /\ UNCHANGED <<quote, first, under, docstring, docs>>

Documented(from) == docs \cup {[header |-> first, under |-> under, from |-> from, to |-> Now]}

(* A docstring in one line, perhaps with a note behind it.                 *)
WholeDocstring(q, kind) ==
    /\ place \in {"head", "fresh"} /\ kind \in {Single[q], Opens[q]}
    /\ parseLine(kind)
    /\ place' = "body" /\ docs' = Documented(Now)
    /\ plain' = (plain /\ kind = Single[q])
    /\ UNCHANGED <<quote, first, under, docstring>>

OpenDocstring(q, kind) ==
    /\ place \in {"head", "fresh"} /\ kind \in {Opens[q], Bare[q]}
    /\ parseLine(kind)
    /\ place' = "text" /\ quote' = q /\ docstring' = Now
    /\ UNCHANGED <<first, under, docs, plain>>

(* Text may read like anything but the end of its own quotes.  What reads  *)
(* like a definition is harmless only where the filter knows it for text.  *)
TextLine(kind) ==
    /\ place = "text" /\ kind \notin Ends[quote] \cup {Single[quote]}
    /\ parseLine(kind)
    /\ plain' = (plain /\ (kind \in Definitions => docstring # 0 /\ (first = 0 \/ under = first)))
    /\ UNCHANGED <<place, quote, first, under, docstring, docs>>

EndText(kind) ==
    /\ place = "text" /\ kind \in Ends[quote] \cup {"code"}
    /\ parseLine(kind)
    /\ place' = "body"
    /\ docs' = IF docstring = 0 THEN docs ELSE Documented(docstring)
    /\ plain' = (plain /\ (docstring = 0 \/ kind # "code"))
    /\ docstring' = 0 /\ under' = 0
    /\ UNCHANGED <<quote, first>>

EndOfSource ==
    /\ place \in {"head", "body"} /\ EndOfFile
    /\ UNCHANGED fileVars

FileNext ==
    \/ \E kind \in Kinds :
        \/ Statement(kind) \/ Definition(kind) \/ HeaderLine(kind)
        \/ TextLine(kind) \/ EndText(kind)
        \/ \E q \in Quotes : WholeDocstring(q, kind) \/ OpenDocstring(q, kind)
    \/ OpenString
    \/ EndOfSource

FileSpec == FileInit /\ [][FileNext]_allVars
-----------------------------------------------------------------------------
(* The lines from one to another, as output entries.                       *)
Lines(what, from, to) == [i \in 1 .. to - from + 1 |-> [what |-> what, line |-> from + i - 1]]

(* In a file whose lines the filter tells rightly, each docstring that     *)
(* follows its header is put directly before it, whole and as one block,   *)
(* with nothing but its header behind it.                                  *)
DocstringsPrecedeTheirHeaders ==
    plain => \A d \in docs : d.header # 0 /\ d.under = d.header =>
        \E i \in DOMAIN outstream :
            LET moved == <<[what |-> "##", line |-> d.from]>> \o Lines("doc", d.from, d.to)
                         \o Lines("code", d.header, d.from - 1)
            IN  i + Len(moved) - 1 <= Len(outstream)
                /\ SubSeq(outstream, i, i + Len(moved) - 1) = moved

(* Such a file comes out whole, unless it ends with the module's           *)
(* docstring: then that docstring is lost, and everything before it kept.  *)
PlainFilesAreKept ==
    ended /\ plain =>
        \/ Emitted = 1 .. lines
        \/ \E d \in docs : d.header = 0 /\ d.to = lines /\ Emitted = 1 .. d.from - 1
=============================================================================
