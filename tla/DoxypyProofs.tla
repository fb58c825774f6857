---------------------------- MODULE DoxypyProofs ----------------------------
(***************************************************************************)
(* Proof, for files of any length and lines of any kind in any order, that *)
(* doxypy.py neither loses nor repeats a line before the file ends, and    *)
(* keeps their order but for the headers it moves behind their comments.   *)
(*                                                                         *)
(* The property is not inductive: a comment outlives its emission, and the *)
(* header leaves the machine behind a comment read after it.  IInv adds    *)
(* what each state knows of the two: outside a search there is no header,  *)
(* and a header whose docstring has not begun has no comment.  The order   *)
(* follows from what each callback adds: a block and a header of lines     *)
(* behind all that was told before (OInv).                                 *)
(*                                                                         *)
(* Then, for Python files: a docstring comes out before the header it      *)
(* describes, and no line is lost, in every file whose lines the filter    *)
(* tells rightly.  Both compare the output with what the file is, and need *)
(* what relates the machine's state to the place in the file: ToldRightly  *)
(* says, for each place, which state the machine is in and which lines its *)
(* header and its comment then hold.  It rests in turn on which rule a     *)
(* line takes in each state, and on IInv.                                  *)
(***************************************************************************)
EXTENDS PythonSource, SequenceTheorems, TLAPS

Entry == [what : {"##", "doc", "code"}, line : Nat]

\* Emitted and the uniqueness of its lines, of an output not yet assigned.
Told(out) == {out[i].line : i \in {i \in DOMAIN out : out[i].what # "##"}}
Once(out) == \A i, j \in DOMAIN out :
    out[i].what # "##" /\ out[j].what # "##" /\ out[i].line = out[j].line => i = j

Follows(numbers, n) == \A i \in DOMAIN numbers : numbers[i] = n + i

\* Entries for the lines behind n, and an output that tells none of k such lines.
Continues(add, n) == \A j \in 1 .. Len(add) : add[j].what # "##" /\ add[j].line = n + j
Untold(out, n, k) == \A l \in Told(out) : l \notin n + 1 .. n + k

Good(out) == out \in Seq(Entry) /\ Once(out)
Piece(add, n) == n \in Nat /\ add \in Seq(Entry) /\ Continues(add, n)
Extends(new, out, n, k) == Good(new) /\ Told(new) = Told(out) \cup n + 1 .. n + k

\* The machine may take no other rule than one of these.
Shape(from, to, callback) ==
    \/ callback = "startCommentSearch"
       /\ from = "DEFCLASS_BODY" /\ to \in {"DEFCLASS", "DEFCLASS_MULTI"}
    \/ callback = "resetCommentSearch"
       /\ from \in {"FILEHEAD", "DEFCLASS"} /\ to \in {"DEFCLASS", "DEFCLASS_MULTI"}
    \/ callback = "stopCommentSearch" /\ from = "DEFCLASS" /\ to = "DEFCLASS_BODY"
    \/ callback = "appendFileheadLine"
       /\ from = "FILEHEAD" /\ to \in {"FILEHEAD", "DEFCLASS_BODY"}
    \/ callback = "appendCommentLine"
       /\ from \in {"DEFCLASS", "COMMENT_SINGLE", "COMMENT_DOUBLE"} /\ to = "DEFCLASS_BODY"
    \/ callback = "appendCommentLine"
       /\ from \in {"DEFCLASS", "COMMENT_SINGLE", "COMMENT_DOUBLE"}
       /\ to \in {"COMMENT_SINGLE", "COMMENT_DOUBLE"}
    \/ callback = "appendCommentLine"
       /\ from \in {"FILEHEAD", "FILEHEAD_COMMENT_SINGLE", "FILEHEAD_COMMENT_DOUBLE"}
       /\ to \in {"FILEHEAD", "FILEHEAD_COMMENT_SINGLE", "FILEHEAD_COMMENT_DOUBLE"}
    \/ callback = "appendNormalLine" /\ from = "DEFCLASS_BODY" /\ to = "DEFCLASS_BODY"
    \/ callback = "appendDefclassLine"
       /\ from \in {"DEFCLASS", "DEFCLASS_MULTI"} /\ to \in {"DEFCLASS", "DEFCLASS_MULTI"}

HeadStates == {"FILEHEAD", "FILEHEAD_COMMENT_SINGLE", "FILEHEAD_COMMENT_DOUBLE"}

\* A body has nothing pending, whatever comment still holds.
Split(n) ==
    /\ Told(outstream) = 1 .. n /\ Once(outstream)
    /\ IF ended /\ current_state = "DEFCLASS" THEN n = lines
       ELSE IF current_state = "DEFCLASS_BODY" THEN n = lines
       ELSE /\ Follows(defclass, n) /\ Follows(comment, n + Len(defclass))
            /\ n + Len(defclass) + Len(comment) = lines

IInv ==
    /\ current_state \in States /\ ended \in BOOLEAN /\ lines \in Nat
    /\ comment \in Seq(Nat) /\ defclass \in Seq(Nat) /\ outstream \in Seq(Entry)
    /\ current_state \in HeadStates \cup {"DEFCLASS_BODY"} => defclass = <<>>
    /\ current_state \in {"DEFCLASS", "DEFCLASS_MULTI"} => comment = <<>>
    /\ \E n \in 0 .. lines : Split(n)

-----------------------------------------------------------------------------
(* The transition list.  *)

\* Each rule of the transition list has one of the shapes.
LEMMA RuleShapes ==
  ASSUME NEW s \in States, NEW i \in DOMAIN transitions[s]
  PROVE  /\ transitions[s][i].to \in States
         /\ Shape(s, transitions[s][i].to, transitions[s][i].callback)
<1>1. CASE s = "FILEHEAD"
  BY <1>1 DEF States, transitions, Rule, Shape
<1>2. CASE s \in {"FILEHEAD_COMMENT_SINGLE", "FILEHEAD_COMMENT_DOUBLE"}
  BY <1>2 DEF States, transitions, Rule, InComment, Shape
<1>3. CASE s = "DEFCLASS"
  BY <1>3 DEF States, transitions, Rule, Shape
<1>4. CASE s \in {"COMMENT_SINGLE", "COMMENT_DOUBLE"}
  BY <1>4 DEF States, transitions, Rule, InComment, Shape
<1>5. CASE s \in {"DEFCLASS_BODY", "DEFCLASS_MULTI"}
  BY <1>5 DEF States, transitions, Rule, Shape
<1> QED
  BY <1>1, <1>2, <1>3, <1>4, <1>5 DEF States, transitions

-----------------------------------------------------------------------------
(* What emitting adds to an output.  *)

\* Marked numbers are entries, one for each.
LEMMA MarkedEntries ==
  ASSUME NEW what \in {"##", "doc", "code"}, NEW numbers \in Seq(Nat)
  PROVE  /\ Marked(what, numbers) \in Seq(Entry)
         /\ Len(Marked(what, numbers)) = Len(numbers)
         /\ \A i \in 1 .. Len(numbers) :
              Marked(what, numbers)[i] = [what |-> what, line |-> numbers[i]]
<1>1. DOMAIN numbers = 1 .. Len(numbers) /\ Len(numbers) \in Nat
  BY LenProperties
<1>2. \A i \in 1 .. Len(numbers) : numbers[i] \in Nat
  BY ElementOfSeq
<1>3. \A i \in 1 .. Len(numbers) : [what |-> what, line |-> numbers[i]] \in Entry
  BY <1>2 DEF Entry
<1>4. Marked(what, numbers) \in [1 .. Len(numbers) -> Entry]
  BY <1>1, <1>3 DEF Marked
<1>5. Marked(what, numbers) \in Seq(Entry)
  BY <1>1, <1>4, SeqDef
<1>6. DOMAIN Marked(what, numbers) = 1 .. Len(numbers)
  BY <1>4
<1>7. Len(Marked(what, numbers)) = Len(numbers)
  <2> HIDE DEF Marked
  <2> QED
    BY <1>1, <1>5, <1>6, LenProperties
<1> QED
  BY <1>1, <1>5, <1>7 DEF Marked

\* Where the elements of a concatenation stand.
LEMMA Joining ==
  ASSUME NEW s \in Seq(Entry), NEW t \in Seq(Entry), NEW new, new = s \o t
  PROVE  /\ new \in Seq(Entry) /\ Len(new) = Len(s) + Len(t)
         /\ Len(s) \in Nat /\ Len(t) \in Nat
         /\ DOMAIN s = 1 .. Len(s) /\ DOMAIN new = 1 .. Len(s) + Len(t)
         /\ \A i \in 1 .. Len(s) : new[i] = s[i]
         /\ \A j \in 1 .. Len(t) : new[Len(s) + j] = t[j]
  OBVIOUS

\* Entries that follow one another and were not told before are told, once.
LEMMA Telling ==
  ASSUME NEW out \in Seq(Entry), Once(out), NEW add \in Seq(Entry), NEW n \in Nat,
         Continues(add, n), Untold(out, n, Len(add)),
         NEW new, new = out \o add
  PROVE  /\ new \in Seq(Entry) /\ Once(new)
         /\ Told(new) = Told(out) \cup n + 1 .. n + Len(add)
<1> DEFINE o == Len(out)
           a == Len(add)
<1>1. /\ new \in Seq(Entry) /\ Len(new) = o + a /\ o \in Nat /\ a \in Nat
      /\ DOMAIN out = 1 .. o /\ DOMAIN new = 1 .. o + a
      /\ \A i \in 1 .. o : new[i] = out[i]
      /\ \A j \in 1 .. a : new[o + j] = add[j]
  BY Joining
<1> HIDE DEF o, a
<1>2. \A j \in 1 .. a : new[o + j].what # "##" /\ new[o + j].line = n + j
  BY <1>1 DEF a, Continues
<1>3. \A i \in o + 1 .. o + a : new[i].what # "##" /\ new[i].line = n + i - o
  <2> TAKE i \in o + 1 .. o + a
  <2>1. i - o \in 1 .. a /\ i = o + (i - o)
    BY <1>1
  <2>2. new[o + (i - o)].what # "##" /\ new[o + (i - o)].line = n + (i - o)
    BY <2>1, <1>2
  <2> QED
    BY <2>1, <2>2, <1>1
<1>4. \A i \in 1 .. o : out[i].what # "##" => out[i].line \in Told(out)
  BY <1>1 DEF Told
<1>5. \A l \in Told(out) : l \notin n + 1 .. n + a
  BY DEF a, Untold
<1>6. Once(new)
  <2> SUFFICES ASSUME NEW i \in 1 .. o + a, NEW j \in 1 .. o + a,
                      new[i].what # "##", new[j].what # "##", new[i].line = new[j].line
               PROVE  i = j
    BY <1>1 DEF Once
  <2>1. CASE i \in 1 .. o /\ j \in 1 .. o
    BY <2>1, <1>1 DEF Once
  <2>2. CASE i \in o + 1 .. o + a /\ j \in o + 1 .. o + a
    BY <2>2, <1>1, <1>3
  <2>3. CASE i \in 1 .. o /\ j \in o + 1 .. o + a
    <3>1. new[i].line \in Told(out)
      BY <2>3, <1>1, <1>4
    <3>2. new[j].line \in n + 1 .. n + a
      BY <2>3, <1>1, <1>3
    <3> QED
      BY <3>1, <3>2, <1>5
  <2>4. CASE i \in o + 1 .. o + a /\ j \in 1 .. o
    <3>1. new[j].line \in Told(out)
      BY <2>4, <1>1, <1>4
    <3>2. new[i].line \in n + 1 .. n + a
      BY <2>4, <1>1, <1>3
    <3> QED
      BY <3>1, <3>2, <1>5
  <2> QED
    BY <2>1, <2>2, <2>3, <2>4, <1>1
<1>7. Told(new) = Told(out) \cup n + 1 .. n + a
  <2>1. ASSUME NEW l \in Told(new)
        PROVE  l \in Told(out) \cup n + 1 .. n + a
    <3>1. PICK i \in 1 .. o + a : new[i].what # "##" /\ l = new[i].line
      BY <1>1 DEF Told
    <3>2. CASE i \in 1 .. o
      BY <3>1, <3>2, <1>1, <1>4
    <3>3. CASE i \in o + 1 .. o + a
      BY <3>1, <3>3, <1>1, <1>3
    <3> QED
      BY <3>2, <3>3, <1>1
  <2>2. ASSUME NEW l \in Told(out)
        PROVE  l \in Told(new)
    <3>1. PICK i \in 1 .. o : out[i].what # "##" /\ l = out[i].line
      BY <1>1 DEF Told
    <3>2. i \in DOMAIN new /\ new[i] = out[i]
      BY <1>1
    <3> QED
      BY <3>1, <3>2 DEF Told
  <2>3. ASSUME NEW l \in n + 1 .. n + a
        PROVE  l \in Told(new)
    <3>1. l - n \in 1 .. a
      BY <1>1
    <3>2. o + (l - n) \in DOMAIN new
      BY <1>1, <3>1
    <3>3. new[o + (l - n)].what # "##" /\ new[o + (l - n)].line = n + (l - n)
      BY <3>1, <1>2
    <3>4. n + (l - n) = l
      OBVIOUS
    <3> QED
      BY <3>2, <3>3, <3>4 DEF Told
  <2> QED
    BY <2>1, <2>2, <2>3
<1> QED
  BY <1>1, <1>6, <1>7 DEF a

COROLLARY Extending ==
  \A out, add, new, n :
    Good(out) /\ Piece(add, n) /\ Untold(out, n, Len(add)) /\ new = out \o add
      => Extends(new, out, n, Len(add))
<1> SUFFICES ASSUME NEW out, NEW add, NEW new, NEW n, Good(out), Piece(add, n),
                    Untold(out, n, Len(add)), new = out \o add
             PROVE  Extends(new, out, n, Len(add))
  OBVIOUS
<1>1. out \in Seq(Entry) /\ Once(out) /\ add \in Seq(Entry) /\ n \in Nat /\ Continues(add, n)
  BY DEF Good, Piece
<1> QED
  BY <1>1, Telling DEF Good, Extends

\* Consecutive numbers, marked, are such entries.
LEMMA Marking ==
  ASSUME NEW what \in {"doc", "code"}, NEW numbers \in Seq(Nat), NEW n \in Nat,
         Follows(numbers, n), NEW add, add = Marked(what, numbers)
  PROVE  add \in Seq(Entry) /\ Len(add) = Len(numbers) /\ Continues(add, n)
<1>1. /\ add \in Seq(Entry) /\ Len(add) = Len(numbers)
      /\ \A j \in 1 .. Len(numbers) : add[j] = [what |-> what, line |-> numbers[j]]
  BY MarkedEntries
<1>2. \A j \in 1 .. Len(numbers) : numbers[j] = n + j
  BY LenProperties DEF Follows
<1>3. \A j \in 1 .. Len(numbers) : add[j].what = what /\ add[j].line = numbers[j]
  <2> TAKE j \in 1 .. Len(numbers)
  <2>1. add[j] = [what |-> what, line |-> numbers[j]]
    BY <1>1
  <2> QED
    BY <2>1
<1> QED
  BY <1>1, <1>2, <1>3 DEF Continues

\* The line that opens a block tells nothing.
LEMMA OpeningABlock ==
  ASSUME NEW out \in Seq(Entry), Once(out), NEW l \in Nat,
         NEW new, new = out \o <<[what |-> "##", line |-> l]>>
  PROVE  new \in Seq(Entry) /\ Once(new) /\ Told(new) = Told(out)
<1>1. PICK t : t = <<[what |-> "##", line |-> l]>>
  OBVIOUS
<1>2. t \in Seq(Entry) /\ Len(t) = 1 /\ t[1].what = "##"
  BY <1>1 DEF Entry
<1>3. /\ new \in Seq(Entry) /\ Len(out) \in Nat /\ DOMAIN out = 1 .. Len(out)
      /\ DOMAIN new = 1 .. Len(out) + 1
      /\ \A i \in 1 .. Len(out) : new[i] = out[i]
      /\ new[Len(out) + 1].what = "##"
  BY <1>1, <1>2, Joining
<1>4. Once(new)
  BY <1>3 DEF Once
<1>5. Told(new) = Told(out)
  <2>1. {i \in DOMAIN new : new[i].what # "##"} = {i \in DOMAIN out : out[i].what # "##"}
    BY <1>3
  <2> QED
    BY <2>1, <1>3 DEF Told
<1> QED
  BY <1>3, <1>4, <1>5

\* Closing a search tells its header and the comment read behind it.
LEMMA Closing ==
  ASSUME outstream \in Seq(Entry), Once(outstream), NEW n \in Nat, Told(outstream) = 1 .. n,
         defclass \in Seq(Nat), Follows(defclass, n),
         NEW numbers \in Seq(Nat), Follows(numbers, n + Len(defclass))
  PROVE  /\ Closed(numbers) \in Seq(Entry)
         /\ Once(Closed(numbers))
         /\ Told(Closed(numbers)) = 1 .. n + Len(defclass) + Len(numbers)
<1>1. Len(defclass) \in Nat /\ Len(numbers) \in Nat
  BY LenProperties
<1> DEFINE m == n + Len(defclass)
<1>2. m \in Nat /\ n <= m
  BY <1>1
<1> HIDE DEF m
<1>3. PICK blocked : blocked = outstream \o makeCommentBlock(numbers)
  OBVIOUS
<1>4. /\ blocked \in Seq(Entry) /\ Once(blocked)
      /\ Told(blocked) = 1 .. n \cup m + 1 .. m + Len(numbers)
  <2>1. CASE numbers = <<>>
    <3>1. outstream \o <<>> = outstream
      BY ConcatEmptySeq
    <3>2. blocked = outstream
      BY <2>1, <1>3, <3>1 DEF makeCommentBlock
    <3>3. m + 1 .. m + Len(numbers) = {}
      BY <2>1, <1>2
    <3> QED
      BY <3>2, <3>3
  <2>2. CASE numbers # <<>>
    <3>1. PICK head : head = <<[what |-> "##", line |-> numbers[1]]>>
      OBVIOUS
    <3>2. numbers[1] \in Nat
      BY <2>2, EmptySeq, ElementOfSeq
    <3>3. PICK opened : opened = outstream \o head
      OBVIOUS
    <3>4. opened \in Seq(Entry) /\ Once(opened) /\ Told(opened) = 1 .. n
      BY <3>1, <3>2, <3>3, OpeningABlock
    <3>5. blocked = opened \o Marked("doc", numbers)
      <4>1. makeCommentBlock(numbers) = head \o Marked("doc", numbers)
        BY <2>2, <3>1 DEF makeCommentBlock
      <4>2. Marked("doc", numbers) \in Seq(Entry)
        BY MarkedEntries
      <4>3. head \in Seq(Entry)
        BY <3>1, <3>2 DEF Entry
      <4>4. (outstream \o head) \o Marked("doc", numbers)
              = outstream \o (head \o Marked("doc", numbers))
        BY <4>2, <4>3, ConcatAssociative
      <4> QED
        BY <4>1, <4>4, <3>3, <1>3
    <3>6. Untold(opened, m, Len(numbers))
      BY <3>4, <1>1, <1>2 DEF Untold
    <3>7. Follows(numbers, m)
      BY DEF m
    <3>8. PICK add : add = Marked("doc", numbers)
      OBVIOUS
    <3>9. add \in Seq(Entry) /\ Len(add) = Len(numbers) /\ Continues(add, m)
      BY <3>7, <3>8, <1>2, Marking
    <3>10. Untold(opened, m, Len(add)) /\ blocked = opened \o add
      BY <3>5, <3>6, <3>8, <3>9
    <3>11. Good(opened) /\ Piece(add, m)
      BY <3>4, <3>9, <1>2 DEF Good, Piece
    <3>12. Extends(blocked, opened, m, Len(add))
      BY <3>10, <3>11, Extending, Zenon
    <3> QED
      BY <3>4, <3>9, <3>12 DEF Extends, Good
  <2> QED
    BY <2>1, <2>2
<1>5. Untold(blocked, n, Len(defclass))
  BY <1>1, <1>4 DEF m, Untold
<1>6. PICK header : header = Marked("code", defclass)
  OBVIOUS
<1>7. header \in Seq(Entry) /\ Len(header) = Len(defclass) /\ Continues(header, n)
  BY <1>6, Marking
<1>8. PICK new : new = Closed(numbers)
  OBVIOUS
<1>9. Untold(blocked, n, Len(header)) /\ new = blocked \o header
  BY <1>3, <1>5, <1>6, <1>7, <1>8 DEF Closed
<1>10. Extends(new, blocked, n, Len(header))
  <2>1. Good(blocked) /\ Piece(header, n)
    BY <1>4, <1>7 DEF Good, Piece
  <2> QED
    BY <2>1, <1>9, Extending, Zenon
<1>11. Told(blocked) \cup n + 1 .. n + Len(defclass) = 1 .. n + Len(defclass) + Len(numbers)
  BY <1>1, <1>4 DEF m
<1> QED
  BY <1>7, <1>8, <1>10, <1>11 DEF Extends, Good

\* A number appended to the consecutive ones.
LEMMA Appended ==
  ASSUME NEW s \in Seq(Nat), NEW n \in Nat, Follows(s, n),
         NEW t, t = Append(s, n + Len(s) + 1)
  PROVE  t \in Seq(Nat) /\ Len(t) = Len(s) + 1 /\ Follows(t, n)
<1>1. /\ t \in Seq(Nat) /\ Len(t) = Len(s) + 1 /\ Len(s) \in Nat /\ DOMAIN s = 1 .. Len(s)
      /\ DOMAIN t = 1 .. Len(s) + 1
      /\ \A i \in 1 .. Len(s) : t[i] = s[i]
      /\ t[Len(s) + 1] = n + Len(s) + 1
  OBVIOUS
<1>2. \A i \in 1 .. Len(s) : t[i] = n + i
  BY <1>1 DEF Follows
<1>3. t[Len(s) + 1] = n + (Len(s) + 1)
  BY <1>1
<1>4. ASSUME NEW i \in DOMAIN t PROVE t[i] = n + i
  <2>1. i \in 1 .. Len(s) \/ i = Len(s) + 1
    BY <1>1
  <2> QED
    BY <2>1, <1>2, <1>3
<1> QED
  BY <1>1, <1>4 DEF Follows

\* A line of its own is told behind all others.
LEMMA Passing ==
  ASSUME NEW out \in Seq(Entry), Once(out), NEW n \in Nat, Told(out) = 1 .. n,
         NEW new, new = out \o Marked("code", <<n + 1>>)
  PROVE  new \in Seq(Entry) /\ Once(new) /\ Told(new) = 1 .. n + 1
<1>1. <<n + 1>> \in Seq(Nat) /\ Len(<<n + 1>>) = 1 /\ Follows(<<n + 1>>, n)
  BY DEF Follows
<1>2. 1 .. n \cup n + 1 .. n + 1 = 1 .. n + 1
  OBVIOUS
<1>3. PICK add : add = Marked("code", <<n + 1>>)
  OBVIOUS
<1>4. add \in Seq(Entry) /\ Len(add) = 1 /\ Continues(add, n)
  BY <1>1, <1>3, Marking
<1>5. Untold(out, n, Len(add)) /\ new = out \o add
  BY <1>3, <1>4 DEF Untold
<1>6. new \in Seq(Entry) /\ Once(new) /\ Told(new) = Told(out) \cup n + 1 .. n + Len(add)
  BY <1>4, <1>5, Telling
<1> QED
  BY <1>2, <1>4, <1>6

-----------------------------------------------------------------------------
(* The steps of the machine.  *)

\* What a search in progress holds is all that the output still lacks.
LEMMA ClosingAll ==
  ASSUME IInv, ~ended, current_state # "DEFCLASS_BODY"
  PROVE  /\ Closed(comment) \in Seq(Entry) /\ Once(Closed(comment))
         /\ Told(Closed(comment)) = 1 .. lines
<1>1. PICK n \in 0 .. lines : Split(n)
  BY DEF IInv
<1>2. /\ Told(outstream) = 1 .. n /\ Once(outstream) /\ n \in Nat
      /\ Follows(defclass, n) /\ Follows(comment, n + Len(defclass))
      /\ n + Len(defclass) + Len(comment) = lines
  BY <1>1 DEF Split, IInv
<1>3. outstream \in Seq(Entry) /\ defclass \in Seq(Nat) /\ comment \in Seq(Nat)
  BY DEF IInv
<1>4. /\ Closed(comment) \in Seq(Entry) /\ Once(Closed(comment))
      /\ Told(Closed(comment)) = 1 .. n + Len(defclass) + Len(comment)
  BY <1>2, <1>3, Closing
<1> QED
  BY <1>2, <1>4

\* Nothing is held and nothing is told.
LEMMA Initially ==
  ASSUME Init
  PROVE  IInv
<1>1. Told(outstream) = {} /\ Once(outstream)
  BY DEF Init, Told, Once
<1>2. 1 .. 0 = {} /\ 0 \in 0 .. lines
  BY DEF Init
<1>3. Split(0)
  BY <1>1, <1>2 DEF Init, Split, Follows
<1>4. current_state \in States /\ current_state = "FILEHEAD"
  BY DEF Init, States, transitions
<1>5. comment = <<>> /\ defclass = <<>> /\ outstream = <<>> /\ lines = 0 /\ ended = FALSE
  BY DEF Init
<1>6. comment \in Seq(Nat) /\ defclass \in Seq(Nat) /\ outstream \in Seq(Entry)
  BY <1>5, EmptySeq
<1>7. \E n \in 0 .. lines : Split(n)
  BY <1>2, <1>3
<1> QED
  BY <1>4, <1>5, <1>6, <1>7 DEF IInv

\* A line read keeps the invariant, whatever rule it meets.
LEMMA Reading ==
  ASSUME IInv, NEW kind \in Kinds, parseLine(kind)
  PROVE  IInv'
<1>0. PICK old, new : old = lines /\ new = lines + 1 /\ old \in Nat /\ new \in Nat
  BY DEF IInv
<1>1. PICK i \in DOMAIN transitions[current_state] :
        Perform(transitions[current_state][i], lines + 1)
  BY DEF parseLine
<1>2. PICK rule : rule = transitions[current_state][i]
  OBVIOUS
<1>3. current_state \in States /\ Perform(rule, new) /\ current_state' = rule.to
  BY <1>0, <1>1, <1>2 DEF IInv, Perform
<1>4. rule.to \in States /\ Shape(current_state, rule.to, rule.callback)
  BY <1>2, <1>3, RuleShapes
<1>5. ~ended /\ ended' = ended /\ lines' = new /\ lines \in Nat /\ ended \in BOOLEAN
  BY <1>0 DEF parseLine, IInv
<1>6. /\ comment \in Seq(Nat) /\ defclass \in Seq(Nat) /\ outstream \in Seq(Entry)
      /\ current_state \in HeadStates \cup {"DEFCLASS_BODY"} => defclass = <<>>
      /\ current_state \in {"DEFCLASS", "DEFCLASS_MULTI"} => comment = <<>>
  BY DEF IInv
<1>7. PICK n \in 0 .. lines : Split(n)
  BY DEF IInv
<1>8. Told(outstream) = 1 .. n /\ Once(outstream) /\ n \in Nat
  BY <1>5, <1>7 DEF Split
<1>9. CASE current_state = "DEFCLASS_BODY"
  <2>1. n = lines /\ defclass = <<>>
    BY <1>5, <1>6, <1>7, <1>9 DEF Split
  <2>2. CASE rule.callback = "startCommentSearch" /\ startCommentSearch(new)
    <3>1. /\ current_state' \in {"DEFCLASS", "DEFCLASS_MULTI"}
          /\ defclass' = <<new>> /\ comment' = <<>> /\ outstream' = outstream
      BY <2>2, <1>3, <1>4 DEF startCommentSearch, Shape
    <3>2. Follows(<<new>>, n) /\ Follows(<<>>, n + Len(<<new>>)) /\ n + 1 + 0 = new
      BY <2>1, <1>0, <1>5 DEF Follows
    <3>3. Split(n)'
      BY <3>1, <3>2, <1>5, <1>8 DEF Split
    <3>4. n \in 0 .. lines' /\ <<new>> \in Seq(Nat) /\ <<>> \in Seq(Nat)
      BY <2>1, <1>0, <1>5
    <3> QED
      BY <3>1, <3>3, <3>4, <1>3, <1>4, <1>5, <1>6 DEF IInv, HeadStates
  <2>3. CASE rule.callback = "appendNormalLine" /\ appendNormalLine(new)
    <3>1. /\ current_state' = "DEFCLASS_BODY" /\ defclass' = <<>> /\ comment' = comment
          /\ outstream' = outstream \o Marked("code", <<n + 1>>)
      BY <2>1, <2>3, <1>0, <1>3, <1>4, <1>9 DEF appendNormalLine, Shape
    <3>2. outstream' \in Seq(Entry) /\ Once(outstream') /\ Told(outstream') = 1 .. n + 1
      BY <3>1, <1>6, <1>8, Passing
    <3>3. n + 1 \in 0 .. lines' /\ Split(n + 1)'
      BY <3>1, <3>2, <2>1, <1>0, <1>5 DEF Split
    <3>4. defclass' \in Seq(Nat) /\ comment' \in Seq(Nat) /\ current_state' \in States
      BY <3>1, <1>3, <1>4, <1>6
    <3>5. /\ current_state' \in HeadStates \cup {"DEFCLASS_BODY"} => defclass' = <<>>
          /\ current_state' \notin {"DEFCLASS", "DEFCLASS_MULTI"}
      BY <3>1
    <3>6. \E k \in 0 .. lines' : Split(k)'
      BY <3>3
    <3> QED
      BY <3>2, <3>3, <3>4, <3>5, <3>6, <1>0, <1>5 DEF IInv
  <2> QED
    BY <2>2, <2>3, <1>3, <1>4, <1>9 DEF Perform, Shape
<1>10. CASE current_state # "DEFCLASS_BODY"
  <2>1. /\ Follows(defclass, n) /\ Follows(comment, n + Len(defclass))
        /\ n + Len(defclass) + Len(comment) = lines
    BY <1>5, <1>7, <1>10 DEF Split
  <2>2. /\ Closed(comment) \in Seq(Entry) /\ Once(Closed(comment))
        /\ Told(Closed(comment)) = 1 .. old
    BY <1>0, <1>5, <1>10, ClosingAll
  <2>3. Follows(<<>>, new + Len(<<>>)) /\ Follows(<<>>, new) /\ Follows(<<new>>, old)
        /\ Follows(<<>>, old + Len(<<new>>))
    BY <1>0 DEF Follows
  <2>4. CASE rule.callback = "resetCommentSearch" /\ resetCommentSearch(new)
    <3>1. /\ current_state' \in {"DEFCLASS", "DEFCLASS_MULTI"}
          /\ defclass' = <<new>> /\ comment' = <<>> /\ outstream' = Closed(comment)
      BY <2>4, <1>3, <1>4 DEF resetCommentSearch, Shape
    <3>2. old \in 0 .. lines' /\ Split(old)'
      BY <3>1, <2>2, <2>3, <1>0, <1>5 DEF Split
    <3> QED
      BY <3>1, <3>2, <2>2, <1>0, <1>3, <1>4, <1>5 DEF IInv, HeadStates
  <2>5. CASE rule.callback = "stopCommentSearch" /\ stopCommentSearch(new)
    <3>1. /\ current_state' = "DEFCLASS_BODY" /\ defclass' = <<>> /\ comment' = comment
          /\ outstream' = Closed(comment) \o Marked("code", <<old + 1>>)
      BY <2>5, <1>0, <1>3, <1>4 DEF stopCommentSearch, Shape
    <3>2. outstream' \in Seq(Entry) /\ Once(outstream') /\ Told(outstream') = 1 .. old + 1
      BY <3>1, <2>2, <1>0, Passing
    <3>3. new \in 0 .. lines' /\ Split(new)'
      BY <3>1, <3>2, <1>0, <1>5 DEF Split
    <3> QED
      BY <3>1, <3>2, <3>3, <1>3, <1>4, <1>5, <1>6 DEF IInv, HeadStates
  <2>6. CASE rule.callback = "appendFileheadLine" /\ appendFileheadLine(new)
    <3>1. /\ current_state' \in {"FILEHEAD", "DEFCLASS_BODY"}
          /\ defclass' = <<>> /\ comment' = <<>>
          /\ outstream' = Closed(comment) \o Marked("code", <<old + 1>>)
      BY <2>6, <1>0, <1>3, <1>4, <1>6 DEF appendFileheadLine, Shape, HeadStates
    <3>2. outstream' \in Seq(Entry) /\ Once(outstream') /\ Told(outstream') = 1 .. old + 1
      BY <3>1, <2>2, <1>0, Passing
    <3>3. new \in 0 .. lines' /\ Split(new)'
      BY <3>1, <3>2, <2>3, <1>0, <1>5 DEF Split
    <3> QED
      BY <3>1, <3>2, <3>3, <1>3, <1>4, <1>5, <1>6 DEF IInv, HeadStates
  <2>7. CASE rule.callback = "appendDefclassLine" /\ appendDefclassLine(new)
    <3>1. /\ current_state \in {"DEFCLASS", "DEFCLASS_MULTI"}
          /\ current_state' \in {"DEFCLASS", "DEFCLASS_MULTI"}
          /\ defclass' = Append(defclass, new) /\ comment' = comment /\ comment = <<>>
          /\ outstream' = outstream
      BY <2>7, <1>3, <1>4, <1>6 DEF appendDefclassLine, Shape
    <3>2. /\ defclass' \in Seq(Nat) /\ Len(defclass') = Len(defclass) + 1
          /\ Follows(defclass', n)
      <4>1. new = n + Len(defclass) + 1
        BY <3>1, <2>1, <1>0, <1>6, <1>8
      <4>2. PICK d : d = Append(defclass, new)
        OBVIOUS
      <4> QED
        BY <3>1, <4>1, <4>2, <2>1, <1>6, <1>8, Appended
    <3>3. Follows(<<>>, n + Len(defclass'))
      BY DEF Follows
    <3>4. n + Len(defclass') + Len(comment') = lines' /\ n \in 0 .. lines'
      <4>1. Len(defclass) \in Nat /\ Len(comment) \in Nat
        BY <1>6
      <4> QED
        BY <4>1, <3>1, <3>2, <2>1, <1>0, <1>5, <1>8
    <3>5. Split(n)'
      BY <3>1, <3>2, <3>3, <3>4, <1>5, <1>8 DEF Split
    <3> QED
      BY <3>1, <3>2, <3>4, <3>5, <1>3, <1>4, <1>5, <1>6 DEF IInv, HeadStates
  <2>8. CASE rule.callback = "appendCommentLine" /\ appendCommentLine(new, rule.to)
    <3>1. comment' = Append(comment, new)
      BY <2>8 DEF appendCommentLine
    <3>2. /\ comment' \in Seq(Nat) /\ Len(comment') = Len(comment) + 1
          /\ Follows(comment', n + Len(defclass))
      <4>1. PICK m \in Nat : m = n + Len(defclass)
        BY <1>6, <1>8
      <4>2. new = m + Len(comment) + 1
        BY <4>1, <2>1, <1>0
      <4>3. PICK d : d = Append(comment, new)
        OBVIOUS
      <4> QED
        BY <3>1, <4>1, <4>2, <4>3, <2>1, <1>6, Appended
    <3>3. CASE rule.to = "DEFCLASS_BODY"
      <4>1. outstream' = Closed(comment') /\ defclass' = <<>>
        BY <2>8, <3>3 DEF appendCommentLine
      <4>2. PICK c : c = comment'
        OBVIOUS
      <4>3. /\ Closed(c) \in Seq(Entry) /\ Once(Closed(c))
            /\ Told(Closed(c)) = 1 .. n + Len(defclass) + Len(c)
        BY <4>2, <3>2, <2>1, <1>6, <1>8, Closing
      <4>4. n + Len(defclass) + Len(c) = new
        <5>1. /\ Len(defclass) \in Nat /\ Len(comment) \in Nat /\ Len(c) = Len(comment) + 1
          BY <4>2, <3>2, <1>6
        <5> QED
          BY <5>1, <2>1, <1>0, <1>8
      <4>5. new \in 0 .. lines' /\ Split(new)'
        BY <4>1, <4>2, <4>3, <4>4, <3>3, <1>0, <1>3, <1>5 DEF Split
      <4> QED
        BY <4>1, <4>2, <4>3, <4>5, <3>2, <3>3, <1>3, <1>4, <1>5 DEF IInv, HeadStates
    <3>4. CASE rule.to # "DEFCLASS_BODY"
      <4>1. outstream' = outstream /\ defclass' = defclass
        BY <2>8, <3>4 DEF appendCommentLine
      <4>2. /\ current_state' \notin {"DEFCLASS", "DEFCLASS_MULTI", "DEFCLASS_BODY"}
            /\ current_state' \in HeadStates => current_state \in HeadStates
        BY <2>8, <3>4, <1>3, <1>4 DEF Shape, HeadStates
      <4>3. n + Len(defclass') + Len(comment') = lines' /\ n \in 0 .. lines'
        <5>1. Len(defclass) \in Nat /\ Len(comment) \in Nat
          BY <1>6
        <5> QED
          BY <5>1, <4>1, <3>2, <2>1, <1>0, <1>5, <1>8
      <4>4. Split(n)'
        BY <4>1, <4>2, <4>3, <3>2, <2>1, <1>5, <1>8 DEF Split
      <4> QED
        BY <4>1, <4>2, <4>3, <4>4, <3>2, <1>3, <1>4, <1>5, <1>6 DEF IInv
    <3> QED
      BY <3>3, <3>4
  <2> QED
    BY <2>4, <2>5, <2>6, <2>7, <2>8, <1>3, <1>4, <1>10 DEF Perform, Shape
<1> QED
  BY <1>9, <1>10

\* The end of the file closes a search whose docstring never came.
LEMMA Finishing ==
  ASSUME IInv, EndOfFile
  PROVE  IInv'
<1>1. /\ ~ended /\ ended' = TRUE /\ lines' = lines /\ current_state' = current_state
      /\ comment' = comment /\ defclass' = defclass
  BY DEF EndOfFile
<1>2. CASE current_state = "DEFCLASS"
  <2>1. /\ outstream' = Closed(comment)
        /\ outstream' \in Seq(Entry) /\ Once(outstream') /\ Told(outstream') = 1 .. lines
    BY <1>1, <1>2, ClosingAll DEF EndOfFile
  <2>2. PICK n : n = lines
    OBVIOUS
  <2>3. n \in 0 .. lines' /\ Split(n)'
    BY <1>1, <1>2, <2>1, <2>2 DEF IInv, Split
  <2> QED
    BY <1>1, <1>2, <2>1, <2>3 DEF IInv, HeadStates
<1>3. CASE current_state # "DEFCLASS"
  <2>1. outstream' = outstream
    BY <1>3 DEF EndOfFile
  <2>2. PICK n \in 0 .. lines : Split(n)
    BY DEF IInv
  <2>3. Split(n)'
    BY <1>1, <1>3, <2>1, <2>2 DEF Split
  <2> QED
    BY <1>1, <1>3, <2>1, <2>3 DEF IInv
<1> QED
  BY <1>2, <1>3

\* The invariant says what the property says.
LEMMA Implied ==
  ASSUME IInv
  PROVE  NothingLostOrRepeated
<1>1. PICK n \in 0 .. lines : Split(n)
  BY DEF IInv
<1>2. Emitted = 1 .. n
  BY <1>1 DEF Split, Emitted, Places, Told
<1>3. \A i, j \in Places : outstream[i].line = outstream[j].line => i = j
  BY <1>1 DEF Split, Places, Once
<1>4. ASSUME ~(ended /\ current_state = "DEFCLASS")
      PROVE  Len(Pending) = lines - n /\ \A i \in DOMAIN Pending : Pending[i] = n + i
  <2>1. n \in Nat /\ lines \in Nat
    BY DEF IInv
  <2>2. CASE current_state = "DEFCLASS_BODY"
    BY <1>1, <1>4, <2>1, <2>2 DEF Split, Pending
  <2>3. CASE current_state # "DEFCLASS_BODY"
    <3>1. PICK d \in Seq(Nat), c \in Seq(Nat) : d = defclass /\ c = comment
      BY DEF IInv
    <3>2. Follows(d, n) /\ Follows(c, n + Len(d)) /\ n + Len(d) + Len(c) = lines
      BY <1>1, <1>4, <2>3, <3>1 DEF Split
    <3>3. PICK p : p = d \o c
      OBVIOUS
    <3>4. /\ Len(p) = Len(d) + Len(c) /\ DOMAIN p = 1 .. Len(d) + Len(c)
          /\ Len(d) \in Nat /\ Len(c) \in Nat
          /\ \A i \in 1 .. Len(d) : p[i] = d[i]
          /\ \A i \in Len(d) + 1 .. Len(d) + Len(c) : p[i] = c[i - Len(d)]
      BY <3>1, <3>3
    <3>5. ASSUME NEW i \in DOMAIN p
          PROVE  p[i] = n + i
      <4>1. CASE i \in 1 .. Len(d)
        BY <4>1, <3>2, <3>4 DEF Follows
      <4>2. CASE i \in Len(d) + 1 .. Len(d) + Len(c)
        <5>1. i - Len(d) \in DOMAIN c
          BY <4>2, <3>4
        <5>2. c[i - Len(d)] = (n + Len(d)) + (i - Len(d))
          BY <5>1, <3>2 DEF Follows
        <5> QED
          BY <4>2, <5>2, <3>4, <2>1
      <4> QED
        BY <4>1, <4>2, <3>4
    <3>6. p = Pending
      BY <2>3, <3>1, <3>3 DEF Pending
    <3>7. Len(p) = lines - n
      BY <3>2, <3>4, <2>1
    <3> QED
      BY <3>5, <3>6, <3>7
  <2> QED
    BY <2>2, <2>3
<1>5. ended /\ current_state = "DEFCLASS" => n = lines
  BY <1>1 DEF Split
<1> QED
  BY <1>2, <1>3, <1>4, <1>5 DEF NothingLostOrRepeated

-----------------------------------------------------------------------------
(* The order of the output.  *)

\* OnlyHeadersMove of an output not yet assigned.
Moves(out) ==
    \A i, j \in DOMAIN out : i < j /\ out[i].line > out[j].line =>
        /\ out[j].what = "code"
        /\ \A k \in i .. j - 1 :
            /\ k > i => out[k].what # "##"
            /\ out[k].what = "code" => out[k].line < out[j].line

\* A block is opened with the number of a line it tells.
Anchored(out) == \A i \in DOMAIN out : out[i].line \in Told(out)

\* A comment block, and the header behind it, of lines after the n-th.
Block(B, n) == \A i \in 1 .. Len(B) :
    /\ B[i].line > n /\ B[i].what # "code" /\ (B[i].what = "##" => i = 1)
    /\ \A j \in 1 .. Len(B) : i < j => B[i].line <= B[j].line
Header(H, n) == \A i \in 1 .. Len(H) :
    /\ H[i].line > n /\ H[i].what = "code"
    /\ \A j \in 1 .. Len(H) : i < j => H[i].line < H[j].line

\* Each of its lines is told.
Whole(add) == \A i \in 1 .. Len(add) :
    \E j \in 1 .. Len(add) : add[j].what # "##" /\ add[j].line = add[i].line

OInv == IInv /\ Moves(outstream) /\ Anchored(outstream)

\* A block and its header keep the order behind all that was told before.
LEMMA Moving ==
  ASSUME NEW out \in Seq(Entry), NEW B \in Seq(Entry), NEW H \in Seq(Entry), NEW n \in Nat,
         Moves(out), \A i \in DOMAIN out : out[i].line <= n, Block(B, n), Header(H, n),
         NEW new, new = (out \o B) \o H
  PROVE  Moves(new)
<1>1. PICK mid : mid = out \o B
  OBVIOUS
<1>2. PICK o \in Nat, b \in Nat, h \in Nat :
        /\ o = Len(out) /\ b = o + Len(B) /\ h = b + Len(H) /\ o <= b /\ b <= h
        /\ Len(B) \in Nat /\ Len(H) \in Nat
  <2>1. Len(out) \in Nat /\ Len(B) \in Nat /\ Len(H) \in Nat
    BY LenProperties
  <2> QED
    BY <2>1
<1>3. /\ mid \in Seq(Entry) /\ Len(mid) = b /\ DOMAIN out = 1 .. o
      /\ \A i \in 1 .. o : mid[i] = out[i]
      /\ \A i \in 1 .. Len(B) : mid[o + i] = B[i]
  BY <1>1, <1>2, Joining
<1>4. new = mid \o H
  BY <1>1
<1>5. /\ new \in Seq(Entry) /\ DOMAIN new = 1 .. h
      /\ \A i \in 1 .. b : new[i] = mid[i]
      /\ \A i \in 1 .. Len(H) : new[b + i] = H[i]
  <2>1. /\ new \in Seq(Entry) /\ DOMAIN new = 1 .. Len(mid) + Len(H)
        /\ \A i \in 1 .. Len(mid) : new[i] = mid[i]
        /\ \A i \in 1 .. Len(H) : new[Len(mid) + i] = H[i]
    <3>1. mid \in Seq(Entry)
      BY <1>3
    <3> QED
      BY <3>1, <1>4, Joining
  <2> QED
    BY <2>1, <1>2, <1>3
<1>6. ASSUME NEW i \in 1 .. h PROVE new[i].line \in Nat
  <2>1. new[i] \in Entry
    BY <1>5, ElementOfSeq
  <2> QED
    BY <2>1 DEF Entry
<1>7. ASSUME NEW i \in 1 .. o PROVE new[i] = out[i] /\ new[i].line <= n
  <2>1. i \in 1 .. b /\ i \in DOMAIN out
    BY <1>2, <1>3
  <2>2. new[i] = mid[i] /\ mid[i] = out[i]
    BY <2>1, <1>3, <1>5
  <2> QED
    BY <2>1, <2>2
<1>8. ASSUME NEW i \in o + 1 .. b
      PROVE  /\ new[i] = B[i - o] /\ i - o \in 1 .. Len(B)
             /\ new[i].line > n /\ new[i].what # "code" /\ (new[i].what = "##" => i = o + 1)
  <2>1. i - o \in 1 .. Len(B) /\ i = o + (i - o) /\ i \in 1 .. b
    <3>1. PICK l \in Nat : l = Len(B) /\ b = o + l
      BY <1>2
    <3>2. i - o \in 1 .. l /\ i = o + (i - o) /\ i \in 1 .. b
      BY <3>1
    <3> QED
      BY <3>1, <3>2
  <2>2. new[i] = B[i - o]
    BY <2>1, <1>3, <1>5
  <2>3. B[i - o].line > n /\ B[i - o].what # "code" /\ (B[i - o].what = "##" => i - o = 1)
    BY <2>1 DEF Block
  <2> QED
    BY <2>1, <2>2, <2>3
<1>9. ASSUME NEW i \in b + 1 .. h
      PROVE  /\ new[i] = H[i - b] /\ i - b \in 1 .. Len(H)
             /\ new[i].line > n /\ new[i].what = "code"
  <2>1. i - b \in 1 .. Len(H) /\ i = b + (i - b)
    <3>1. PICK l \in Nat : l = Len(H) /\ h = b + l
      BY <1>2
    <3>2. i - b \in 1 .. l /\ i = b + (i - b)
      BY <3>1
    <3> QED
      BY <3>1, <3>2
  <2>2. new[i] = H[i - b]
    BY <2>1, <1>5
  <2> QED
    BY <2>1, <2>2 DEF Header
<1>10. ASSUME NEW i \in o + 1 .. b, NEW j \in o + 1 .. b, i < j
       PROVE  new[i].line <= new[j].line
  <2>1. PICK x \in 1 .. Len(B), y \in 1 .. Len(B) :
          x = i - o /\ y = j - o /\ new[i] = B[x] /\ new[j] = B[y]
    BY <1>8
  <2>2. x < y
    BY <2>1, <1>10
  <2> QED
    BY <2>1, <2>2 DEF Block
<1>11. ASSUME NEW i \in b + 1 .. h, NEW j \in b + 1 .. h, i < j
       PROVE  new[i].line < new[j].line
  <2>1. PICK x \in 1 .. Len(H), y \in 1 .. Len(H) :
          x = i - b /\ y = j - b /\ new[i] = H[x] /\ new[j] = H[y]
    BY <1>9
  <2>2. x < y
    BY <2>1, <1>11
  <2> QED
    BY <2>1, <2>2 DEF Header
<1> SUFFICES ASSUME NEW i \in 1 .. h, NEW j \in 1 .. h, i < j, new[i].line > new[j].line
             PROVE  /\ new[j].what = "code"
                    /\ \A k \in i .. j - 1 :
                         /\ k > i => new[k].what # "##"
                         /\ new[k].what = "code" => new[k].line < new[j].line
  BY <1>5 DEF Moves
<1>12. ~(new[i].line <= new[j].line) /\ ~(new[i].line <= n /\ new[j].line > n)
  <2>1. PICK x \in Nat, y \in Nat : x = new[i].line /\ y = new[j].line
    BY <1>6
  <2>2. x > y
    BY <2>1
  <2>3. ~(x <= y) /\ ~(x <= n /\ y > n)
    BY <2>2
  <2> QED
    BY <2>1, <2>3
<1>13. CASE j \in 1 .. o
  <2>1. i \in 1 .. o /\ \A k \in i .. j - 1 : k \in 1 .. o
    BY <1>13
  <2>2. \A k \in 1 .. o : new[k] = out[k]
    BY <1>7
  <2> QED
    BY <2>1, <2>2, <1>3, <1>13 DEF Moves
<1>14. CASE j \in o + 1 .. b
  <2>1. CASE i \in 1 .. o
    <3>1. new[i].line <= n /\ new[j].line > n
      BY <2>1, <1>7, <1>8, <1>14
    <3> QED
      BY <3>1, <1>12
  <2>2. CASE i \in o + 1 .. b
    <3>1. new[i].line <= new[j].line
      BY <2>2, <1>10, <1>14
    <3> QED
      BY <3>1, <1>12
  <2>3. i \in 1 .. o \/ i \in o + 1 .. b
    BY <1>2, <1>14
  <2> QED
    BY <2>1, <2>2, <2>3
<1>15. CASE j \in b + 1 .. h
  <2>1. i \in o + 1 .. h
    <3>1. CASE i \in 1 .. o
      <4>1. new[i].line <= n /\ new[j].line > n
        BY <3>1, <1>7, <1>9, <1>15
      <4> QED
        BY <4>1, <1>12
    <3> QED
      BY <3>1, <1>2
  <2>2. new[j].what = "code"
    BY <1>9, <1>15
  <2>3. ASSUME NEW k \in i .. j - 1
        PROVE  /\ k > i => new[k].what # "##"
               /\ new[k].what = "code" => new[k].line < new[j].line
    <3>1. CASE k \in o + 1 .. b
      <4>1. new[k].what # "code" /\ (new[k].what = "##" => k = o + 1)
        BY <3>1, <1>8
      <4>2. k > i => k # o + 1
        BY <2>1, <1>2
      <4> QED
        BY <4>1, <4>2
    <3>2. CASE k \in b + 1 .. h
      <4>1. new[k].what = "code"
        BY <3>2, <1>9
      <4>2. new[k].line < new[j].line
        <5>1. k < j
          BY <1>2
        <5> QED
          BY <5>1, <3>2, <1>11, <1>15
      <4> QED
        BY <4>1, <4>2
    <3>3. k \in o + 1 .. b \/ k \in b + 1 .. h
      BY <1>2, <2>1
    <3> QED
      BY <3>1, <3>2, <3>3
  <2> QED
    BY <2>2, <2>3
<1>16. j \in 1 .. o \/ j \in o + 1 .. b \/ j \in b + 1 .. h
  BY <1>2
<1> QED
  BY <1>13, <1>14, <1>15, <1>16

\* Added entries stay anchored if each of their lines is told.
LEMMA Anchoring ==
  ASSUME NEW out \in Seq(Entry), Anchored(out), NEW add \in Seq(Entry), Whole(add),
         NEW new, new = out \o add
  PROVE  Anchored(new)
<1>1. /\ Len(out) \in Nat /\ Len(add) \in Nat /\ DOMAIN out = 1 .. Len(out)
      /\ DOMAIN new = 1 .. Len(out) + Len(add)
      /\ \A i \in 1 .. Len(out) : new[i] = out[i]
      /\ \A j \in 1 .. Len(add) : new[Len(out) + j] = add[j]
  BY Joining
<1>2. ASSUME NEW l \in Told(out) PROVE l \in Told(new)
  <2>1. PICK i \in 1 .. Len(out) : out[i].what # "##" /\ l = out[i].line
    BY <1>1 DEF Told
  <2>2. i \in DOMAIN new /\ new[i] = out[i]
    BY <1>1
  <2> QED
    BY <2>1, <2>2 DEF Told
<1>3. ASSUME NEW j \in 1 .. Len(add), add[j].what # "##" PROVE add[j].line \in Told(new)
  <2>1. Len(out) + j \in DOMAIN new /\ new[Len(out) + j] = add[j]
    BY <1>1
  <2> QED
    BY <2>1, <1>3 DEF Told
<1>4. ASSUME NEW i \in DOMAIN new PROVE new[i].line \in Told(new)
  <2>1. CASE i \in 1 .. Len(out)
    BY <2>1, <1>1, <1>2 DEF Anchored
  <2>2. CASE i \notin 1 .. Len(out)
    <3>1. i - Len(out) \in 1 .. Len(add) /\ i = Len(out) + (i - Len(out))
      BY <2>2, <1>1
    <3>2. new[i] = add[i - Len(out)]
      BY <3>1, <1>1
    <3>3. PICK j \in 1 .. Len(add) : add[j].what # "##" /\ add[j].line = add[i - Len(out)].line
      BY <3>1 DEF Whole
    <3> QED
      BY <3>2, <3>3, <1>3
  <2> QED
    BY <2>1, <2>2
<1> QED
  BY <1>4 DEF Anchored

\* What a docstring's lines become.
LEMMA CommentBlock ==
  ASSUME NEW c \in Seq(Nat), NEW n \in Nat, NEW m \in Nat, n <= m, Follows(c, m),
         NEW B, B = makeCommentBlock(c)
  PROVE  /\ B \in Seq(Entry) /\ Block(B, n) /\ Whole(B)
<1>1. CASE c = <<>>
  <2>1. B = <<>>
    BY <1>1 DEF makeCommentBlock
  <2> QED
    BY <2>1, EmptySeq DEF Block, Whole
<1>2. CASE c # <<>>
  <2>1. Len(c) \in Nat \ {0} /\ DOMAIN c = 1 .. Len(c)
    BY <1>2, EmptySeq, LenProperties
  <2>2. \A j \in 1 .. Len(c) : c[j] = m + j
    BY <2>1 DEF Follows
  <2>3. PICK doc : doc = Marked("doc", c)
    OBVIOUS
  <2>4. /\ doc \in Seq(Entry) /\ Len(doc) = Len(c)
        /\ \A j \in 1 .. Len(c) : doc[j] = [what |-> "doc", line |-> c[j]]
    BY <2>3, MarkedEntries
  <2>5. \A j \in 1 .. Len(c) : doc[j].what = "doc" /\ doc[j].line = m + j
    <3> TAKE j \in 1 .. Len(c)
    <3>1. doc[j] = [what |-> "doc", line |-> c[j]]
      BY <2>4
    <3> QED
      BY <3>1, <2>2
  <2>6. PICK head : head = <<[what |-> "##", line |-> c[1]]>>
    OBVIOUS
  <2>7. c[1] = m + 1 /\ 1 \in 1 .. Len(c)
    BY <2>1, <2>2
  <2>8. head \in Seq(Entry) /\ Len(head) = 1 /\ head[1].what = "##" /\ head[1].line = m + 1
    BY <2>6, <2>7 DEF Entry
  <2>9. B = head \o doc
    BY <1>2, <2>3, <2>6 DEF makeCommentBlock
  <2>10. /\ B \in Seq(Entry) /\ Len(B) = 1 + Len(c)
         /\ B[1] = head[1]
         /\ \A j \in 1 .. Len(c) : B[1 + j] = doc[j]
    <3>1. head \in Seq(Entry) /\ doc \in Seq(Entry)
      BY <2>4, <2>8
    <3>2. /\ B \in Seq(Entry) /\ Len(B) = Len(head) + Len(doc)
          /\ \A j \in 1 .. Len(head) : B[j] = head[j]
          /\ \A j \in 1 .. Len(doc) : B[Len(head) + j] = doc[j]
      BY <2>9, <3>1, Joining
    <3> QED
      BY <3>2, <2>4, <2>8
  <2>11. B[1].what = "##" /\ B[1].line = m + 1
    BY <2>8, <2>10
  <2>12. ASSUME NEW i \in 2 .. Len(B) PROVE B[i].what = "doc" /\ B[i].line = m + (i - 1)
    <3>1. i - 1 \in 1 .. Len(c) /\ i = 1 + (i - 1)
      BY <2>1, <2>10
    <3>2. B[i] = doc[i - 1]
      BY <3>1, <2>10
    <3> QED
      BY <3>1, <3>2, <2>5
  <2>13. Block(B, n)
    <3> SUFFICES ASSUME NEW i \in 1 .. Len(B)
                 PROVE  /\ B[i].line > n /\ B[i].what # "code" /\ (B[i].what = "##" => i = 1)
                        /\ \A j \in 1 .. Len(B) : i < j => B[i].line <= B[j].line
      BY DEF Block
    <3>1. i = 1 \/ i \in 2 .. Len(B)
      BY <2>1, <2>10
    <3>2. \A j \in 1 .. Len(B) : i < j => j \in 2 .. Len(B)
      BY <2>1, <2>10
    <3> QED
      BY <3>1, <3>2, <2>11, <2>12
  <2>14. 2 \in 2 .. Len(B)
    BY <2>1, <2>10
  <2>15. ASSUME NEW i \in 1 .. Len(B)
         PROVE  \E j \in 1 .. Len(B) : B[j].what # "##" /\ B[j].line = B[i].line
    <3>1. CASE i = 1
      <4>1. 2 \in 1 .. Len(B) /\ B[2].what = "doc" /\ B[2].line = m + 1
        BY <2>12, <2>14
      <4> QED
        BY <3>1, <4>1, <2>11
    <3>2. CASE i # 1
      <4>1. i \in 2 .. Len(B)
        BY <3>2, <2>10, <2>1
      <4> QED
        BY <4>1, <2>12
    <3> QED
      BY <3>1, <3>2
  <2> QED
    BY <2>10, <2>13, <2>15 DEF Whole
<1> QED
  BY <1>1, <1>2

\* What a header's lines become.
LEMMA HeaderLines ==
  ASSUME NEW d \in Seq(Nat), NEW n \in Nat, Follows(d, n), NEW H, H = Marked("code", d)
  PROVE  /\ H \in Seq(Entry) /\ Header(H, n) /\ Whole(H)
<1>1. /\ H \in Seq(Entry) /\ Len(H) = Len(d)
      /\ \A j \in 1 .. Len(d) : H[j] = [what |-> "code", line |-> d[j]]
  BY MarkedEntries
<1>2. Len(d) \in Nat /\ \A j \in 1 .. Len(d) : d[j] = n + j
  BY LenProperties DEF Follows
<1>3. ASSUME NEW j \in 1 .. Len(d) PROVE H[j].what = "code" /\ H[j].line = n + j
  <2>1. H[j] = [what |-> "code", line |-> d[j]]
    BY <1>1
  <2> QED
    BY <2>1, <1>2
<1>4. Header(H, n)
  BY <1>1, <1>2, <1>3 DEF Header
<1> QED
  BY <1>1, <1>3, <1>4 DEF Whole

\* All lines of an anchored output are told.
LEMMA LinesTold ==
  ASSUME NEW out, Anchored(out), NEW n \in Nat, Told(out) = 1 .. n
  PROVE  \A i \in DOMAIN out : out[i].line <= n
  BY DEF Anchored

\* Closing a search keeps the order.
LEMMA ClosingInOrder ==
  ASSUME outstream \in Seq(Entry), NEW n \in Nat, Told(outstream) = 1 .. n,
         Moves(outstream), Anchored(outstream),
         defclass \in Seq(Nat), Follows(defclass, n),
         NEW numbers \in Seq(Nat), Follows(numbers, n + Len(defclass))
  PROVE  Moves(Closed(numbers)) /\ Anchored(Closed(numbers))
<1>1. PICK m \in Nat : m = n + Len(defclass) /\ n <= m
  BY LenProperties
<1>2. PICK B : B = makeCommentBlock(numbers)
  OBVIOUS
<1>3. /\ B \in Seq(Entry) /\ Block(B, n) /\ Whole(B)
  BY <1>1, <1>2, CommentBlock
<1>4. PICK H : H = Marked("code", defclass)
  OBVIOUS
<1>5. /\ H \in Seq(Entry) /\ Header(H, n) /\ Whole(H)
  BY <1>4, HeaderLines
<1>6. \A i \in DOMAIN outstream : outstream[i].line <= n
  BY LinesTold
<1>7. PICK out : out = outstream
  OBVIOUS
<1>8. PICK mid, new : mid = out \o B /\ new = mid \o H
  OBVIOUS
<1>9. new = Closed(numbers)
  BY <1>2, <1>4, <1>7, <1>8 DEF Closed
<1>10. new = (out \o B) \o H
  BY <1>8
<1>11. Moves(new)
  BY <1>3, <1>5, <1>6, <1>7, <1>10, Moving
<1>12. mid \in Seq(Entry) /\ Anchored(mid)
  BY <1>3, <1>7, <1>8, Joining, Anchoring
<1>13. Anchored(new)
  BY <1>5, <1>8, <1>12, Anchoring
<1> QED
  BY <1>9, <1>11, <1>13

\* So does a line passed on.
LEMMA PassingInOrder ==
  ASSUME NEW out \in Seq(Entry), Moves(out), Anchored(out), NEW n \in Nat, Told(out) = 1 .. n,
         NEW new, new = out \o Marked("code", <<n + 1>>)
  PROVE  Moves(new) /\ Anchored(new)
<1>1. PICK d : d = <<n + 1>>
  OBVIOUS
<1>2. d \in Seq(Nat) /\ Follows(d, n)
  BY <1>1 DEF Follows
<1>3. PICK H : H = Marked("code", d)
  OBVIOUS
<1>4. /\ H \in Seq(Entry) /\ Header(H, n) /\ Whole(H)
  BY <1>2, <1>3, HeaderLines
<1>5. PICK B \in Seq(Entry) : B = <<>>
  BY EmptySeq
<1>6. Block(B, n) /\ out \o B = out
  BY <1>5, ConcatEmptySeq DEF Block
<1>7. new = (out \o B) \o H
  BY <1>1, <1>3, <1>6
<1>8. Moves(new)
  BY <1>4, <1>6, <1>7, LinesTold, Moving
<1>9. Anchored(new)
  BY <1>1, <1>3, <1>4, Anchoring
<1> QED
  BY <1>8, <1>9

\* What is closed at a line that ends a search, as in ClosingAll.
LEMMA ClosingAllInOrder ==
  ASSUME OInv, ~ended, current_state # "DEFCLASS_BODY"
  PROVE  Moves(Closed(comment)) /\ Anchored(Closed(comment))
<1>1. PICK n \in 0 .. lines : Split(n)
  BY DEF OInv, IInv
<1>2. /\ Told(outstream) = 1 .. n /\ n \in Nat
      /\ Follows(defclass, n) /\ Follows(comment, n + Len(defclass))
  BY <1>1 DEF Split, OInv, IInv
<1>3. outstream \in Seq(Entry) /\ defclass \in Seq(Nat) /\ comment \in Seq(Nat)
  BY DEF OInv, IInv
<1> QED
  BY <1>2, <1>3, ClosingInOrder DEF OInv

\* A line read keeps the order, whatever rule it meets.
LEMMA ReadingInOrder ==
  ASSUME OInv, NEW kind \in Kinds, parseLine(kind)
  PROVE  OInv'
<1>0. IInv /\ IInv' /\ Moves(outstream) /\ Anchored(outstream)
  BY Reading DEF OInv
<1>1. SUFFICES Moves(outstream') /\ Anchored(outstream')
  BY <1>0 DEF OInv, Moves, Anchored, Told
<1>2. PICK i \in DOMAIN transitions[current_state] :
        Perform(transitions[current_state][i], lines + 1)
  BY DEF parseLine
<1>3. PICK rule : rule = transitions[current_state][i]
  OBVIOUS
<1>4. PICK new \in Nat, old \in Nat : new = lines + 1 /\ old = lines
  BY <1>0 DEF IInv
<1>5. current_state \in States /\ Perform(rule, new) /\ ~ended
  BY <1>0, <1>2, <1>3, <1>4 DEF IInv, parseLine
<1>6. Shape(current_state, rule.to, rule.callback)
  BY <1>3, <1>5, RuleShapes
<1>7. /\ comment \in Seq(Nat) /\ defclass \in Seq(Nat) /\ outstream \in Seq(Entry)
  BY <1>0 DEF IInv
<1>8. PICK n \in 0 .. lines : Split(n)
  BY <1>0 DEF IInv
<1>9. Told(outstream) = 1 .. n /\ n \in Nat
  BY <1>4, <1>8 DEF Split
<1>10. CASE outstream' = outstream
  BY <1>0, <1>10
<1>11. CASE current_state = "DEFCLASS_BODY" /\ appendNormalLine(new)
  <2>1. n = old
    BY <1>4, <1>5, <1>8, <1>11 DEF Split
  <2>2. outstream' = outstream \o Marked("code", <<n + 1>>)
    BY <2>1, <1>4, <1>11 DEF appendNormalLine
  <2>3. PICK out : out = outstream'
    OBVIOUS
  <2> QED
    BY <2>2, <2>3, <1>0, <1>7, <1>9, PassingInOrder
<1>12. CASE current_state # "DEFCLASS_BODY"
  <2>1. /\ Closed(comment) \in Seq(Entry) /\ Told(Closed(comment)) = 1 .. old
        /\ Moves(Closed(comment)) /\ Anchored(Closed(comment))
    BY <1>0, <1>4, <1>5, <1>12, ClosingAll, ClosingAllInOrder
  <2>2. CASE outstream' = Closed(comment)
    BY <2>1, <2>2
  <2>3. CASE outstream' = Closed(comment) \o Marked("code", <<new>>)
    <3>1. PICK closed : closed = Closed(comment)
      OBVIOUS
    <3>2. PICK out : out = closed \o Marked("code", <<old + 1>>)
      OBVIOUS
    <3>3. out = outstream'
      BY <3>1, <3>2, <2>3, <1>4
    <3>4. Moves(out) /\ Anchored(out)
      BY <3>1, <3>2, <2>1, <1>4, PassingInOrder
    <3> QED
      BY <3>3, <3>4
  <2>4. CASE comment' = Append(comment, new) /\ outstream' = Closed(comment')
    <3>1. /\ Follows(defclass, n) /\ Follows(comment, n + Len(defclass))
          /\ n + Len(defclass) + Len(comment) = lines
      BY <1>5, <1>8, <1>12 DEF Split
    <3>2. PICK m \in Nat : m = n + Len(defclass)
      BY <1>7, <1>9
    <3>3. PICK c : c = Append(comment, new)
      OBVIOUS
    <3>4. new = m + Len(comment) + 1
      BY <3>1, <3>2, <1>4
    <3>5. c \in Seq(Nat) /\ Follows(c, n + Len(defclass))
      BY <3>1, <3>2, <3>3, <3>4, <1>7, Appended
    <3>6. Moves(Closed(c)) /\ Anchored(Closed(c))
      BY <3>1, <3>5, <1>0, <1>7, <1>9, ClosingInOrder
    <3> QED
      BY <3>3, <3>6, <2>4
  <2>5. \/ outstream' = outstream \/ outstream' = Closed(comment)
        \/ outstream' = Closed(comment) \o Marked("code", <<new>>)
        \/ comment' = Append(comment, new) /\ outstream' = Closed(comment')
    BY <1>5, <1>6, <1>12
       DEF Perform, Shape, startCommentSearch, resetCommentSearch, stopCommentSearch,
           appendFileheadLine, appendCommentLine, appendDefclassLine
  <2> QED
    BY <2>2, <2>3, <2>4, <2>5, <1>10
<1>13. current_state = "DEFCLASS_BODY" => outstream' = outstream \/ appendNormalLine(new)
  BY <1>5, <1>6 DEF Perform, Shape, startCommentSearch
<1> QED
  BY <1>10, <1>11, <1>12, <1>13

\* And the end of the file.
LEMMA FinishingInOrder ==
  ASSUME OInv, EndOfFile
  PROVE  OInv'
<1>1. IInv' /\ Moves(outstream) /\ Anchored(outstream)
  BY Finishing DEF OInv
<1>2. Moves(outstream') /\ Anchored(outstream')
  <2>1. CASE current_state = "DEFCLASS"
    <3>1. outstream' = Closed(comment) /\ ~ended
      BY <2>1 DEF EndOfFile
    <3> QED
      BY <2>1, <3>1, ClosingAllInOrder
  <2>2. CASE current_state # "DEFCLASS"
    BY <1>1, <2>2 DEF EndOfFile
  <2> QED
    BY <2>1, <2>2
<1> QED
  BY <1>1, <1>2 DEF OInv, Moves, Anchored, Told

-----------------------------------------------------------------------------
\* For every sequence of lines, Python or not, the filter's output is the
\* first lines of the file, each once, and it holds back the others in order.
THEOREM ReadOnce == Spec => []NothingLostOrRepeated
<1>1. Init => IInv
  BY Initially
<1>2. IInv /\ [Next]_vars => IInv'
  <2>1. ASSUME IInv, UNCHANGED vars PROVE IInv'
    BY <2>1 DEF IInv, Split, vars
  <2> QED
    BY <2>1, Reading, Finishing DEF Next
<1>3. IInv => NothingLostOrRepeated
  BY Implied
<1> QED
  BY <1>1, <1>2, <1>3, PTL DEF Spec

\* The filter keeps the order of any file but for headers, which move behind
\* the one comment block that was taken out from under them.
THEOREM KeepsOrder == Spec => []OnlyHeadersMove
<1>1. Init => OInv
  <2> SUFFICES ASSUME Init PROVE OInv
    OBVIOUS
  <2>1. IInv
    BY Initially
  <2>2. outstream = <<>>
    BY DEF Init
  <2> QED
    BY <2>1, <2>2 DEF OInv, Moves, Anchored
<1>2. OInv /\ [Next]_vars => OInv'
  <2>1. ASSUME OInv, UNCHANGED vars PROVE OInv'
    BY <2>1 DEF OInv, IInv, Split, Moves, Anchored, vars
  <2> QED
    BY <2>1, ReadingInOrder, FinishingInOrder DEF Next
<1>3. OInv => OnlyHeadersMove
  BY DEF OInv, Moves, OnlyHeadersMove
<1> QED
  BY <1>1, <1>2, <1>3, PTL DEF Spec

LEMMA FilesAreLines == FileSpec => Spec
<1>1. FileInit => Init
  BY DEF FileInit
<1>2. [FileNext]_allVars => [Next]_vars
  <2>1. ASSUME FileNext PROVE Next
    BY <2>1 DEF FileNext, Next, Statement, Definition, HeaderLine, TextLine, EndText,
                WholeDocstring, OpenDocstring, OpenString, EndOfSource, Kinds, Matches
  <2>2. UNCHANGED allVars => UNCHANGED vars
    BY DEF allVars
  <2> QED
    BY <2>1, <2>2
<1> QED
  BY <1>1, <1>2, PTL DEF FileSpec, Spec

\* In particular for the files Python accepts.
THEOREM FilesReadOnce == FileSpec => []NothingLostOrRepeated
<1> QED
  BY FilesAreLines, ReadOnce, PTL

\* Nor does the filter reorder such a file but for its headers.
THEOREM FilesKeepOrder == FileSpec => []OnlyHeadersMove
<1> QED
  BY FilesAreLines, KeepsOrder, PTL

-----------------------------------------------------------------------------
(* Files as Python allows them.  *)

\* The rule a line of this kind takes in the state s.
First(s, kind, rule) ==
    \E i \in DOMAIN transitions[s] :
        /\ rule = transitions[s][i] /\ Meets(kind, rule)
        /\ \A j \in 1 .. i - 1 : ~Meets(kind, transitions[s][j])

Takes(rule, to, callback) == rule.to = to /\ rule.callback = callback

\* What a line does before the first statement.
LEMMA FileheadChoice ==
  ASSUME NEW kind \in Kinds, NEW rule, First("FILEHEAD", kind, rule)
  PROVE  /\ kind \in {"blank", "hash", "import"} => Takes(rule, "FILEHEAD", "appendFileheadLine")
         /\ kind \in {"code", "block"} => Takes(rule, "DEFCLASS_BODY", "appendFileheadLine")
         /\ kind \in {"def", "defmid"} => Takes(rule, "DEFCLASS", "resetCommentSearch")
         /\ kind = "defopen" => Takes(rule, "DEFCLASS_MULTI", "resetCommentSearch")
         /\ kind \in {"single", "double"} => Takes(rule, "FILEHEAD", "appendCommentLine")
         /\ kind \in {"opensgl", "baresgl"} =>
              Takes(rule, "FILEHEAD_COMMENT_SINGLE", "appendCommentLine")
         /\ kind \in {"opendbl", "baredbl"} =>
              Takes(rule, "FILEHEAD_COMMENT_DOUBLE", "appendCommentLine")
  BY DEF First, Takes, transitions, Rule, Meets, Matches, Kinds

\* What a line does in a module's docstring.
LEMMA FileheadCommentChoice ==
  ASSUME NEW kind \in Kinds, NEW rule
  PROVE  /\ First("FILEHEAD_COMMENT_SINGLE", kind, rule) =>
              Takes(rule, IF kind \in {"single", "endsgl", "baresgl"} THEN "FILEHEAD"
                          ELSE "FILEHEAD_COMMENT_SINGLE", "appendCommentLine")
         /\ First("FILEHEAD_COMMENT_DOUBLE", kind, rule) =>
              Takes(rule, IF kind \in {"double", "enddbl", "baredbl"} THEN "FILEHEAD"
                          ELSE "FILEHEAD_COMMENT_DOUBLE", "appendCommentLine")
  BY DEF First, Takes, transitions, Rule, InComment, Meets, Matches, Kinds

\* What a line does in a definition's docstring.
LEMMA CommentChoice ==
  ASSUME NEW kind \in Kinds, NEW rule
  PROVE  /\ First("COMMENT_SINGLE", kind, rule) =>
              Takes(rule, IF kind \in {"single", "endsgl", "baresgl"} THEN "DEFCLASS_BODY"
                          ELSE "COMMENT_SINGLE", "appendCommentLine")
         /\ First("COMMENT_DOUBLE", kind, rule) =>
              Takes(rule, IF kind \in {"double", "enddbl", "baredbl"} THEN "DEFCLASS_BODY"
                          ELSE "COMMENT_DOUBLE", "appendCommentLine")
  BY DEF First, Takes, transitions, Rule, InComment, Meets, Matches, Kinds

\* What a line does between a header and its body.
LEMMA DefclassChoice ==
  ASSUME NEW kind \in Kinds, NEW rule, First("DEFCLASS", kind, rule)
  PROVE  /\ kind = "blank" => Takes(rule, "DEFCLASS", "appendDefclassLine")
         /\ kind \in {"hash", "import", "code", "block", "endsgl", "enddbl"} =>
              Takes(rule, "DEFCLASS_BODY", "stopCommentSearch")
         /\ kind \in {"def", "defmid"} => Takes(rule, "DEFCLASS", "resetCommentSearch")
         /\ kind = "defopen" => Takes(rule, "DEFCLASS_MULTI", "resetCommentSearch")
         /\ kind \in {"single", "double"} => Takes(rule, "DEFCLASS_BODY", "appendCommentLine")
         /\ kind \in {"opensgl", "baresgl"} => Takes(rule, "COMMENT_SINGLE", "appendCommentLine")
         /\ kind \in {"opendbl", "baredbl"} => Takes(rule, "COMMENT_DOUBLE", "appendCommentLine")
  BY DEF First, Takes, transitions, Rule, Meets, Matches, Kinds

\* What a line does in a body.
LEMMA BodyChoice ==
  ASSUME NEW kind \in Kinds, NEW rule, First("DEFCLASS_BODY", kind, rule)
  PROVE  /\ kind \in {"def", "defmid"} => Takes(rule, "DEFCLASS", "startCommentSearch")
         /\ kind = "defopen" => Takes(rule, "DEFCLASS_MULTI", "startCommentSearch")
         /\ kind \notin {"def", "defmid", "defopen"} => Takes(rule, "DEFCLASS_BODY", "appendNormalLine")
  BY DEF First, Takes, transitions, Rule, Meets, Matches, Kinds

\* What a line does in a header of several lines.
LEMMA MultiChoice ==
  ASSUME NEW kind \in Kinds, NEW rule, First("DEFCLASS_MULTI", kind, rule)
  PROVE  Takes(rule, IF kind \in {"block", "def"} THEN "DEFCLASS" ELSE "DEFCLASS_MULTI",
               "appendDefclassLine")
  BY DEF First, Takes, transitions, Rule, Meets, Matches, Kinds

-----------------------------------------------------------------------------
(* What the filter knows of a file it tells rightly.  *)

Run(a, b) == [i \in 1 .. b - a + 1 |-> a + i - 1]

FileheadState == [sgl |-> "FILEHEAD_COMMENT_SINGLE", dbl |-> "FILEHEAD_COMMENT_DOUBLE"]
CommentState == [sgl |-> "COMMENT_SINGLE", dbl |-> "COMMENT_DOUBLE"]

AtHead == current_state = "FILEHEAD" /\ comment = <<>> /\ first = 0

\* Only the docstring of the module can still be open there.
AtBody ==
    /\ current_state \in {"FILEHEAD", "DEFCLASS", "DEFCLASS_BODY"}
    /\ current_state = "FILEHEAD" =>
         \/ comment = <<>>
         \/ \E d \in docs : d.header = 0 /\ d.to = lines /\ d.from \in 1 .. lines
                            /\ comment = Run(d.from, d.to)

Searching(state) ==
    /\ first \in 1 .. lines /\ under = first
    /\ current_state = state /\ defclass = Run(first, lines)

AtFresh ==
    \/ Searching("DEFCLASS")
    \/ first # 0 /\ under # first /\ current_state = "DEFCLASS_BODY"

AtText ==
    \/ docstring = 0 /\ current_state = "DEFCLASS_BODY"
    \/ /\ docstring \in 1 .. lines /\ first = 0
       /\ current_state = FileheadState[quote] /\ comment = Run(docstring, lines)
    \/ /\ docstring \in 1 .. lines /\ first \in 1 .. docstring - 1 /\ under = first
       /\ current_state = CommentState[quote]
       /\ defclass = Run(first, docstring - 1) /\ comment = Run(docstring, lines)
    \/ docstring # 0 /\ first # 0 /\ under # first /\ current_state = "DEFCLASS_BODY"

ToldRightly == plain =>
    /\ place = "head" => AtHead
    /\ place = "body" => AtBody
    /\ place = "header" => Searching("DEFCLASS_MULTI")
    /\ place = "fresh" => AtFresh
    /\ place = "text" => AtText
    /\ ended => place \in {"head", "body"}

Typed ==
    /\ place \in {"head", "body", "header", "fresh", "text"} /\ quote \in Quotes
    /\ first \in Nat /\ docstring \in Nat /\ plain \in BOOLEAN
    /\ \A d \in docs : d.from \in Nat /\ d.to \in Nat /\ d.header \in Nat

FInv ==
    /\ IInv
    /\ Typed
    /\ ToldRightly
    /\ DocstringsPrecedeTheirHeaders

\* Successive lines, and one more.
LEMMA RunFields ==
  ASSUME NEW a \in Nat, NEW b \in Nat, a <= b + 1
  PROVE  /\ Run(a, b) \in Seq(Nat) /\ Len(Run(a, b)) = b - a + 1
         /\ Append(Run(a, b), b + 1) = Run(a, b + 1)
<1>1. PICK n \in Nat, m \in Nat : n = b - a + 1 /\ m = n + 1
  OBVIOUS
<1>2. PICK r : r = [i \in 1 .. n |-> a + i - 1]
  OBVIOUS
<1>3. r \in Seq(Nat) /\ Len(r) = n /\ \A i \in 1 .. n : r[i] = a + i - 1
  BY <1>2
<1>4. PICK s : s = Append(r, b + 1)
  OBVIOUS
<1>5. /\ s \in Seq(Nat) /\ Len(s) = m /\ s[m] = b + 1
      /\ \A i \in 1 .. n : s[i] = r[i]
  BY <1>1, <1>3, <1>4, AppendProperties
<1>6. ASSUME NEW i \in 1 .. m PROVE s[i] = a + i - 1
  <2>1. CASE i = m
    BY <1>1, <1>5, <2>1
  <2>2. CASE i # m
    <3>1. i \in 1 .. n
      BY <1>1, <2>2
    <3> QED
      BY <1>3, <1>5, <3>1
  <2> QED
    BY <2>1, <2>2
<1>7. s = [i \in 1 .. m |-> a + i - 1]
  <2>1. s = [i \in 1 .. m |-> s[i]]
    BY <1>5
  <2> QED
    BY <1>6, <2>1
<1>8. Run(a, b) = r /\ Run(a, b + 1) = [i \in 1 .. m |-> a + i - 1]
  BY <1>1, <1>2 DEF Run
<1> QED
  BY <1>1, <1>3, <1>4, <1>7, <1>8

\* A single line is a run.
LEMMA RunOne ==
  ASSUME NEW a \in Nat
  PROVE  <<a>> = Run(a, a) /\ Append(<<>>, a) = Run(a, a)
<1>1. Run(a, a) = [i \in 1 .. 1 |-> a + i - 1]
  BY DEF Run
<1>2. PICK t : t = <<a>>
  OBVIOUS
<1>3. t = [i \in 1 .. 1 |-> a + i - 1]
  <2>1. t = [i \in 1 .. 1 |-> t[i]] /\ t[1] = a
    BY <1>2
  <2> QED
    BY <2>1
<1>4. Append(<<>>, a) = <<a>>
  OBVIOUS
<1> QED
  BY <1>1, <1>2, <1>3, <1>4

\* A line is read by the first rule it meets.
LEMMA Reads ==
  ASSUME IInv, NEW kind, parseLine(kind)
  PROVE  /\ ~ended /\ ended' = ended /\ lines' = Now /\ lines \in Nat /\ Now \in Nat
         /\ \E rule : First(current_state, kind, rule) /\ Perform(rule, Now)
  BY DEF IInv, parseLine, Chosen, First, Now

\* The machine still tells the file rightly after a header's first line,
LEMMA DefinitionTold ==
  ASSUME FInv, NEW kind \in Kinds, Definition(kind)
  PROVE  ToldRightly'
<1> SUFFICES ASSUME plain' PROVE ToldRightly'
  BY DEF ToldRightly
<1>1. PICK rule : First(current_state, kind, rule) /\ Perform(rule, Now)
  BY Reads DEF FInv, Definition
<1>2. ~ended' /\ lines' = Now /\ Now \in Nat /\ lines \in Nat /\ Now = lines + 1
  BY Reads DEF FInv, Definition, Now
<1>3. plain /\ current_state \in {"FILEHEAD", "DEFCLASS", "DEFCLASS_BODY"}
  BY DEF FInv, ToldRightly, Definition, AtHead, AtBody, AtFresh, Searching
<1>4. /\ current_state' = IF kind = "defopen" THEN "DEFCLASS_MULTI" ELSE "DEFCLASS"
      /\ defclass' = <<Now>>
  BY <1>1, <1>3, FileheadChoice, DefclassChoice, BodyChoice
     DEF Takes, Perform, Definition, Definitions, startCommentSearch, resetCommentSearch
<1>5. defclass' = Run(Now, Now)
  BY <1>2, <1>4, RunOne
<1>6. /\ first' = Now /\ under' = Now /\ Now \in 1 .. Now
      /\ (place' = "header" /\ kind = "defopen") \/ (place' \in {"fresh", "body"} /\ kind # "defopen")
  <2>1. kind \in {"def", "defmid", "defopen"} /\ first' = Now /\ under' = Now
    BY DEF Definition, Definitions
  <2>2. place' \in CASE kind = "def" -> {"fresh"}
                     [] kind = "defmid" -> {"fresh", "body", "header"}
                     [] kind = "defopen" -> {"header"}
    BY DEF Definition
  <2>3. kind = "def" => place' \in {"fresh"}
    BY <2>2
  <2>4. kind = "defmid" => place' \in {"fresh", "body", "header"} /\ place' # "header"
    BY <2>2 DEF Definition
  <2>5. kind = "defopen" => place' \in {"header"}
    BY <2>2
  <2>6. Now \in 1 .. Now
    BY <1>2
  <2>7. (place' = "header" /\ kind = "defopen") \/ (place' \in {"fresh", "body"} /\ kind # "defopen")
    <3>1. CASE kind = "def"
      BY <2>3, <3>1
    <3>2. CASE kind = "defmid"
      BY <2>4, <3>2
    <3>3. CASE kind = "defopen"
      BY <2>5, <3>3
    <3> QED
      BY <2>1, <3>1, <3>2, <3>3
  <2> QED
    BY <2>1, <2>6, <2>7
<1> QED
  BY <1>2, <1>4, <1>5, <1>6 DEF ToldRightly, AtFresh, AtBody, Searching

\* a statement, blank line or comment,
LEMMA StatementTold ==
  ASSUME FInv, NEW kind \in Kinds, Statement(kind)
  PROVE  ToldRightly'
<1> SUFFICES ASSUME plain' PROVE ToldRightly'
  BY DEF ToldRightly
<1>1. PICK rule : First(current_state, kind, rule) /\ Perform(rule, Now)
  BY Reads DEF FInv, Statement
<1>2. ~ended' /\ lines' = Now /\ Now \in Nat /\ lines \in Nat /\ Now = lines + 1
  BY Reads DEF FInv, Statement, Now
<1>3. /\ plain /\ first' = first /\ first \in Nat
      /\ kind \in {"blank", "hash", "import", "code", "block"}
      /\ place' = IF kind \in {"blank", "hash"} THEN place ELSE "body"
      /\ under' = IF kind = "blank" THEN under ELSE 0
      /\ place \in {"head", "body", "fresh"}
  BY DEF FInv, Typed, Statement
<1>4. CASE current_state = "FILEHEAD"
  <2>1. /\ current_state' = IF kind \in {"code", "block"} THEN "DEFCLASS_BODY" ELSE "FILEHEAD"
        /\ comment' = <<>>
    BY <1>1, <1>3, <1>4, FileheadChoice DEF Takes, Perform, appendFileheadLine
  <2>2. place # "fresh" /\ (place = "head" => first = 0)
    BY <1>3, <1>4 DEF FInv, ToldRightly, AtHead, AtFresh, Searching
  <2> QED
    BY <1>2, <1>3, <2>1, <2>2 DEF ToldRightly, AtHead, AtBody
<1>5. CASE current_state = "DEFCLASS_BODY"
  <2>1. current_state' = "DEFCLASS_BODY"
    BY <1>1, <1>3, <1>5, BodyChoice DEF Takes, Perform
  <2>2. place # "head" /\ (place = "fresh" => first # 0 /\ under # first)
    BY <1>3, <1>5 DEF FInv, ToldRightly, AtHead, AtFresh, Searching
  <2> QED
    BY <1>2, <1>3, <2>1, <2>2 DEF ToldRightly, AtFresh, AtBody
<1>6. CASE current_state = "DEFCLASS"
  <2>1. place # "head" /\ (place = "fresh" => Searching("DEFCLASS"))
    BY <1>3, <1>6 DEF FInv, ToldRightly, AtHead, AtFresh
  <2>2. CASE kind = "blank"
    <3>1. current_state' = "DEFCLASS" /\ defclass' = Append(defclass, Now)
      BY <1>1, <1>6, <2>2, DefclassChoice DEF Takes, Perform, appendDefclassLine
    <3>2. CASE place = "fresh"
      <4>1. first \in 1 .. lines /\ under = first /\ defclass = Run(first, lines)
        BY <2>1, <3>2 DEF Searching
      <4>2. defclass' = Run(first, Now)
        <5>1. first \in Nat /\ first <= lines + 1
          BY <1>2, <4>1
        <5> QED
          BY <1>2, <3>1, <4>1, <5>1, RunFields
      <4>3. first' \in 1 .. lines' /\ under' = first'
        BY <1>2, <1>3, <2>2, <4>1
      <4>4. AtFresh'
        BY <1>2, <1>3, <3>1, <4>2, <4>3 DEF AtFresh, Searching
      <4> QED
        BY <1>2, <1>3, <2>2, <3>2, <4>4 DEF ToldRightly
    <3>3. CASE place = "body"
      BY <1>2, <1>3, <2>2, <3>1, <3>3 DEF ToldRightly, AtBody
    <3> QED
      BY <1>3, <2>1, <3>2, <3>3
  <2>3. CASE kind # "blank"
    <3>1. current_state' = "DEFCLASS_BODY"
      BY <1>1, <1>3, <1>6, <2>3, DefclassChoice DEF Takes, Perform
    <3>2. place = "fresh" => first # 0
      BY <2>1 DEF Searching
    <3> QED
      BY <1>2, <1>3, <2>1, <2>3, <3>1, <3>2 DEF ToldRightly, AtFresh, AtBody
  <2> QED
    BY <2>2, <2>3
<1> QED
  BY <1>3, <1>4, <1>5, <1>6 DEF FInv, ToldRightly, AtHead, AtBody, AtFresh, Searching

\* a statement that leaves a string open,
LEMMA OpenStringTold ==
  ASSUME FInv, OpenString
  PROVE  ToldRightly'
<1> SUFFICES ASSUME plain' PROVE ToldRightly'
  BY DEF ToldRightly
<1>1. "code" \in Kinds
  BY DEF Kinds, Matches
<1>2. PICK rule : First(current_state, "code", rule) /\ Perform(rule, Now)
  BY Reads DEF FInv, OpenString
<1>3. ~ended' /\ plain /\ current_state \in {"FILEHEAD", "DEFCLASS", "DEFCLASS_BODY"}
  BY Reads DEF FInv, ToldRightly, OpenString, AtBody
<1>4. current_state' = "DEFCLASS_BODY"
  BY <1>1, <1>2, <1>3, FileheadChoice, DefclassChoice, BodyChoice DEF Takes, Perform
<1> QED
  BY <1>3, <1>4 DEF ToldRightly, OpenString, AtText

\* a header's further lines,
LEMMA HeaderLineTold ==
  ASSUME FInv, NEW kind \in Kinds, HeaderLine(kind)
  PROVE  ToldRightly'
<1> SUFFICES ASSUME plain' PROVE ToldRightly'
  BY DEF ToldRightly
<1>1. PICK rule : First(current_state, kind, rule) /\ Perform(rule, Now)
  BY Reads DEF FInv, HeaderLine
<1>2. ~ended' /\ lines' = Now /\ Now \in Nat /\ lines \in Nat /\ Now = lines + 1
  BY Reads DEF FInv, HeaderLine, Now
<1>3. Searching("DEFCLASS_MULTI")
  BY DEF FInv, ToldRightly, HeaderLine
<1>4. /\ current_state' = IF kind = "block" THEN "DEFCLASS" ELSE "DEFCLASS_MULTI"
      /\ defclass' = Append(defclass, Now)
  BY <1>1, <1>3, MultiChoice DEF Takes, Perform, HeaderLine, appendDefclassLine, Searching
<1>5. first \in 1 .. lines /\ under = first /\ defclass = Run(first, lines)
  BY <1>3 DEF Searching
<1>6. defclass' = Run(first, Now)
  <2>1. first \in Nat /\ first <= lines + 1
    BY <1>2, <1>5
  <2> QED
    BY <1>2, <1>4, <1>5, <2>1, RunFields
<1>7. /\ place' = (IF kind = "block" THEN "fresh" ELSE "header")
      /\ first' = first /\ under' = under /\ first \in 1 .. Now
  <2>1. kind \in {"blank", "hash", "code", "block"} /\ first' = first /\ under' = under
    BY DEF HeaderLine
  <2>2. place' \in CASE kind = "block" -> {"fresh"}
                     [] kind = "code" -> {"header", "fresh"}
                     [] OTHER -> {"header"}
    BY DEF HeaderLine
  <2>3. kind = "block" => place' \in {"fresh"}
    BY <2>2
  <2>4. kind = "code" => place' \in {"header", "fresh"} /\ place' # "fresh"
    BY <2>2 DEF HeaderLine
  <2>5. kind \in {"blank", "hash"} => place' \in {"header"}
    BY <2>2
  <2>6. first \in 1 .. Now
    BY <1>2, <1>5
  <2> QED
    BY <2>1, <2>3, <2>4, <2>5, <2>6
<1> QED
  BY <1>2, <1>4, <1>5, <1>6, <1>7 DEF ToldRightly, AtFresh, Searching

\* A line taken into the open comment.
LEMMA Commenting ==
  ASSUME NEW rule, rule.callback = "appendCommentLine", Perform(rule, Now)
  PROVE  /\ current_state' = rule.to /\ comment' = Append(comment, Now)
         /\ rule.to # "DEFCLASS_BODY" => defclass' = defclass
  BY DEF Perform, appendCommentLine

\* a docstring in one line,
LEMMA WholeDocstringTold ==
  ASSUME FInv, NEW q \in Quotes, NEW kind \in Kinds, WholeDocstring(q, kind)
  PROVE  ToldRightly'
<1> SUFFICES ASSUME plain' PROVE ToldRightly'
  BY DEF ToldRightly
<1>1. PICK rule : First(current_state, kind, rule) /\ Perform(rule, Now)
  BY Reads DEF FInv, WholeDocstring
<1>2. ~ended' /\ lines' = Now /\ Now \in Nat /\ lines \in Nat /\ Now = lines + 1
  BY Reads DEF FInv, WholeDocstring, Now
<1>3. /\ plain /\ place' = "body" /\ place \in {"head", "fresh"}
      /\ [header |-> first, under |-> under, from |-> Now, to |-> Now] \in docs'
  BY DEF WholeDocstring, Documented
<1>4. kind \in {"single", "double"}
  <2>1. kind = Single[q]
    BY DEF WholeDocstring
  <2> QED
    BY <2>1 DEF Single, Quotes
<1>5. CASE place = "head"
  <2>1. current_state = "FILEHEAD" /\ comment = <<>> /\ first = 0
    BY <1>3, <1>5 DEF FInv, ToldRightly, AtHead
  <2>2. current_state' = "FILEHEAD" /\ comment' = Append(<<>>, Now)
    BY <1>1, <1>4, <2>1, FileheadChoice, Commenting DEF Takes
  <2>3. comment' = Run(Now, Now)
    BY <1>2, <2>2, RunOne
  <2>4. PICK d \in docs' : d.header = 0 /\ d.from = Now /\ d.to = Now
    BY <1>3, <2>1
  <2>5. AtBody'
    BY <1>2, <2>2, <2>3, <2>4 DEF AtBody
  <2> QED
    BY <1>2, <1>3, <2>5 DEF ToldRightly
<1>6. CASE place = "fresh"
  <2>1. current_state \in {"DEFCLASS", "DEFCLASS_BODY"}
    BY <1>3, <1>6 DEF FInv, ToldRightly, AtFresh, Searching
  <2>2. current_state' = "DEFCLASS_BODY"
    BY <1>1, <1>4, <2>1, DefclassChoice, BodyChoice DEF Takes, Perform
  <2> QED
    BY <1>2, <1>3, <2>2 DEF ToldRightly, AtBody
<1> QED
  BY <1>3, <1>5, <1>6

\* a docstring's first line,
LEMMA OpenDocstringTold ==
  ASSUME FInv, NEW q \in Quotes, NEW kind \in Kinds, OpenDocstring(q, kind)
  PROVE  ToldRightly'
<1> SUFFICES ASSUME plain' PROVE ToldRightly'
  BY DEF ToldRightly
<1>1. PICK rule : First(current_state, kind, rule) /\ Perform(rule, Now)
  BY Reads DEF FInv, OpenDocstring
<1>2. ~ended' /\ lines' = Now /\ Now \in Nat /\ lines \in Nat /\ Now = lines + 1
  BY Reads DEF FInv, OpenDocstring, Now
<1>3. /\ plain /\ place' = "text" /\ quote' = q /\ docstring' = Now
      /\ first' = first /\ under' = under /\ place \in {"head", "fresh"}
  BY DEF OpenDocstring
<1>4. \/ q = "sgl" /\ kind \in {"opensgl", "baresgl"}
      \/ q = "dbl" /\ kind \in {"opendbl", "baredbl"}
  BY DEF OpenDocstring, Opens, Bare, Quotes, Single
<1>5. Now \in 1 .. lines'
  BY <1>2
<1>6. CASE place = "head"
  <2>1. current_state = "FILEHEAD" /\ comment = <<>> /\ first = 0
    BY <1>3, <1>6 DEF FInv, ToldRightly, AtHead
  <2>2. current_state' = FileheadState[q] /\ comment' = Append(<<>>, Now)
    BY <1>1, <1>4, <2>1, FileheadChoice, Commenting DEF Takes, FileheadState
  <2>3. comment' = Run(Now, lines')
    BY <1>2, <2>2, RunOne
  <2> QED
    BY <1>2, <1>3, <1>5, <2>1, <2>2, <2>3 DEF ToldRightly, AtText
<1>7. CASE place = "fresh" /\ under = first
  <2>1. Searching("DEFCLASS")
    BY <1>3, <1>7 DEF FInv, ToldRightly, AtFresh
  <2>2. /\ first \in 1 .. lines /\ current_state = "DEFCLASS" /\ defclass = Run(first, lines)
        /\ comment = <<>>
    BY <2>1 DEF Searching, FInv, IInv
  <2>3. /\ current_state' = CommentState[q] /\ CommentState[q] # "DEFCLASS_BODY"
        /\ comment' = Append(<<>>, Now) /\ defclass' = defclass
    BY <1>1, <1>4, <2>2, DefclassChoice, Commenting DEF Takes, CommentState
  <2>4. comment' = Run(Now, lines')
    BY <1>2, <2>3, RunOne
  <2>5. first' \in 1 .. docstring' - 1 /\ lines = docstring' - 1 /\ under' = first'
    BY <1>2, <1>3, <1>7, <2>2
  <2>6. defclass' = Run(first', docstring' - 1)
    BY <1>3, <2>2, <2>3, <2>5
  <2> QED
    BY <1>2, <1>3, <1>5, <2>3, <2>4, <2>5, <2>6 DEF ToldRightly, AtText
<1>8. CASE place = "fresh" /\ under # first
  <2>1. current_state = "DEFCLASS_BODY" /\ first # 0
    BY <1>3, <1>8 DEF FInv, ToldRightly, AtFresh, Searching
  <2>2. current_state' = "DEFCLASS_BODY"
    BY <1>1, <1>4, <2>1, BodyChoice DEF Takes, Perform
  <2>3. docstring' # 0
    BY <1>2, <1>3
  <2> QED
    BY <1>2, <1>3, <1>8, <2>1, <2>2, <2>3 DEF ToldRightly, AtText
<1> QED
  BY <1>3, <1>6, <1>7, <1>8

\* A line of text, its end or not, in each of the states AtText names.
LEMMA TextRead ==
  ASSUME FInv, NEW kind \in Kinds, place = "text", plain, parseLine(kind),
         docstring = 0 => kind \notin Definitions,
         first # 0 /\ under # first => kind \notin Definitions,
         NEW last \in BOOLEAN, docstring # 0 => (last <=> kind \in Ends[quote]),
         kind # Single[quote]
  PROVE  \/ docstring = 0 /\ current_state' = "DEFCLASS_BODY"
         \/ /\ docstring \in 1 .. lines /\ first = 0 /\ comment' = Run(docstring, Now)
            /\ current_state' = IF last THEN "FILEHEAD" ELSE FileheadState[quote]
         \/ /\ docstring \in 1 .. lines /\ first \in 1 .. docstring - 1 /\ under = first
            /\ defclass = Run(first, docstring - 1) /\ comment' = Run(docstring, Now)
            /\ current_state' = (IF last THEN "DEFCLASS_BODY" ELSE CommentState[quote])
            /\ IF last THEN outstream' = Closed(comment') ELSE defclass' = defclass
         \/ docstring # 0 /\ first # 0 /\ under # first /\ current_state' = "DEFCLASS_BODY"
<1>1. PICK rule : First(current_state, kind, rule) /\ Perform(rule, Now)
  BY Reads DEF FInv
<1>2. lines' = Now /\ Now \in Nat /\ lines \in Nat /\ Now = lines + 1
  BY Reads DEF FInv, Now
<1>3. AtText
  BY DEF FInv, ToldRightly
<1>4. CASE current_state = "DEFCLASS_BODY"
  <2>1. \/ docstring = 0
        \/ docstring # 0 /\ first # 0 /\ under # first
    BY <1>3, <1>4 DEF AtText, FileheadState, CommentState, FInv, Typed, Quotes, Single
  <2>2. kind \notin {"def", "defmid", "defopen"}
    BY <2>1 DEF Definitions
  <2>3. current_state' = "DEFCLASS_BODY"
    BY <1>1, <1>4, <2>2, BodyChoice DEF Takes, Perform
  <2> QED
    BY <2>1, <2>3
<1>5. ASSUME docstring # 0
      PROVE  \/ quote = "sgl" /\ (last <=> kind \in {"single", "endsgl", "baresgl"})
             \/ quote = "dbl" /\ (last <=> kind \in {"double", "enddbl", "baredbl"})
  BY <1>5 DEF FInv, Typed, Quotes, Single, Ends
<1>6. ASSUME docstring \in 1 .. lines, comment = Run(docstring, lines),
             comment' = Append(comment, Now)
      PROVE  comment' = Run(docstring, Now)
  <2>1. docstring \in Nat /\ docstring <= lines + 1
    BY <1>2, <1>6
  <2> QED
    BY <1>2, <1>6, <2>1, RunFields
<1>7. CASE /\ docstring \in 1 .. lines /\ first = 0
           /\ current_state = FileheadState[quote] /\ comment = Run(docstring, lines)
  <2>1. docstring # 0
    BY <1>7
  <2>2. /\ comment' = Append(comment, Now)
        /\ current_state' = IF last THEN "FILEHEAD" ELSE FileheadState[quote]
    <3>1. CASE quote = "sgl"
      <4>1. current_state = "FILEHEAD_COMMENT_SINGLE"
        BY <1>7, <3>1 DEF FileheadState
      <4> QED
        BY <1>1, <1>5, <2>1, <3>1, <4>1, FileheadCommentChoice, Commenting
           DEF Takes, FileheadState
    <3>2. CASE quote = "dbl"
      <4>1. current_state = "FILEHEAD_COMMENT_DOUBLE"
        BY <1>7, <3>2 DEF FileheadState
      <4> QED
        BY <1>1, <1>5, <2>1, <3>2, <4>1, FileheadCommentChoice, Commenting
           DEF Takes, FileheadState
    <3> QED
      BY <1>5, <2>1, <3>1, <3>2
  <2> QED
    BY <1>6, <1>7, <2>2
<1>8. CASE /\ docstring \in 1 .. lines /\ first \in 1 .. docstring - 1 /\ under = first
           /\ current_state = CommentState[quote]
           /\ defclass = Run(first, docstring - 1) /\ comment = Run(docstring, lines)
  <2>1. docstring # 0
    BY <1>8
  <2>2. /\ rule.callback = "appendCommentLine"
        /\ rule.to = IF last THEN "DEFCLASS_BODY" ELSE CommentState[quote]
    <3>1. CASE quote = "sgl"
      <4>1. current_state = "COMMENT_SINGLE"
        BY <1>8, <3>1 DEF CommentState
      <4> QED
        BY <1>1, <1>5, <2>1, <3>1, <4>1, CommentChoice DEF Takes, CommentState
    <3>2. CASE quote = "dbl"
      <4>1. current_state = "COMMENT_DOUBLE"
        BY <1>8, <3>2 DEF CommentState
      <4> QED
        BY <1>1, <1>5, <2>1, <3>2, <4>1, CommentChoice DEF Takes, CommentState
    <3> QED
      BY <1>5, <2>1, <3>1, <3>2
  <2>3. current_state' = rule.to /\ appendCommentLine(Now, rule.to)
    BY <1>1, <2>2 DEF Perform
  <2>4. CommentState[quote] # "DEFCLASS_BODY"
    BY DEF CommentState, FInv, Typed, Quotes, Single
  <2>5. /\ comment' = Append(comment, Now)
        /\ IF last THEN outstream' = Closed(comment') ELSE defclass' = defclass
    BY <2>2, <2>3, <2>4 DEF appendCommentLine
  <2> QED
    BY <1>6, <1>8, <2>2, <2>3, <2>5
<1> QED
  BY <1>3, <1>4, <1>7, <1>8 DEF AtText

\* a line of text,
LEMMA TextLineTold ==
  ASSUME FInv, NEW kind \in Kinds, TextLine(kind)
  PROVE  ToldRightly'
<1> SUFFICES ASSUME plain' PROVE ToldRightly'
  BY DEF ToldRightly
<1>1. ~ended' /\ lines' = Now /\ Now \in Nat /\ lines \in Nat /\ Now = lines + 1
  BY Reads DEF FInv, TextLine, Now
<1>2. /\ plain /\ place = "text" /\ place' = "text" /\ parseLine(kind) /\ quote' = quote
      /\ first' = first /\ under' = under /\ docstring' = docstring
      /\ kind \notin Ends[quote] /\ kind # Single[quote]
      /\ kind \in Definitions => docstring # 0 /\ (first = 0 \/ under = first)
  BY DEF TextLine
<1>3. \/ docstring = 0 /\ current_state' = "DEFCLASS_BODY"
      \/ /\ docstring \in 1 .. lines /\ first = 0 /\ comment' = Run(docstring, Now)
         /\ current_state' = FileheadState[quote]
      \/ /\ docstring \in 1 .. lines /\ first \in 1 .. docstring - 1 /\ under = first
         /\ defclass = Run(first, docstring - 1) /\ comment' = Run(docstring, Now)
         /\ current_state' = CommentState[quote] /\ defclass' = defclass
      \/ docstring # 0 /\ first # 0 /\ under # first /\ current_state' = "DEFCLASS_BODY"
  <2>1. PICK last \in BOOLEAN : last = FALSE
    OBVIOUS
  <2> QED
    BY <1>2, <2>1, TextRead
<1>4. docstring \in 1 .. lines => docstring' \in 1 .. lines'
  BY <1>1, <1>2
<1>5. AtText'
  BY <1>1, <1>2, <1>3, <1>4 DEF AtText
<1> QED
  BY <1>1, <1>2, <1>5 DEF ToldRightly

\* the last line of a text,
LEMMA EndTextTold ==
  ASSUME FInv, NEW kind \in Kinds, EndText(kind)
  PROVE  ToldRightly'
<1> SUFFICES ASSUME plain' PROVE ToldRightly'
  BY DEF ToldRightly
<1>1. ~ended' /\ lines' = Now /\ Now \in Nat /\ lines \in Nat /\ Now = lines + 1
  BY Reads DEF FInv, EndText, Now
<1>2. /\ plain /\ place = "text" /\ place' = "body" /\ parseLine(kind)
      /\ docstring # 0 =>
           /\ kind \in Ends[quote]
           /\ [header |-> first, under |-> under, from |-> docstring, to |-> Now] \in docs'
      /\ kind \in Ends[quote] \cup {"code"}
  BY DEF EndText, Documented
<1>3. kind # Single[quote] /\ kind \notin Definitions
  BY <1>2 DEF FInv, Typed, Quotes, Single, Ends, Definitions
<1>4. \/ docstring = 0 /\ current_state' = "DEFCLASS_BODY"
      \/ /\ docstring \in 1 .. lines /\ first = 0 /\ comment' = Run(docstring, Now)
         /\ current_state' = "FILEHEAD"
      \/ current_state' = "DEFCLASS_BODY"
  <2>1. PICK last \in BOOLEAN : last = TRUE
    OBVIOUS
  <2> QED
    BY <1>2, <1>3, <2>1, TextRead
<1>5. CASE current_state' = "DEFCLASS_BODY"
  BY <1>1, <1>2, <1>5 DEF ToldRightly, AtBody
<1>6. CASE /\ docstring \in 1 .. lines /\ first = 0 /\ comment' = Run(docstring, Now)
           /\ current_state' = "FILEHEAD"
  <2>1. docstring # 0 /\ docstring \in 1 .. Now
    BY <1>1, <1>6
  <2>2. PICK d \in docs' : d.header = 0 /\ d.from = docstring /\ d.to = Now
    BY <1>2, <1>6, <2>1
  <2>3. AtBody'
    BY <1>1, <1>6, <2>1, <2>2 DEF AtBody
  <2> QED
    BY <1>1, <1>2, <2>3 DEF ToldRightly
<1> QED
  BY <1>4, <1>5, <1>6

\* and the file's end.
LEMMA EndOfSourceTold ==
  ASSUME FInv, EndOfSource
  PROVE  ToldRightly'
  BY DEF FInv, ToldRightly, EndOfSource, EndOfFile, fileVars, AtHead, AtBody, AtFresh, AtText,
         Searching

-----------------------------------------------------------------------------
(* What the filter makes of a docstring.  *)

\* The docstring d and its header, where the property has them.
Gathered(d) == <<[what |-> "##", line |-> d.from]>> \o Lines("doc", d.from, d.to)
                 \o Lines("code", d.header, d.from - 1)

Holds(out, part) == \E i \in DOMAIN out :
    i + Len(part) - 1 <= Len(out) /\ SubSeq(out, i, i + Len(part) - 1) = part

\* A part of the output.
LEMMA PartFields ==
  ASSUME NEW out \in Seq(Entry), NEW i \in Nat \ {0}, NEW l \in Nat, i + l - 1 <= Len(out)
  PROVE  SubSeq(out, i, i + l - 1) = [j \in 1 .. l |-> out[i + j - 1]]
<1>1. PICK o \in Nat, n \in Nat : o = Len(out) /\ n = i + l - 1 /\ n <= o
  BY LenProperties
<1>2. \A j \in i .. n : out[j] \in Entry
  BY <1>1
<1>3. PICK s : s = SubSeq(out, i, n)
  OBVIOUS
<1>4. /\ s \in Seq(Entry) /\ Len(s) = IF i <= n THEN n - i + 1 ELSE 0
      /\ \A j \in 1 .. n - i + 1 : s[j] = out[i + j - 1]
  <2>1. i \in Int /\ n \in Int
    OBVIOUS
  <2> QED
    BY <1>2, <1>3, <2>1, SubSeqProperties
<1>5. Len(s) = l /\ \A j \in 1 .. l : s[j] = out[i + j - 1]
  BY <1>1, <1>4
<1>6. s = [j \in 1 .. l |-> s[j]]
  BY <1>4, <1>5
<1> QED
  BY <1>1, <1>3, <1>5, <1>6

\* What is written behind a part leaves it there.
LEMMA PartStays ==
  ASSUME NEW out \in Seq(Entry), NEW add \in Seq(Entry), NEW part \in Seq(Entry),
         Holds(out, part), NEW new, new = out \o add
  PROVE  Holds(new, part)
<1>1. PICK i \in DOMAIN out :
        i + Len(part) - 1 <= Len(out) /\ SubSeq(out, i, i + Len(part) - 1) = part
  BY DEF Holds
<1>2. PICK l \in Nat, o \in Nat, n \in Nat :
        l = Len(part) /\ o = Len(out) /\ n = Len(new) /\ n >= o
  BY LenProperties, Joining
<1>3. /\ new \in Seq(Entry) /\ DOMAIN out = 1 .. o /\ DOMAIN new = 1 .. n
      /\ \A j \in 1 .. o : new[j] = out[j]
  BY <1>2, Joining, LenProperties
<1>4. i \in Nat \ {0} /\ i \in 1 .. o /\ i + l - 1 <= o /\ i + l - 1 <= n
  BY <1>1, <1>2, <1>3
<1>5. SubSeq(out, i, i + l - 1) = [j \in 1 .. l |-> out[i + j - 1]]
  BY <1>2, <1>4, PartFields
<1>6. SubSeq(new, i, i + l - 1) = [j \in 1 .. l |-> new[i + j - 1]]
  BY <1>2, <1>3, <1>4, PartFields
<1>7. ASSUME NEW j \in 1 .. l PROVE new[i + j - 1] = out[i + j - 1]
  <2>1. i + j - 1 \in 1 .. o
    BY <1>4
  <2> QED
    BY <1>3, <2>1
<1>8. SubSeq(new, i, i + l - 1) = part
  BY <1>1, <1>2, <1>5, <1>6, <1>7
<1>9. i \in DOMAIN new
  BY <1>2, <1>3, <1>4
<1> QED
  BY <1>2, <1>4, <1>8, <1>9 DEF Holds

\* And what is written is there.
LEMMA PartAppears ==
  ASSUME NEW out \in Seq(Entry), NEW part \in Seq(Entry), part # <<>>,
         NEW new, new = out \o part
  PROVE  Holds(new, part)
<1>1. PICK l \in Nat, o \in Nat : l = Len(part) /\ o = Len(out) /\ l # 0
  BY LenProperties, EmptySeq
<1>2. /\ new \in Seq(Entry) /\ Len(new) = o + l /\ DOMAIN new = 1 .. o + l
      /\ \A j \in 1 .. l : new[o + j] = part[j]
  BY <1>1, Joining
<1>3. PICK i \in Nat \ {0} : i = o + 1
  OBVIOUS
<1>4. i + l - 1 <= Len(new) /\ i \in DOMAIN new
  BY <1>1, <1>2, <1>3
<1>5. SubSeq(new, i, i + l - 1) = [j \in 1 .. l |-> new[i + j - 1]]
  BY <1>2, <1>4, PartFields
<1>6. ASSUME NEW j \in 1 .. l PROVE new[i + j - 1] = part[j]
  <2>1. i + j - 1 = o + j
    BY <1>3
  <2> QED
    BY <1>2, <2>1
<1>7. part = [j \in 1 .. l |-> part[j]]
  BY <1>1
<1>8. SubSeq(new, i, i + l - 1) = part
  BY <1>5, <1>6, <1>7
<1> QED
  BY <1>1, <1>4, <1>8 DEF Holds

\* Lines are entries.
LEMMA LinesEntries ==
  ASSUME NEW what \in {"##", "doc", "code"}, NEW a \in Nat, NEW b \in Int
  PROVE  Lines(what, a, b) \in Seq(Entry)
<1>1. PICK n \in Nat : 1 .. b - a + 1 = 1 .. n
  <2>1. CASE b - a + 1 \in Nat
    BY <2>1
  <2>2. CASE b - a + 1 \notin Nat
    <3>1. 1 .. b - a + 1 = 1 .. 0
      BY <2>2
    <3> QED
      BY <3>1
  <2> QED
    BY <2>1, <2>2
<1>2. PICK s : s = Lines(what, a, b)
  OBVIOUS
<1>3. s = [i \in 1 .. n |-> [what |-> what, line |-> a + i - 1]]
  BY <1>1, <1>2 DEF Lines
<1>4. \A i \in 1 .. n : [what |-> what, line |-> a + i - 1] \in Entry
  BY DEF Entry
<1>5. s \in [1 .. n -> Entry]
  BY <1>3, <1>4
<1> QED
  BY <1>2, <1>5, SeqDef

\* A docstring with its header is a sequence of entries.
LEMMA GatheredEntries ==
  ASSUME NEW d, d.from \in Nat, d.to \in Nat, d.header \in Nat
  PROVE  Gathered(d) \in Seq(Entry)
<1>1. PICK a, b, c : /\ a = <<[what |-> "##", line |-> d.from]>>
                     /\ b = Lines("doc", d.from, d.to)
                     /\ c = Lines("code", d.header, d.from - 1)
  OBVIOUS
<1>2. a \in Seq(Entry)
  BY <1>1 DEF Entry
<1>3. b \in Seq(Entry) /\ c \in Seq(Entry)
  <2>1. d.from \in Nat /\ d.header \in Nat /\ d.to \in Int /\ d.from - 1 \in Int
    OBVIOUS
  <2>2. Lines("doc", d.from, d.to) \in Seq(Entry)
    BY <2>1, LinesEntries
  <2>3. Lines("code", d.header, d.from - 1) \in Seq(Entry)
    BY <2>1, LinesEntries
  <2> QED
    BY <1>1, <2>2, <2>3
<1>4. (a \o b) \o c \in Seq(Entry)
  BY <1>2, <1>3, ConcatProperties
<1> QED
  BY <1>1, <1>4 DEF Gathered

\* Marked lines that follow one another.
LEMMA MarkedRun ==
  ASSUME NEW what, NEW a \in Nat, NEW b \in Nat
  PROVE  Marked(what, Run(a, b)) = Lines(what, a, b)
<1>1. PICK r : r = Run(a, b)
  OBVIOUS
<1>2. DOMAIN r = 1 .. b - a + 1 /\ \A i \in 1 .. b - a + 1 : r[i] = a + i - 1
  BY <1>1 DEF Run
<1>3. Marked(what, r) = [i \in 1 .. b - a + 1 |-> [what |-> what, line |-> r[i]]]
  BY <1>2 DEF Marked
<1> QED
  BY <1>1, <1>2, <1>3 DEF Lines

\* Closing a docstring under its header writes the two as the property says.
LEMMA ClosedHolds ==
  ASSUME outstream \in Seq(Entry), NEW d, d.from \in Nat, d.to \in Nat, d.header \in Nat,
         d.from >= 1, d.from <= d.to, defclass = Run(d.header, d.from - 1),
         NEW c, c = Run(d.from, d.to)
  PROVE  Holds(Closed(c), Gathered(d))
<1>1. PICK f \in Nat, t \in Nat, g \in Nat : f = d.from /\ t = d.to /\ g = f - 1 /\ f <= t
  OBVIOUS
<1>2. c # <<>> /\ c[1] = f
  <2>1. c = [i \in 1 .. t - f + 1 |-> f + i - 1]
    BY <1>1 DEF Run
  <2>2. 1 \in 1 .. t - f + 1 /\ f + 1 - 1 = f
    BY <1>1
  <2>3. 1 \in DOMAIN c /\ c[1] = f
    BY <2>1, <2>2
  <2> QED
    BY <2>3
<1>3. PICK a, b, h : /\ a = <<[what |-> "##", line |-> f]>>
                     /\ b = Lines("doc", f, t) /\ h = Lines("code", d.header, g)
  OBVIOUS
<1>4. a \in Seq(Entry) /\ b \in Seq(Entry) /\ h \in Seq(Entry)
  <2>1. a \in Seq(Entry)
    BY <1>3 DEF Entry
  <2>2. b \in Seq(Entry)
    BY <1>3, LinesEntries
  <2>3. g \in Int
    OBVIOUS
  <2>4. h \in Seq(Entry)
    BY <1>3, <2>3, LinesEntries
  <2> QED
    BY <2>1, <2>2, <2>4
<1>5. makeCommentBlock(c) = a \o b
  BY <1>1, <1>2, <1>3, MarkedRun DEF makeCommentBlock
<1>6. Marked("code", defclass) = h
  BY <1>1, <1>3, MarkedRun
<1>7. Closed(c) = (outstream \o (a \o b)) \o h
  BY <1>5, <1>6 DEF Closed
<1>8. PICK part : part = (a \o b) \o h
  OBVIOUS
<1>9. a \o b \in Seq(Entry) /\ part \in Seq(Entry)
  BY <1>4, <1>8, ConcatProperties
<1>10. Closed(c) = outstream \o part
  BY <1>4, <1>7, <1>8, <1>9, ConcatAssociative
<1>11. part # <<>>
  <2>1. /\ Len(a \o b) = Len(a) + Len(b) /\ Len(part) = Len(a \o b) + Len(h)
    BY <1>4, <1>8, <1>9, ConcatProperties
  <2>2. Len(a) = 1 /\ Len(b) \in Nat /\ Len(h) \in Nat
    BY <1>3, <1>4, LenProperties
  <2>3. Len(part) # 0
    BY <2>1, <2>2
  <2> QED
    BY <2>3
<1>12. Holds(Closed(c), part)
  BY <1>9, <1>10, <1>11, PartAppears
<1>13. part = Gathered(d)
  BY <1>1, <1>3, <1>8 DEF Gathered
<1> QED
  BY <1>12, <1>13

\* Nothing is taken back from the output.
LEMMA Grows ==
  ASSUME IInv, NEW kind \in Kinds, parseLine(kind) \/ EndOfFile
  PROVE  \E add \in Seq(Entry) : outstream' = outstream \o add
<1>1. /\ comment \in Seq(Nat) /\ defclass \in Seq(Nat) /\ outstream \in Seq(Entry)
      /\ lines + 1 \in Nat
  BY DEF IInv
<1>2. ASSUME NEW c \in Seq(Nat)
      PROVE  \E add \in Seq(Entry) : Closed(c) = outstream \o add
  <2>1. PICK b : b = makeCommentBlock(c)
    OBVIOUS
  <2>2. b \in Seq(Entry)
    <3>1. CASE c = <<>>
      BY <2>1, <3>1 DEF makeCommentBlock
    <3>2. CASE c # <<>>
      <4>1. PICK a, m : a = <<[what |-> "##", line |-> c[1]]>> /\ m = Marked("doc", c)
        OBVIOUS
      <4>2. c[1] \in Nat
        BY <1>2, <3>2, EmptySeq
      <4>3. a \in Seq(Entry)
        BY <4>1, <4>2 DEF Entry
      <4>4. m \in Seq(Entry)
        BY <1>2, <4>1, MarkedEntries
      <4> QED
        BY <2>1, <3>2, <4>1, <4>3, <4>4, ConcatProperties DEF makeCommentBlock
    <3> QED
      BY <3>1, <3>2
  <2>3. PICK h \in Seq(Entry) : h = Marked("code", defclass)
    BY <1>1, MarkedEntries
  <2>4. b \o h \in Seq(Entry) /\ (outstream \o b) \o h = outstream \o (b \o h)
    <3>1. b \o h \in Seq(Entry)
      BY <2>2, <2>3, ConcatProperties
    <3>2. (outstream \o b) \o h = outstream \o (b \o h)
      BY <1>1, <2>2, <2>3, ConcatAssociative
    <3> QED
      BY <3>1, <3>2
  <2> QED
    BY <2>1, <2>3, <2>4 DEF Closed
<1>3. PICK m \in Seq(Entry) : m = Marked("code", <<lines + 1>>)
  <2>1. <<lines + 1>> \in Seq(Nat)
    BY <1>1
  <2> QED
    BY <2>1, MarkedEntries
<1>4. ASSUME NEW out \in Seq(Entry), out = outstream \/ out = Closed(comment)
      PROVE  \E add \in Seq(Entry) : out \o m = outstream \o add
  <2>1. PICK a \in Seq(Entry) : out = outstream \o a
    <3>1. outstream = outstream \o <<>> /\ <<>> \in Seq(Entry)
      BY <1>1, ConcatEmptySeq
    <3> QED
      BY <1>1, <1>2, <1>4, <3>1
  <2>2. a \o m \in Seq(Entry) /\ (outstream \o a) \o m = outstream \o (a \o m)
    BY <1>1, ConcatProperties, ConcatAssociative
  <2> QED
    BY <2>1, <2>2
<1>5. \/ outstream' = outstream \/ outstream' = Closed(comment)
      \/ outstream' = outstream \o m \/ outstream' = Closed(comment) \o m
      \/ comment' \in Seq(Nat) /\ outstream' = Closed(comment')
  <2>1. CASE EndOfFile
    BY <2>1 DEF EndOfFile
  <2>2. CASE parseLine(kind)
    <3>1. PICK rule : Perform(rule, lines + 1)
      BY <2>2 DEF parseLine
    <3>2. comment' \in Seq(Nat)
      BY <2>2, Reading DEF IInv
    <3> QED
      BY <1>3, <3>1, <3>2
         DEF Perform, startCommentSearch, resetCommentSearch, stopCommentSearch,
             appendFileheadLine, appendCommentLine, appendNormalLine, appendDefclassLine
  <2> QED
    BY <2>1, <2>2
<1>6. outstream = outstream \o <<>> /\ <<>> \in Seq(Entry)
  BY <1>1, ConcatEmptySeq
<1>7. Closed(comment) \in Seq(Entry)
  BY <1>1, <1>2, ConcatProperties
<1> QED
  BY <1>1, <1>2, <1>4, <1>5, <1>6, <1>7

\* Every docstring read under its header is in the output, behind the others.
LEMMA DocstringsHeld ==
  ASSUME FInv, FileNext, Typed'
  PROVE  DocstringsPrecedeTheirHeaders'
<1> SUFFICES ASSUME plain', NEW d \in docs', d.header # 0, d.under = d.header
             PROVE  Holds(outstream', Gathered(d))
  BY DEF DocstringsPrecedeTheirHeaders, Holds, Gathered
<1>1. d.from \in Nat /\ d.to \in Nat /\ d.header \in Nat /\ Gathered(d) \in Seq(Entry)
  BY GatheredEntries DEF Typed
<1>2. PICK add \in Seq(Entry) : outstream' = outstream \o add
  <2>1. \E kind \in Kinds : parseLine(kind) \/ EndOfFile
    <3>1. CASE EndOfSource
      BY <3>1 DEF EndOfSource, Kinds, Matches
    <3>2. CASE OpenString
      <4>1. "code" \in Kinds
        BY DEF Kinds, Matches
      <4> QED
        BY <3>2, <4>1 DEF OpenString
    <3> QED
      BY <3>1, <3>2 DEF FileNext, Statement, Definition, HeaderLine, TextLine, EndText,
                        WholeDocstring, OpenDocstring
  <2> QED
    BY <2>1, Grows DEF FInv
<1>3. outstream \in Seq(Entry) /\ lines \in Nat /\ Now = lines + 1
  BY DEF FInv, IInv, Now
<1>4. CASE d \in docs
  <2>1. plain
    BY DEF FileNext, Statement, OpenString, Definition, HeaderLine, WholeDocstring,
           OpenDocstring, TextLine, EndText, EndOfSource, fileVars
  <2>2. Holds(outstream, Gathered(d))
    BY <1>4, <2>1 DEF FInv, DocstringsPrecedeTheirHeaders, Holds, Gathered
  <2>3. PICK out : out = outstream'
    OBVIOUS
  <2> QED
    BY <1>1, <1>2, <1>3, <2>2, <2>3, PartStays
<1>5. CASE d \notin docs
  <2>1. \/ \E q \in Quotes, kind \in Kinds : WholeDocstring(q, kind)
        \/ \E kind \in Kinds : EndText(kind)
    BY <1>5 DEF FileNext, Statement, OpenString, Definition, HeaderLine, OpenDocstring,
                TextLine, EndOfSource, fileVars
  <2>2. CASE \E q \in Quotes, kind \in Kinds : WholeDocstring(q, kind)
    <3>1. PICK q \in Quotes, kind \in Kinds : WholeDocstring(q, kind)
      BY <2>2
    <3>2. /\ plain /\ kind = Single[q] /\ place \in {"head", "fresh"}
          /\ d = [header |-> first, under |-> under, from |-> Now, to |-> Now]
      BY <1>5, <3>1 DEF WholeDocstring, Documented
    <3>3. kind \in {"single", "double"}
      BY <3>2 DEF Single, Quotes
    <3>4. Searching("DEFCLASS")
      BY <3>2 DEF FInv, ToldRightly, AtHead, AtFresh
    <3>5. /\ first \in 1 .. lines /\ current_state = "DEFCLASS" /\ defclass = Run(first, lines)
          /\ comment = <<>>
      BY <3>4 DEF Searching, FInv, IInv
    <3>6. PICK rule : First(current_state, kind, rule) /\ Perform(rule, Now)
      BY <3>1, Reads DEF FInv, WholeDocstring
    <3>7. appendCommentLine(Now, "DEFCLASS_BODY")
      BY <3>3, <3>5, <3>6, DefclassChoice DEF Takes, Perform
    <3>8. PICK c : c = Run(Now, Now)
      OBVIOUS
    <3>9. comment' = c /\ outstream' = Closed(c)
      <4>1. comment' = Append(<<>>, Now) /\ outstream' = Closed(comment')
        BY <3>5, <3>7 DEF appendCommentLine
      <4>2. Now \in Nat
        BY <1>3
      <4> QED
        BY <3>8, <4>1, <4>2, RunOne
    <3>10. /\ d.from = Now /\ d.to = Now /\ d.header = first /\ d.from >= 1 /\ d.from <= d.to
           /\ d.from - 1 = lines
      BY <1>3, <3>2
    <3> QED
      BY <1>1, <1>3, <3>5, <3>8, <3>9, <3>10, ClosedHolds
  <2>3. CASE \E kind \in Kinds : EndText(kind)
    <3>1. PICK kind \in Kinds : EndText(kind)
      BY <2>3
    <3>2. /\ plain /\ place = "text" /\ parseLine(kind) /\ docstring # 0 /\ kind \in Ends[quote]
          /\ d = [header |-> first, under |-> under, from |-> docstring, to |-> Now]
      BY <1>5, <3>1 DEF EndText, Documented
    <3>3. kind # Single[quote] /\ kind \notin Definitions
      BY <3>2 DEF FInv, Typed, Quotes, Single, Ends, Definitions
    <3>4. /\ docstring \in 1 .. lines /\ first \in 1 .. docstring - 1
          /\ defclass = Run(first, docstring - 1) /\ comment' = Run(docstring, Now)
          /\ outstream' = Closed(comment')
      <4>1. PICK last \in BOOLEAN : last = TRUE
        OBVIOUS
      <4>2. first # 0 /\ under = first
        BY <3>2
      <4> QED
        BY <3>2, <3>3, <4>1, <4>2, TextRead
    <3>5. PICK c : c = Run(docstring, Now) /\ comment' = c /\ outstream' = Closed(c)
      BY <3>4
    <3>6. /\ d.from = docstring /\ d.to = Now /\ d.header = first /\ d.from >= 1
          /\ d.from <= d.to
      BY <1>3, <3>2, <3>4
    <3> QED
      BY <1>1, <1>3, <3>4, <3>5, <3>6, ClosedHolds
  <2> QED
    BY <2>1, <2>2, <2>3
<1> QED
  BY <1>4, <1>5

\* What a step leaves of the types.
LEMMA StepTyped ==
  ASSUME FInv, FileNext
  PROVE  Typed'
<1>1. Typed /\ lines \in Nat /\ Now \in Nat
  BY DEF FInv, IInv, Now
<1>2. CASE OpenString \/ EndOfSource
  BY <1>1, <1>2 DEF Typed, OpenString, EndOfSource, fileVars
<1>3. ASSUME NEW kind \in Kinds, Statement(kind)
      PROVE  Typed'
  BY <1>1, <1>3 DEF Typed, Statement
<1>4. ASSUME NEW kind \in Kinds, Definition(kind)
      PROVE  Typed'
  <2>1. place' \in CASE kind = "def" -> {"fresh"}
                     [] kind = "defmid" -> {"fresh", "body", "header"}
                     [] kind = "defopen" -> {"header"}
    BY <1>4 DEF Definition
  <2>2. kind \in {"def", "defmid", "defopen"}
    BY <1>4 DEF Definition, Definitions
  <2>3. place' \in {"fresh", "body", "header"}
    <3>1. kind = "def" => place' \in {"fresh"}
      BY <2>1
    <3>2. kind = "defmid" => place' \in {"fresh", "body", "header"}
      BY <2>1
    <3>3. kind = "defopen" => place' \in {"header"}
      BY <2>1
    <3> QED
      BY <2>2, <3>1, <3>2, <3>3
  <2>4. quote' = quote /\ first' = Now /\ docstring' = docstring /\ docs' = docs /\ plain' \in BOOLEAN
    BY <1>4 DEF Definition
  <2> QED
    BY <1>1, <2>3, <2>4 DEF Typed
<1>5. ASSUME NEW kind \in Kinds, HeaderLine(kind)
      PROVE  Typed'
  <2>1. place' \in CASE kind = "block" -> {"fresh"}
                     [] kind = "code" -> {"header", "fresh"}
                     [] OTHER -> {"header"}
    BY <1>5 DEF HeaderLine
  <2>2. place' \in {"header", "fresh"}
    <3>1. kind = "block" => place' \in {"fresh"}
      BY <2>1
    <3>2. kind = "code" => place' \in {"header", "fresh"}
      BY <2>1
    <3>3. kind # "block" /\ kind # "code" => place' \in {"header"}
      BY <2>1
    <3> QED
      BY <3>1, <3>2, <3>3
  <2>3. /\ quote' = quote /\ first' = first /\ docstring' = docstring /\ docs' = docs
        /\ plain' \in BOOLEAN
    BY <1>5 DEF HeaderLine
  <2> QED
    BY <1>1, <2>2, <2>3 DEF Typed
<1>6. ASSUME NEW kind \in Kinds, TextLine(kind)
      PROVE  Typed'
  BY <1>1, <1>6 DEF Typed, TextLine
<1>7. ASSUME NEW kind \in Kinds, EndText(kind)
      PROVE  Typed'
  <2>1. \A d \in docs' : d.from \in Nat /\ d.to \in Nat /\ d.header \in Nat
    BY <1>1, <1>7 DEF Typed, EndText, Documented
  <2> QED
    BY <1>1, <1>7, <2>1 DEF Typed, EndText
<1>8. ASSUME NEW kind \in Kinds, NEW q \in Quotes, WholeDocstring(q, kind)
      PROVE  Typed'
  <2>1. \A d \in docs' : d.from \in Nat /\ d.to \in Nat /\ d.header \in Nat
    BY <1>1, <1>8 DEF Typed, WholeDocstring, Documented
  <2> QED
    BY <1>1, <1>8, <2>1 DEF Typed, WholeDocstring
<1>9. ASSUME NEW kind \in Kinds, NEW q \in Quotes, OpenDocstring(q, kind)
      PROVE  Typed'
  BY <1>1, <1>9 DEF Typed, OpenDocstring
<1> QED
  BY <1>2, <1>3, <1>4, <1>5, <1>6, <1>7, <1>8, <1>9 DEF FileNext

\* Every step keeps the invariant.
LEMMA FileStep ==
  ASSUME FInv, [FileNext]_allVars
  PROVE  FInv'
<1>1. CASE FileNext
  <2>1. IInv'
    BY <1>1, Reading, Finishing
       DEF FInv, FileNext, Statement, Definition, HeaderLine, TextLine, EndText, Kinds, Matches,
           WholeDocstring, OpenDocstring, OpenString, EndOfSource
  <2>2. Typed'
    BY <1>1, StepTyped
  <2>3. ToldRightly'
    BY <1>1, StatementTold, DefinitionTold, HeaderLineTold, TextLineTold, EndTextTold,
       WholeDocstringTold, OpenDocstringTold, OpenStringTold, EndOfSourceTold
       DEF FileNext
  <2>4. DocstringsPrecedeTheirHeaders'
    BY <1>1, <2>2, DocstringsHeld
  <2> QED
    BY <2>1, <2>2, <2>3, <2>4 DEF FInv
<1>2. CASE UNCHANGED allVars
  BY <1>2 DEF FInv, IInv, Split, Typed, ToldRightly, DocstringsPrecedeTheirHeaders, allVars, vars,
              fileVars, AtHead, AtBody, AtFresh, AtText, Searching
<1> QED
  BY <1>1, <1>2

\* A file that has ended left at most its module's docstring behind.
LEMMA EndsKept ==
  ASSUME FInv
  PROVE  PlainFilesAreKept
<1> SUFFICES ASSUME ended, plain
             PROVE  \/ Emitted = 1 .. lines
                    \/ \E d \in docs : d.header = 0 /\ d.to = lines /\ Emitted = 1 .. d.from - 1
  BY DEF PlainFilesAreKept
<1>1. PICK n \in 0 .. lines : Split(n)
  BY DEF FInv, IInv
<1>2. Emitted = 1 .. n /\ lines \in Nat /\ n \in Nat /\ n <= lines
  BY <1>1 DEF Split, Emitted, Places, Told, FInv, IInv
<1>3. AtHead \/ AtBody
  BY DEF FInv, ToldRightly
<1>4. CASE current_state \in {"DEFCLASS", "DEFCLASS_BODY"}
  BY <1>1, <1>2, <1>4 DEF Split
<1>5. CASE current_state = "FILEHEAD"
  <2>1. defclass = <<>> /\ n + Len(defclass) + Len(comment) = lines
    BY <1>1, <1>5 DEF Split, FInv, IInv, HeadStates
  <2>2. n + Len(comment) = lines
    <3>1. Len(<<>>) = 0 /\ Len(comment) \in Nat
      BY DEF FInv, IInv
    <3> QED
      BY <1>2, <2>1, <3>1
  <2>3. CASE comment = <<>>
    BY <1>2, <2>2, <2>3
  <2>4. CASE comment # <<>>
    <3>1. PICK d \in docs : /\ d.header = 0 /\ d.to = lines /\ d.from \in 1 .. lines
                            /\ comment = Run(d.from, d.to)
      BY <1>3, <1>5, <2>4 DEF AtHead, AtBody
    <3>2. PICK f \in Nat : f = d.from /\ f \in 1 .. lines
      BY <3>1
    <3>3. Len(Run(f, lines)) = lines - f + 1
      <4>1. f <= lines + 1
        BY <1>2, <3>2
      <4> QED
        BY <1>2, <4>1, RunFields
    <3>4. n = f - 1
      <4>1. comment = Run(f, lines)
        BY <3>1, <3>2
      <4>2. n + (lines - f + 1) = lines
        BY <2>2, <3>3, <4>1
      <4>3. lines \in Int /\ n \in Int /\ f \in Int
        BY <1>2
      <4> QED
        BY <4>2, <4>3
    <3> QED
      BY <1>2, <3>1, <3>2, <3>4
  <2> QED
    BY <2>3, <2>4
<1> QED
  BY <1>3, <1>4, <1>5 DEF AtHead, AtBody

\* The invariant of the machine and the file together.
LEMMA FileInvariance == FileSpec => []FInv
<1>1. FileInit => FInv
  <2> SUFFICES ASSUME FileInit PROVE FInv
    OBVIOUS
  <2>1. IInv
    BY Initially DEF FileInit
  <2>2. current_state = "FILEHEAD" /\ comment = <<>> /\ ~ended
    BY DEF FileInit, Init
  <2>3. ToldRightly
    BY <2>2 DEF FileInit, ToldRightly, AtHead
  <2>4. Typed
    BY DEF FileInit, Typed, Quotes, Single
  <2>5. DocstringsPrecedeTheirHeaders
    BY DEF FileInit, DocstringsPrecedeTheirHeaders
  <2> QED
    BY <2>1, <2>3, <2>4, <2>5 DEF FInv
<1>2. FInv /\ [FileNext]_allVars => FInv'
  BY FileStep
<1> QED
  BY <1>1, <1>2, PTL DEF FileSpec

\* In a file whose lines doxypy.py tells rightly, every docstring that follows
\* its header comes out as one block directly before it.
THEOREM DocstringsPrecede == FileSpec => []DocstringsPrecedeTheirHeaders
<1>1. FInv => DocstringsPrecedeTheirHeaders
  BY DEF FInv
<1> QED
  BY <1>1, FileInvariance, PTL

\* Such a file comes out whole, but for a module's docstring at its end.
THEOREM PlainKept == FileSpec => []PlainFilesAreKept
<1> QED
  BY EndsKept, FileInvariance, PTL
=============================================================================
