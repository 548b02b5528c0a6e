-------------------------------- MODULE Bencode --------------------------------
(***************************************************************************)
(* The values that settings, statistics, resume data and .torrent files    *)
(* are kept in (tr_benc), and their way to a file and back: the walk over  *)
(* a value that writes it as bencoded data or as json, the temporary file  *)
(* that replaces the old one, and the two parsers.                         *)
(*                                                                         *)
(* A value is a node [type, n, kids].  A dictionary's kids are keys and    *)
(* values in turn, as in the code; a real is a number of units, One of     *)
(* which are 1, and is not negative.  A string is a number whose order is  *)
(* strcmp's, and the text of the real r is the string FirstReal + r.  A    *)
(* text is a sequence of tokens [t, n].                                    *)
(***************************************************************************)
EXTENDS Integers, Sequences, SequencesExt

CONSTANTS
  Keys,       \* the strings that are used as keys
  Scalars,    \* the values that are put into dictionaries and lists
  Updates,    \* the dictionaries that are merged into a value
  Incoming,   \* the tokens that may come from outside
  MaxEdits, MaxMerges, MaxIncoming

VARIABLES
  val,     \* the value in memory
  doing,   \* "edit", "walk", "write" or "parse"
  walk,    \* the stack of bencWalk: [val, visited, index, children]
  writer,  \* [fmt, text, parents] of tr_bencToBuf
  temp,    \* how many tokens the temporary file holds
  file,    \* [fmt, text]: what is on the disk
  source,  \* history: the value whose text the file should be
  parser,  \* [fmt, stack, key, want, read] of tr_bencParse, tr_jsonParse
  rest,    \* the text that is still to be read
  count    \* the edits, the merges and the tokens from outside so far

bencVars == <<val, doing, walk, writer, temp, file, source, parser, rest, count>>

Node(type, n, kids) == [type |-> type, n |-> n, kids |-> kids]
IntOf(n)  == Node("int", n, <<>>)
BoolOf(n) == Node("bool", n, <<>>)
RealOf(n) == Node("real", n, <<>>)
StrOf(n)  == Node("str", n, <<>>)
EmptyList == Node("list", 0, <<>>)
EmptyDict == Node("dict", 0, <<>>)
Nothing == Node("nothing", 0, <<>>)
FirstReal == 100
One == 10000000    \* a unit is a tenth of the last digit that %f writes

isContainer(v) == v.type \in {"list", "dict"}
isSomething(v) == isContainer(v) \/ v.type \in {"int", "str", "real", "bool"}

(***************************************************************************)
(* Reading a value: what the getters return, as the set of the results.    *)
(***************************************************************************)
tr_bencGetInt(v) == IF v.type \in {"int", "bool"} THEN {v.n} ELSE {}
tr_bencGetBool(v) ==
  IF v.type = "bool" \/ (v.type = "int" /\ v.n \in {0, 1}) THEN {v.n} ELSE {}
tr_bencGetReal(v) ==
  CASE v.type = "real" -> {v.n}
    [] v.type = "int" -> {One * v.n}
    [] v.type = "str" /\ v.n >= FirstReal -> {v.n - FirstReal}
    [] OTHER -> {}
tr_bencGetStr(v) == IF v.type = "str" THEN {v.n} ELSE {}

\* dictIndexOf: the first pair with the key; 0 when there is none.
Pairs(d) == IF d.type = "dict" THEN {i \in 1..Len(d.kids) - 1 : i % 2 = 1} ELSE {}
dictIndexOf(d, k) ==
  LET found == {i \in Pairs(d) : d.kids[i] = StrOf(k)}
  IN IF found = {} THEN 0 ELSE CHOOSE i \in found : \A j \in found : i <= j
tr_bencDictFind(d, k) ==
  LET i == dictIndexOf(d, k) IN IF i = 0 THEN Nothing ELSE d.kids[i + 1]

(***************************************************************************)
(* Changing a value.                                                       *)
(***************************************************************************)
tr_bencListAdd(l, v) == [l EXCEPT !.kids = Append(@, v)]
tr_bencListRemove(l, i) == [l EXCEPT !.kids = RemoveAt(@, i)]
tr_bencDictAdd(d, k, v) == [d EXCEPT !.kids = @ \o <<StrOf(k), v>>]

\* The last pair takes the place of the one that is removed.
tr_bencDictRemove(d, k) ==
  LET i == dictIndexOf(d, k)
      n == Len(d.kids)
      moved == IF i + 1 < n THEN [d.kids EXCEPT ![i] = d.kids[n - 1], ![i + 1] = d.kids[n]]
                            ELSE d.kids
  IN IF i = 0 THEN d ELSE [d EXCEPT !.kids = SubSeq(moved, 1, n - 2)]

\* dictFindOrAdd and the type's Init: a value of another type is removed first.
DictPut(d, k, v) ==
  LET i == dictIndexOf(d, k)
  IN IF i > 0 /\ d.kids[i + 1].type = v.type THEN [d EXCEPT !.kids[i + 1] = v]
     ELSE tr_bencDictAdd(tr_bencDictRemove(d, k), k, v)

RECURSIVE tr_bencListCopy(_, _), tr_bencMergeDicts(_, _)
tr_bencListCopy(target, src) ==
  LET Copied(list, v) ==
        CASE v.type = "dict" -> tr_bencListAdd(list, tr_bencMergeDicts(EmptyDict, v))
          [] v.type = "list" -> tr_bencListAdd(list, tr_bencListCopy(EmptyList, v))
          [] OTHER -> tr_bencListAdd(list, v)
  IN FoldLeft(Copied, target, src.kids)

\* One pair of the source.  Scalars replace what is there; dictionaries are merged into
\* dictionaries; a list, and a dictionary over something else, are dropped when the key is taken.
MergePair(target, k, v) ==
  LET there == tr_bencDictFind(target, k)
  IN CASE ~isContainer(v) -> DictPut(target, k, v)
       [] v.type = "dict" /\ there.type = "dict" ->
            [target EXCEPT !.kids[dictIndexOf(target, k) + 1] = tr_bencMergeDicts(there, v)]
       [] isContainer(v) /\ there # Nothing -> target
       [] v.type = "list" -> tr_bencDictAdd(target, k, tr_bencListCopy(EmptyList, v))
       [] v.type = "dict" -> tr_bencDictAdd(target, k, tr_bencMergeDicts(EmptyDict, v))
tr_bencMergeDicts(target, src) ==
  LET Merged(t, i) == MergePair(t, src.kids[2 * i - 1].n, src.kids[2 * i])
  IN FoldLeft(Merged, target, [i \in 1..Len(src.kids) \div 2 |-> i])

(***************************************************************************)
(* tr_bencToBuf: the walk, and what its functions add to the text.         *)
(***************************************************************************)
Token(t, n) == [t |-> t, n |-> n]
Mark(t) == Token(t, 0)

\* nodeInitDict sorts the keys, those that are equal in any order.
KidOrders(v) ==
  IF v.type # "dict" THEN {[i \in 1..Len(v.kids) |-> i]}
  ELSE LET n == Len(v.kids) \div 2
           Sorted(p) == \A i, j \in 1..n : i < j => v.kids[2 * p[i] - 1].n <= v.kids[2 * p[j] - 1].n
       IN {[i \in 1..2 * n |-> 2 * p[(i + 1) \div 2] - (i % 2)] :
             p \in {p \in [1..n -> 1..n] : IsInjective(p) /\ Sorted(p)}}
nodeInit(v, order) == [val |-> v, visited |-> FALSE, index |-> 0, children |-> order]

\* saveRealFunc rounds a real to six digits after the point.
saveFuncs(v) ==
  CASE v.type \in {"int", "bool"} -> Token("int", v.n)
    [] v.type = "real" -> Token("str", FirstReal + 10 * ((v.n + 5) \div 10))
    [] OTHER -> Token("str", v.n)

\* jsonChildFunc: what follows a child of the container that is being written.
jsonChildFunc(w) ==
  IF w.parents = <<>> THEN w
  ELSE LET p == Last(w.parents)
           mark == IF p.type = "dict" /\ p.index % 2 = 0 THEN <<Mark(":")>>
                   ELSE IF p.index + 1 < p.count THEN <<Mark(",")>> ELSE <<>>
       IN [w EXCEPT !.parents[Len(w.parents)].index = @ + 1, !.text = @ \o mark]

\* jsonRealFunc writes a real that is nearly whole (by 0.00001) without a point, another one with
\* four digits after it, without the rest.
jsonLeaf(v) ==
  CASE v.type # "real" -> Token(v.type, v.n)
    [] v.type = "real" /\ v.n % One < 100 -> Token("int", v.n \div One)
    [] OTHER -> Token("real", 1000 * (v.n \div 1000))
jsonPushParent(w, v) ==
  [w EXCEPT !.parents = Append(@, [type |-> v.type, index |-> 0, count |-> Len(v.kids)])]

Leaf(w, v) == IF w.fmt = "benc" THEN [w EXCEPT !.text = Append(@, saveFuncs(v))]
              ELSE jsonChildFunc([w EXCEPT !.text = Append(@, jsonLeaf(v))])
ContainerBegin(w, v) ==
  IF w.fmt = "benc" THEN [w EXCEPT !.text = Append(@, Mark(IF v.type = "dict" THEN "d" ELSE "l"))]
  ELSE jsonPushParent([w EXCEPT !.text = Append(@, Mark(IF v.type = "dict" THEN "{" ELSE "["))], v)
ContainerEnd(w, v) ==
  IF w.fmt = "benc" THEN [w EXCEPT !.text = Append(@, Mark("e"))]
  ELSE jsonChildFunc([w EXCEPT !.parents = Front(@),
                               !.text = Append(@, Mark(IF v.type = "dict" THEN "}" ELSE "]"))])

(***************************************************************************)
(* The parsers.  A container that is closed is put into its parent.        *)
(***************************************************************************)
None == [fmt |-> "none", stack |-> <<>>, key |-> Nothing, want |-> "value", read |-> Nothing]
Failed(p) == [p EXCEPT !.want = "error", !.read = Nothing, !.stack = <<>>]

\* getNode: dictionary keys must be strings.
getNode(p, type) ==
  p.stack # <<>> /\ Last(p.stack).type = "dict" /\ type # "str" => Len(Last(p.stack).kids) % 2 = 1

\* A finished value: the result, or a child of the open container.
Put(p, v) == IF p.stack = <<>> THEN [p EXCEPT !.read = v, !.want = "end"]
             ELSE [p EXCEPT !.stack[Len(p.stack)].kids = Append(@, v)]

bencEnd(p) ==
  IF p.stack = <<>> THEN Failed(p)
  ELSE IF Last(p.stack).type = "dict" /\ Len(Last(p.stack).kids) % 2 = 1 THEN Failed(p)
  ELSE Put([p EXCEPT !.stack = Front(@)], Last(p.stack))

\* One round of tr_bencParseImpl; tr_bencParseInt and tr_bencParseStr fail on a "bad" one, and
\* what starts nothing is skipped.
bencToken(p, tok) ==
  CASE tok.t \in {"int", "str"} ->
         IF getNode(p, tok.t) THEN Put(p, Node(tok.t, tok.n, <<>>)) ELSE Failed(p)
    [] tok.t \in {"l", "d"} ->
         LET v == IF tok.t = "l" THEN EmptyList ELSE EmptyDict
         IN IF getNode(p, v.type) THEN [p EXCEPT !.stack = Append(@, v)] ELSE Failed(p)
    [] tok.t = "e" -> bencEnd(p)
    [] tok.t = "bad" -> Failed(p)
    [] OTHER -> p

\* What the json library lets through after what it has read.
jsonslAccepts(p, tok) ==
  CASE p.want = "value" -> tok.t \in {"int", "real", "str", "bool", "{", "["}
    [] p.want = "first" -> tok.t \in {"int", "real", "str", "bool", "{", "[", "]"}
    [] p.want = "key" -> tok.t = "str"
    [] p.want = "firstkey" -> tok.t \in {"str", "}"}
    [] p.want = ":" -> tok.t = ":"
    [] p.want = "next" -> tok.t = "," \/ tok.t = (IF Last(p.stack).type = "dict" THEN "}" ELSE "]")
    [] OTHER -> FALSE

\* get_node of json.c: in a dictionary the key comes from the last HKEY.
jsonNode(p) ==
  IF p.stack # <<>> /\ Last(p.stack).type = "dict"
  THEN [p EXCEPT !.stack[Len(p.stack)].kids = Append(@, p.key), !.key = Nothing] ELSE p
jsonPut(p, v) == LET q == Put(p, v) IN IF q.want = "end" THEN q ELSE [q EXCEPT !.want = "next"]

\* action_callback_PUSH, action_callback_POP
jsonToken(p, tok) ==
  CASE ~jsonslAccepts(p, tok) -> Failed(p)
    [] tok.t = "{" -> [jsonNode(p) EXCEPT !.stack = Append(@, EmptyDict), !.want = "firstkey"]
    [] tok.t = "[" -> [jsonNode(p) EXCEPT !.stack = Append(@, EmptyList), !.want = "first"]
    [] tok.t \in {"}", "]"} -> jsonPut([p EXCEPT !.stack = Front(@)], Last(p.stack))
    [] tok.t = ":" -> [p EXCEPT !.want = "value"]
    [] tok.t = "," -> [p EXCEPT !.want = IF Last(p.stack).type = "dict" THEN "key" ELSE "value"]
    [] p.want \in {"key", "firstkey"} -> [p EXCEPT !.key = StrOf(tok.n), !.want = ":"]
    [] OTHER -> jsonPut(jsonNode(p), Node(tok.t, tok.n, <<>>))

\* What the text's end makes of it: bencoded data must be complete, but the json library does
\* not complain of containers that are still open.
Finished(p) ==
  LET Closed(child, parent) == [parent EXCEPT !.kids = Append(@, child)]
  IN CASE p.stack = <<>> -> p.read
       [] p.fmt = "json" -> FoldLeft(Closed, Last(p.stack), Reverse(Front(p.stack)))
       [] OTHER -> Nothing
ParseToken(p, tok) == IF p.fmt = "benc" THEN bencToken(p, tok) ELSE jsonToken(p, tok)

(***************************************************************************)
(* The actions.                                                            *)
(***************************************************************************)
NoWriter == [fmt |-> "none", text |-> <<>>, parents |-> <<>>]
NoFile == [fmt |-> "none", text |-> <<>>]
Init ==
  /\ val = EmptyDict /\ doing = "edit" /\ walk = <<>> /\ writer = NoWriter /\ temp = 0
  /\ file = NoFile /\ source = Nothing /\ parser = None /\ rest = <<>>
  /\ count = [edits |-> 0, merges |-> 0, tokens |-> 0]

\* The changes of a dictionary: put a scalar, add an empty container, remove a key, add to and
\* remove from a list.
DictChanges(d) ==
     {DictPut(d, k, v) : k \in Keys, v \in Scalars}
  \cup {tr_bencDictAdd(d, k, c) : k \in {k \in Keys : dictIndexOf(d, k) = 0}, c \in {EmptyList, EmptyDict}}
  \cup {tr_bencDictRemove(d, k) : k \in Keys}
  \cup {[d EXCEPT !.kids[i + 1] = tr_bencListAdd(@, v)] :
          i \in {i \in Pairs(d) : d.kids[i + 1].type = "list"}, v \in Scalars}
  \cup {[d EXCEPT !.kids[i + 1] = tr_bencListRemove(@, 1)] :
          i \in {i \in Pairs(d) : d.kids[i + 1].type = "list" /\ d.kids[i + 1].kids # <<>>}}
\* ... of the value itself or of a dictionary in it.
EditsOf(d) ==
  DictChanges(d) \cup UNION {{[d EXCEPT !.kids[i + 1] = c] : c \in DictChanges(d.kids[i + 1])} :
                               i \in {i \in Pairs(d) : d.kids[i + 1].type = "dict"}}

Edit ==
  /\ doing = "edit" /\ val.type = "dict" /\ count.edits < MaxEdits /\ file = NoFile
  /\ val' \in EditsOf(val)
  /\ count' = [count EXCEPT !.edits = @ + 1]
  /\ UNCHANGED <<doing, walk, writer, temp, file, source, parser, rest>>

\* tr_sessionLoadSettings, tr_sessionSaveSettings: other settings go over what is there.
Merge ==
  /\ doing = "edit" /\ val.type = "dict" /\ count.merges < MaxMerges
  /\ \E u \in Updates : val' = tr_bencMergeDicts(val, u)
  /\ count' = [count EXCEPT !.merges = @ + 1]
  /\ UNCHANGED <<doing, walk, writer, temp, file, source, parser, rest>>

\* tr_bencToFile, its first part: tr_bencToBuf begins to walk.
ToBuf ==
  /\ doing = "edit" /\ val.type = "dict" /\ source # val
  /\ \E fmt \in {"benc", "json"}, order \in KidOrders(val) :
       /\ writer' = [NoWriter EXCEPT !.fmt = fmt] /\ walk' = <<nodeInit(val, order)>>
  /\ doing' = "walk"
  /\ UNCHANGED <<val, temp, file, source, parser, rest, count>>

\* One round of bencWalk.
WalkStep ==
  LET top == Last(walk)
      n == Len(walk)
      child == top.val.kids[top.children[top.index + 1]]
  IN /\ doing = "walk" /\ walk # <<>>
     /\ CASE ~top.visited ->
               /\ walk' = [walk EXCEPT ![n].visited = TRUE]
               /\ writer' = ContainerBegin(writer, top.val)
          [] top.visited /\ top.index < Len(top.children) ->
               LET onward == [walk EXCEPT ![n].index = @ + 1]
               IN IF isContainer(child)
                  THEN /\ \E order \in KidOrders(child) : walk' = Append(onward, nodeInit(child, order))
                       /\ UNCHANGED writer
                  ELSE walk' = onward /\ writer' = Leaf(writer, child)
          [] OTHER -> walk' = Front(walk) /\ writer' = ContainerEnd(writer, top.val)
     /\ UNCHANGED <<val, doing, temp, file, source, parser, rest, count>>

WalkEnd ==
  /\ doing = "walk" /\ walk = <<>>
  /\ doing' = "write"
  /\ UNCHANGED <<val, walk, writer, temp, file, source, parser, rest, count>>

\* write takes the rest or a part of it.
Write ==
  /\ doing = "write" /\ temp < Len(writer.text)
  /\ temp' \in {temp + 1, Len(writer.text)}
  /\ UNCHANGED <<val, doing, walk, writer, file, source, parser, rest, count>>

FileSaved(text) ==
  /\ file' = [fmt |-> writer.fmt, text |-> text] /\ source' = val
  /\ doing' = "edit" /\ writer' = NoWriter /\ temp' = 0
  /\ UNCHANGED <<val, walk, parser, rest, count>>
NotSaved ==
  /\ doing' = "edit" /\ writer' = NoWriter /\ temp' = 0 /\ walk' = <<>>
  /\ UNCHANGED <<val, file, source, parser, rest, count>>

Rename == doing = "write" /\ temp = Len(writer.text) /\ FileSaved(writer.text)

\* mkstemp, write or rename fails, or the program ends: the old file stays.
SaveFails == doing = "write" /\ NotSaved

\* tr_bencLoadFile
Load ==
  /\ doing = "edit" /\ file # NoFile
  /\ parser' = [None EXCEPT !.fmt = file.fmt] /\ rest' = file.text /\ doing' = "parse"
  /\ val' = Nothing
  /\ UNCHANGED <<walk, writer, temp, file, source, count>>

\* tr_bencLoad of something from outside.
Receive ==
  /\ doing = "edit" /\ file = NoFile /\ val = EmptyDict /\ count.edits = 0 /\ count.merges = 0
  /\ parser' = [None EXCEPT !.fmt = "benc"]
  /\ doing' = "parse" /\ val' = Nothing /\ rest' = <<>> /\ count' = [count EXCEPT !.tokens = 1]
  /\ UNCHANGED <<walk, writer, temp, file, source>>

ParseStep ==
  /\ doing = "parse" /\ parser.want \notin {"error", "end"}
  /\ \/ /\ rest # <<>>
        /\ parser' = ParseToken(parser, Head(rest)) /\ rest' = Tail(rest) /\ UNCHANGED count
     \/ /\ count.tokens \in 1..MaxIncoming
        /\ \E tok \in Incoming : parser' = ParseToken(parser, tok)
        /\ count' = [count EXCEPT !.tokens = @ + 1] /\ UNCHANGED rest
  /\ UNCHANGED <<val, doing, walk, writer, temp, file, source>>

\* The text ends, or the value does.
ParseEnd ==
  /\ doing = "parse"
  /\ parser.want \in {"error", "end"} \/ rest = <<>>
  /\ val' = Finished(parser)
  /\ doing' = "edit" /\ parser' = None /\ rest' = <<>>
  /\ count' = [count EXCEPT !.edits = MaxEdits, !.tokens = 0]
  /\ UNCHANGED <<walk, writer, temp, file, source>>

Next ==
  \/ Edit \/ Merge \/ ToBuf \/ WalkStep \/ WalkEnd \/ Write \/ Rename \/ SaveFails
  \/ Load \/ Receive \/ ParseStep \/ ParseEnd

(***************************************************************************)
(* Properties.                                                             *)
(***************************************************************************)
RECURSIVE IsWell(_), Unique(_), ReadsAs(_, _, _)
\* A dictionary's kids are keys, which are strings, and values in turn.
IsWell(v) ==
  /\ isSomething(v)
  /\ v.type = "dict" => Len(v.kids) % 2 = 0 /\ \A i \in Pairs(v) : v.kids[i].type = "str"
  /\ \A i \in 1..Len(v.kids) : IsWell(v.kids[i])
\* No key is there twice.
Unique(v) ==
  /\ \A i, j \in Pairs(v) : v.kids[i] = v.kids[j] => i = j
  /\ \A i \in 1..Len(v.kids) : Unique(v.kids[i])
\* What a getter returns for a, it returns for b, reals to four digits of a json text and to six
\* of bencoded data; the kids are there by key or by place.
IsNear(x, y, fmt) ==
  IF fmt = "json" THEN y <= x /\ x - y < 1000 ELSE x - y <= 5 /\ y - x <= 5
ReadsAs(a, b, fmt) ==
  /\ tr_bencGetInt(a) \subseteq tr_bencGetInt(b) /\ tr_bencGetBool(a) \subseteq tr_bencGetBool(b)
  /\ tr_bencGetStr(a) \subseteq tr_bencGetStr(b)
  /\ \A x \in tr_bencGetReal(a) : \E y \in tr_bencGetReal(b) : IsNear(x, y, fmt)
  /\ isContainer(a) => a.type = b.type /\ Len(a.kids) = Len(b.kids)
  /\ a.type = "list" => \A i \in 1..Len(a.kids) : ReadsAs(a.kids[i], b.kids[i], fmt)
  /\ a.type = "dict" =>
       \A i \in Pairs(a) : ReadsAs(a.kids[i + 1], tr_bencDictFind(b, a.kids[i].n), fmt)

TypeOK ==
  /\ doing \in {"edit", "walk", "write", "parse"}
  /\ val = Nothing \/ IsWell(val)
  /\ temp \in 0..Len(writer.text) /\ file.fmt \in {"none", "benc", "json"}
  /\ \A i \in 1..Len(walk) : walk[i].index \in 0..Len(walk[i].children)

\* A file reads as the value that was saved in it, reals as near as a text has them, in spite of
\* failed saves and of the types that a text does not have (bencWalk, tr_bencToFile, tr_bencParse, tr_jsonParse).
FileReadsAsSaved ==
  doing = "edit" /\ file # NoFile =>
    LET end == FoldLeft(ParseToken, [None EXCEPT !.fmt = file.fmt], file.text)
    IN end.want = "end" /\ IsWell(end.read) /\ (Unique(source) => ReadsAs(source, end.read, file.fmt))

\* What is merged is found, a second merge of it changes nothing, and no key comes twice; but
\* in a dictionary from outside that has a key twice, the new value may stay behind the
\* other one (tr_bencMergeDicts).
MergeIsDone ==
  \A u \in Updates :
    doing = "edit" /\ val.type = "dict" /\ Unique(val) =>
      LET once == tr_bencMergeDicts(val, u)
      IN /\ tr_bencMergeDicts(once, u) = once
         /\ Unique(once)
         /\ \A i \in Pairs(u) : ~isContainer(u.kids[i + 1]) =>
              tr_bencDictFind(once, u.kids[i].n) = u.kids[i + 1]
================================================================================
