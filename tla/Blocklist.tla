-------------------------------- MODULE Blocklist --------------------------------
(***************************************************************************)
(* The blocklists (blocklist.c, session.c): text files in a folder, each   *)
(* made into a sorted .bin file of ranges when the session starts, the one *)
(* that is downloaded on request (rpcimpl.c), and the search in the .bin   *)
(* files, which are mapped when they are first asked.                      *)
(*                                                                         *)
(* Addresses are numbers; those of IPv6 are never blocked and left out.    *)
(* All of it runs in the event thread; `unread' are the entries that       *)
(* loadBlocklists has not yet come to.                                     *)
(***************************************************************************)
EXTENDS Integers, FiniteSets, SequencesExt

CONSTANTS
  Addresses,    \* the numbers 0 .. some bound
  Texts,        \* [name of a text file -> [bin, lines]]: its .bin file and what is in it
  Downloads,    \* the sequences of lines that an update may bring
  DefaultName,  \* DEFAULT_BLOCKLIST_FILENAME
  Alike         \* the .bin files whose names end with it

VARIABLES
  bin,        \* the ranges in each .bin file, or NoFile
  lists,      \* session->blocklists: [name, isEnabled, ruleCount], NotMapped without rules
  isEnabled,  \* session->isBlocklistEnabled
  unread,     \* entries of the folder, in loadBlocklists
  content     \* history: [ranges, whole] of each .bin file, its lines and if all was written

listVars == <<bin, lists, isEnabled, unread, content>>

NoFile == "none"
NotMapped == -1
Bins == {Texts[t].bin : t \in DOMAIN Texts} \union {DefaultName}
Files == {n \in Bins : bin[n] # NoFile}

(***************************************************************************)
(* _tr_blocklistSetContent: read the lines, sort by the first address, and *)
(* merge.                                                                  *)
(***************************************************************************)
\* parseLine, in either format: a line is <<[begin, end]>>, or <<>> and is skipped.
Parsed(lines) == FlattenSeq(lines)

Sorted(ranges) ==
  LET indices == DOMAIN ranges
      orders == {f \in [indices -> indices] : \A i, j \in indices : i # j => f[i] # f[j]}
  IN {s \in {[i \in indices |-> ranges[f[i]]] : f \in orders} :
        \A i \in indices \ {1} : s[i - 1].begin <= s[i].begin}

Keep(kept, r) ==
  IF Last(kept).end < r.begin THEN Append(kept, r)
  ELSE IF Last(kept).end < r.end THEN [kept EXCEPT ![Len(kept)].end = r.end]
  ELSE kept
Merged(s) == IF s = <<>> THEN <<>> ELSE FoldLeft(Keep, <<s[1]>>, Tail(s))

\* The list i is given the lines of a file.  The .bin file may not open, so that the list is only closed,
\* and it may not take all of them, which is logged.
SetContent(i, on, lines) ==
  LET ranges == Parsed(lines) IN
  \/ /\ lists' = [on EXCEPT ![i].ruleCount = NotMapped]
     /\ UNCHANGED <<bin, content>>
  \/ \E s \in Sorted(ranges) : \E count \in 0 .. Len(Merged(s)) :
       /\ bin' = [bin EXCEPT ![on[i].name] = SubSeq(Merged(s), 1, count)]
       /\ lists' = [on EXCEPT ![i].ruleCount = count]
       /\ content' = [content EXCEPT ![on[i].name] =
                        [ranges |-> ranges, whole |-> count = Len(Merged(s))]]

New(name) == [name |-> name, isEnabled |-> isEnabled, ruleCount |-> NotMapped]

(***************************************************************************)
(* loadBlocklists reads the folder in any order.  Each .bin file and each  *)
(* text file becomes a list: nothing is found to be there already, as a    *)
(* list of lists is searched for a name.  A .bin file that is made in the  *)
(* meantime may be read or not.                                            *)
(***************************************************************************)
LoadBin(n) ==
  /\ n \in unread /\ n \in Bins
  /\ lists' = Append(lists, New(n)) /\ unread' = unread \ {n}
  /\ UNCHANGED <<bin, isEnabled, content>>

LoadText(t) ==
  /\ t \in unread /\ t \in DOMAIN Texts
  /\ SetContent(Len(lists) + 1, Append(lists, New(Texts[t].bin)), Texts[t].lines)
  /\ \E seen \in SUBSET (IF bin[Texts[t].bin] = NoFile THEN {Texts[t].bin} ELSE {}) :
       unread' = (unread \ {t}) \union {n \in seen : bin'[n] # NoFile}
  /\ UNCHANGED isEnabled

\* tr_sessionReloadBlocklists, or the end of the session and another.
ReloadBlocklists ==
  /\ unread = {}
  /\ lists' = <<>> /\ unread' = DOMAIN Texts \union Files
  /\ UNCHANGED <<bin, isEnabled, content>>

(***************************************************************************)
(* The calls of the session.                                               *)
(***************************************************************************)
\* tr_blocklistSetContent, from gotNewBlocklist: the first list whose name ends with the
\* default one, or a new one.  A response that cannot be saved changes nothing, and of one that
\* is broken the beginning is used.
GotNewBlocklist(response) ==
  /\ unread = {}
  /\ LET alike == {i \in DOMAIN lists : lists[i].name \in Alike}
         on == IF alike = {} THEN Append(lists, New(DefaultName)) ELSE lists
         i == IF alike = {} THEN Len(on) ELSE CHOOSE k \in alike : \A j \in alike : k <= j
     IN \E n \in 0 .. Len(response) : SetContent(i, on, SubSeq(response, 1, n))
  /\ UNCHANGED <<isEnabled, unread>>

tr_blocklistSetEnabled ==
  /\ unread = {}
  /\ isEnabled' = ~isEnabled
  /\ lists' = [i \in DOMAIN lists |-> [lists[i] EXCEPT !.isEnabled = isEnabled']]
  /\ UNCHANGED <<bin, unread, content>>

\* blocklistEnsureLoaded
RuleCount(l) ==
  IF l.ruleCount # NotMapped \/ bin[l.name] = NoFile THEN l.ruleCount ELSE Len(bin[l.name])

\* The search in the file as it is now; where it has become shorter than what is mapped of it,
\* there is no telling what is found (IsTorn).
HasAddress(l, a) ==
  /\ l.isEnabled /\ bin[l.name] # NoFile
  /\ \E k \in DOMAIN bin[l.name] :
       k <= RuleCount(l) /\ a \in bin[l.name][k].begin .. bin[l.name][k].end

IsAddressBlocked(a) == \E i \in DOMAIN lists : HasAddress(lists[i], a)

\* tr_sessionIsAddressBlocked asks the lists until one has the address, and maps them.
AskFor(a) ==
  /\ unread = {}
  /\ lists' = [i \in DOMAIN lists |->
       IF lists[i].isEnabled /\ \A j \in 1 .. i - 1 : ~HasAddress(lists[j], a)
       THEN [lists[i] EXCEPT !.ruleCount = RuleCount(lists[i])] ELSE lists[i]]
  /\ UNCHANGED <<bin, isEnabled, unread, content>>

tr_blocklistGetRuleCount ==
  /\ unread = {}
  /\ lists' = [i \in DOMAIN lists |-> [lists[i] EXCEPT !.ruleCount = RuleCount(lists[i])]]
  /\ UNCHANGED <<bin, isEnabled, unread, content>>

Init ==
  /\ bin = [n \in Bins |-> NoFile] /\ lists = <<>> /\ isEnabled \in BOOLEAN
  /\ unread = DOMAIN Texts
  /\ content = [n \in Bins |-> [ranges |-> <<>>, whole |-> TRUE]]

Next ==
  \/ \E n \in Bins : LoadBin(n)
  \/ \E t \in DOMAIN Texts : LoadText(t)
  \/ ReloadBlocklists \/ tr_blocklistSetEnabled \/ tr_blocklistGetRuleCount
  \/ \E response \in Downloads : GotNewBlocklist(response)
  \/ \E a \in Addresses : AskFor(a)

Spec == Init /\ [][Next]_listVars

(***************************************************************************)
(* Properties.                                                             *)
(***************************************************************************)
Ranges == [begin : Addresses, end : Addresses]
TypeOK ==
  /\ \A n \in Bins : bin[n] = NoFile \/ \A k \in DOMAIN bin[n] : bin[n][k] \in Ranges
  /\ \A i \in DOMAIN lists :
       lists[i].name \in Bins /\ lists[i].isEnabled = isEnabled /\ lists[i].ruleCount \in Int
  /\ isEnabled \in BOOLEAN /\ unread \subseteq DOMAIN Texts \union Bins

Covered(ranges) == UNION {ranges[k].begin .. ranges[k].end : k \in DOMAIN ranges}
Inverted(ranges) == \E k \in DOMAIN ranges : ranges[k].end < ranges[k].begin

\* The rules of a file are in ascending order and do not overlap, as the assertions in
\* _tr_blocklistSetContent say, and as bsearch needs it; the first of the assertions only if no
\* line of the text is the wrong way round.
RulesAreSorted ==
  \A n \in Files :
    /\ \A k \in DOMAIN bin[n] \ {1} : bin[n][k - 1].end < bin[n][k].begin
    /\ Inverted(bin[n]) => Inverted(content[n].ranges)

\* What is mapped of a file is there, unless there are two lists of this file, and the other was
\* given a shorter one (blocklistLoad, loadBlocklists).
IsTorn(l) == bin[l.name] # NoFile /\ RuleCount(l) > Len(bin[l.name])
TornAreTwice ==
  \A i \in DOMAIN lists :
    IsTorn(lists[i]) => \E j \in DOMAIN lists \ {i} : lists[j].name = lists[i].name

\* An address is blocked if the lists are enabled and a line of one has it, and only then,
\* however the lines overlap, even the wrong way round, however often a file is listed, and
\* whichever of the lists are mapped; after an incomplete write only part of it is, and nothing
\* is said while what is mapped of a list is no longer there
\* (tr_sessionIsAddressBlocked).
BlockedAreListed ==
  LET listed == {lists[i].name : i \in DOMAIN lists}
  IN unread = {} /\ ~(\E i \in DOMAIN lists : IsTorn(lists[i])) =>
       \A a \in Addresses :
         /\ IsAddressBlocked(a) =>
              isEnabled /\ \E n \in listed : a \in Covered(content[n].ranges)
         /\ isEnabled /\ (\E n \in listed : content[n].whole /\ a \in Covered(content[n].ranges))
              => IsAddressBlocked(a)
================================================================================
