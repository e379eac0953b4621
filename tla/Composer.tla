-------------------------------- MODULE Composer --------------------------------
(***************************************************************************)
(* The graph composer of graphite-web: TargetStore (templates/composer.html)*)
(* with the selection that the list of the Graph Data window keeps of it,   *)
(* the query string and the source of the image (content/js/composer.js),   *)
(* and what the tree, the loaded URLs and the Graph Data window             *)
(* (composer_widgets.js) do to them.  Targets are found by value, selected  *)
(* by node.  The dialogs are modal and nothing else changes the targets     *)
(* while one is open, so that a dialog and its answer are one action.       *)
(* A target is a text: a sequence of names, numbers and signs, in which     *)
(* "Remove Outer Call" looks for the arguments as the code does.            *)
(***************************************************************************)
EXTENDS Naturals, Integers, Sequences, FiniteSets, SequencesExt

CONSTANTS Metrics,
          MaxTokens \* bound: the names, numbers and signs of one target, of two, and so on

VARIABLES
  targets,     \* the values of TargetStore, in order
  selected,    \* targetList.selected: the indexes of its nodes, in the order of selection
  composerUrl, \* the targets in Composer.url
  image,       \* the targets in the source of the image
  autoRefresh, \* whether the Auto-Refresh button is pressed
  timers       \* how many timeouts of doRefresh() are pending

composerVars == <<targets, selected, composerUrl, image, autoRefresh, timers>>

--------------------------------------------------------------------------------
(* Targets *)

Opening == {"(", "{"}
Closing == {")", "}"}
Tokens == Metrics \cup Opening \cup Closing \cup {"function", ",", "quote", "5", "-5"}
Texts == Seq(Tokens)

Joined(ts) == FlattenSeq([k \in DOMAIN ts |-> IF k = 1 THEN ts[k] ELSE <<",">> \o ts[k]])
Call(ts) == <<"function", "(">> \o Joined(ts) \o <<")">>

\* What one types, or finds in the tree and in a URL.
Typed == UNION {{<<m>>, Call(<<<<m>>>>)} : m \in Metrics}

\* The second argument of a function: none, a number, or what one has typed in quotes.
Quoted(x) == <<"quote", x, "quote">>
Inputs == {<<>>, <<"5">>, <<"-5">>} \cup {Quoted(x) : x \in {",", "(", ")"}}

\* The elements of a sequence but those at some places.
Without(s, places) == FlattenSeq([k \in DOMAIN s |-> IF k \in places THEN <<>> ELSE <<s[k]>>])

\* replace(/^[^(]+\((.+)\)/, "$1"): from the first parenthesis to the last one, if there
\* is something before and in between.
ArgString(t) ==
  LET first == SelectInSeq(t, LAMBDA c : c = "(")
      last  == SelectLastInSeq(t, LAMBDA c : c = ")")
  IN  IF first > 1 /\ last > first + 1 THEN Without(t, 1 .. first \cup {last}) ELSE t

\* What is open before a place, as the scanner counts, quoted or not.
Depth(s, k) == Cardinality({j \in 1 .. k - 1 : s[j] \in Opening})
               - Cardinality({j \in 1 .. k - 1 : s[j] \in Closing})
Commas(s) == {k \in DOMAIN s : s[k] = ","}
Malformed(s) == \E k \in Commas(s) : Depth(s, k) < 0

\* The text is cut at the commas outside of all parentheses.
Cuts(s) == {k \in Commas(s) : Depth(s, k) = 0}
Pieces(s) ==
  [n \in 1 .. Cardinality(Cuts(s)) + 1 |->
     Without(s, Cuts(s) \cup {k \in DOMAIN s : Cardinality({j \in Cuts(s) : j < k}) # n - 1})]

\* match(/^([0123456789\.]+|".+"|'.*')$/); nothing here has single quotes.
IsLiteral(a) ==
  \/ a # <<>> /\ ToSet(a) = {"5"}
  \/ Len(a) > 2 /\ a[1] = "quote" /\ a[Len(a)] = "quote"

--------------------------------------------------------------------------------
(* TargetStore and the list, as one record, so that a handler can do several things *)

List == [targets |-> targets, selected |-> selected]

indexOfTarget(l, t) == SelectInSeq(l.targets, LAMBDA u : u = t)
Values(l) == [k \in DOMAIN l.selected |-> l.targets[l.selected[k]]]

Shifted(s, from, by) == [k \in DOMAIN s |-> IF s[k] >= from THEN s[k] + by ELSE s[k]]

\* Mutant: the node stays selected.
OnRemove_KeepsSelected(s, at) == Shifted(s, at + 1, -1)
\* DataView.onRemove(): the node is deselected, the ones after it move up.
OnRemove(s, at) == Shifted(RemoveFirst(s, at), at, -1)

RemoveTarget(l, t) ==
  LET at == indexOfTarget(l, t) IN
  IF at = 0 THEN l
  ELSE [targets |-> RemoveAt(l.targets, at), selected |-> OnRemove(l.selected, at)]

\* An empty list is rendered anew, with nothing selected.
insertTarget(l, at, t) ==
  [targets  |-> InsertAt(l.targets, at, t),
   selected |-> IF l.targets = <<>> THEN <<>> ELSE Shifted(l.selected, at, 1)]
AddTarget(l, t) == insertTarget(l, Len(l.targets) + 1, t)

\* Mutant: newTarget is looked up, as the test was meant.
replaceTarget_Tested(l, old, new) ==
  IF indexOfTarget(l, old) = 0 \/ indexOfTarget(l, new) # 0 THEN l
  ELSE [l EXCEPT !.targets[indexOfTarget(l, old)] = new]
\* The test that newTarget is not there looks up an undefined record.
replaceTarget(l, old, new) ==
  IF indexOfTarget(l, old) = 0 THEN l ELSE [l EXCEPT !.targets[indexOfTarget(l, old)] = new]

\* targetList.select(TargetStore.findExact(...), true)
SelectToo(l, t) ==
  LET at == indexOfTarget(l, t) IN
  IF at = 0 \/ Contains(l.selected, at) THEN l ELSE [l EXCEPT !.selected = Append(@, at)]

toggle(l, t) == IF indexOfTarget(l, t) # 0 THEN RemoveTarget(l, t) ELSE AddTarget(l, t)

\* syncTargetList() and updateImage(), with which every handler ends.
Show(list) ==
  \E l \in {list} :
    /\ targets' = l.targets /\ selected' = l.selected
    /\ \/ l.targets = <<>>
       \/ /\ Len(l.targets) \in DOMAIN MaxTokens
          /\ Len(FlattenSeq(l.targets)) <= MaxTokens[Len(l.targets)]
    /\ composerUrl' = targets' /\ image' = composerUrl'

--------------------------------------------------------------------------------
(* Actions *)

ComposerInit ==
  /\ targets = <<>> /\ selected = <<>> /\ composerUrl = <<>> /\ image = <<>>
  /\ autoRefresh = FALSE /\ timers = 0

\* A leaf of the tree, a result of the search, or Enter in the completer.
ToggleTarget(t) == Show(toggle(List, t)) /\ UNCHANGED <<autoRefresh, timers>>

\* Button.toggle() and its handler: a press refreshes and starts the chain of timeouts.
toggleAutoRefresh(on) ==
  /\ autoRefresh' = on
  /\ timers' = IF on = (timers > 0) THEN timers ELSE IF on THEN timers + 1 ELSE 0
UpdateUI(on) == IF on = autoRefresh THEN UNCHANGED <<autoRefresh, timers>> ELSE toggleAutoRefresh(on)

\* loadURL(): the targets of the URL are toggled on, one after the other.
Loaded(query) == FoldLeft(toggle, [targets |-> <<>>, selected |-> <<>>], query)
loadURL(query, autorefresh) ==
  /\ Show(Loaded(query))
  /\ UpdateUI(autorefresh)

PressAutoRefresh ==
  /\ toggleAutoRefresh(~autoRefresh)
  /\ image' = IF timers = 0 THEN composerUrl ELSE image
  /\ UNCHANGED <<targets, selected, composerUrl>>

\* doRefresh() runs from its timeout, or the window is shown or resized.
Refresh == image' = composerUrl /\ UNCHANGED <<targets, selected, composerUrl, autoRefresh, timers>>

--------------------------------------------------------------------------------
(* The Graph Data window *)

\* A click; with ctrl it adds to the selection or takes from it.
Click(at, ctrl) ==
  /\ selected' = IF ~ctrl THEN <<at>>
                 ELSE IF Contains(selected, at) THEN RemoveFirst(selected, at)
                 ELSE Append(selected, at)
  /\ UNCHANGED <<targets, composerUrl, image, autoRefresh, timers>>

\* The Add dialog: nothing asks whether the target is there.
AddDialog(t) == Show(AddTarget(List, t)) /\ UNCHANGED <<autoRefresh, timers>>

editTarget(t) ==
  /\ Len(selected) = 1
  /\ Show([List EXCEPT !.targets[selected[1]] = t])
  /\ UNCHANGED <<autoRefresh, timers>>

\* The selected values are read first; the list changes with each of them.
RemoveEach(l, ts) == FoldLeft(RemoveTarget, l, ts)
RemoveSelected ==
  /\ selected # <<>>
  /\ Show(RemoveEach(List, Values(List)))
  /\ UNCHANGED <<autoRefresh, timers>>

Applied(t, extra) == Call(IF extra = <<>> THEN <<t>> ELSE <<t, extra>>)
ApplyTo(l, t, extra) == SelectToo(replaceTarget(l, t, Applied(t, extra)), Applied(t, extra))
ApplyToEach(l, ts, extra) == FoldLeft(LAMBDA m, t : ApplyTo(m, t, extra), l, ts)
applyFuncToEach(extra) ==
  /\ selected # <<>>
  /\ Show(ApplyToEach(List, Values(List), extra))
  /\ UNCHANGED <<autoRefresh, timers>>

applyFuncToAll ==
  /\ selected # <<>>
  /\ LET new  == Call(Values(List))
         rest == RemoveEach(replaceTarget(List, Head(Values(List)), new), Tail(Values(List)))
     IN  Show(SelectToo(rest, new))
  /\ UNCHANGED <<autoRefresh, timers>>

\* The pieces but the literals are inserted at the place of the call, the last one first;
\* a target with a comma after too many closing parentheses is left alone.
PutBack(l, at, a) == IF IsLiteral(a) THEN l ELSE SelectToo(insertTarget(l, at, a), a)
PutBackEach(l, at, ts) == FoldLeft(LAMBDA m, a : PutBack(m, at, a), l, ts)
RemoveCall(l, t) ==
  LET args == ArgString(t) IN
  IF Malformed(args) THEN l
  ELSE PutBackEach(RemoveTarget(l, t), indexOfTarget(l, t), Reverse(Pieces(args)))
RemoveCalls(l, ts) == FoldLeft(RemoveCall, l, ts)
removeOuterCall ==
  /\ selected # <<>>
  /\ Show(RemoveCalls(List, Values(List)))
  /\ UNCHANGED <<autoRefresh, timers>>

Swapped(ts, i, j) == [ts EXCEPT ![i] = ts[j], ![j] = ts[i]]

MoveEach(ts, places, direction) ==
  FoldLeft(LAMBDA us, at : Swapped(us, at, at + direction), ts, places)

\* Each selected value is exchanged with its neighbour, in the order of selection.
moveTarget(direction) ==
  /\ selected # <<>>
  /\ \A k \in DOMAIN selected : selected[k] + direction \in DOMAIN targets
  /\ Show([targets  |-> MoveEach(targets, selected, direction),
           selected |-> [k \in DOMAIN selected |-> selected[k] + direction]])
  /\ UNCHANGED <<autoRefresh, timers>>

swapTargets ==
  /\ Len(selected) = 2
  /\ Show([List EXCEPT !.targets = Swapped(@, selected[1], selected[2])])
  /\ UNCHANGED <<autoRefresh, timers>>

ComposerNext ==
  \/ \E t \in Typed : ToggleTarget(t) \/ AddDialog(t) \/ editTarget(t)
  \/ \E query \in BoundedSeq(Typed, 2), on \in BOOLEAN : loadURL(query, on)
  \/ PressAutoRefresh \/ Refresh
  \/ \E at \in DOMAIN targets, ctrl \in BOOLEAN : Click(at, ctrl)
  \/ RemoveSelected \/ applyFuncToAll \/ removeOuterCall \/ swapTargets
  \/ \E extra \in Inputs : applyFuncToEach(extra)
  \/ \E direction \in {-1, 1} : moveTarget(direction)

ComposerSpec == ComposerInit /\ [][ComposerNext]_composerVars

--------------------------------------------------------------------------------
(* Properties *)

\* The list never has a node selected twice or one that is gone: its records are read
\* by index (DataView.getRecords), while the tree, a URL and the functions take targets
\* out of the store behind the list.
SelectionInList ==
  /\ IsInjective(selected)
  /\ ToSet(selected) \subseteq DOMAIN targets

\* The targets that are not selected, and what "Remove Outer Call" leaves of one: itself,
\* if it is taken for malformed, and else what the scanner finds in it, which is the
\* arguments of the call where nothing is quoted.
Others == Without(targets, ToSet(selected))
NoLiterals(ts) == Without(ts, {k \in DOMAIN ts : IsLiteral(ts[k])})
Remains(t) == IF Malformed(ArgString(t)) THEN <<t>> ELSE NoLiterals(Pieces(ArgString(t)))

\* The list has the targets of new, in any order.
BecomeBag(new) ==
  \A t \in ToSet(targets') \cup ToSet(new) :
    Cardinality({k \in DOMAIN targets' : targets'[k] = t}) =
    Cardinality({k \in DOMAIN new : new[k] = t})

ActedOnOnce ==
  LET chosen == Values(List)
  IN  /\ RemoveSelected => BecomeBag(Others)
      /\ applyFuncToAll => BecomeBag(Others \o <<Call(chosen)>>)
      /\ removeOuterCall =>
           BecomeBag(Others \o FlattenSeq([k \in DOMAIN chosen |-> Remains(chosen[k])]))
      /\ \A extra \in Inputs : applyFuncToEach(extra) =>
           BecomeBag(Others \o [k \in DOMAIN chosen |-> Applied(chosen[k], extra)])

\* Although a function, its removal and Remove find the selected targets by value, in a
\* list that may hold a value twice and that they change on the way, each selected target
\* is used exactly once and no other is touched (up to the order of the list); one whose
\* call cannot be removed does not keep the others from their turn.
SelectionActedOnOnce == [][ActedOnOnce]_composerVars
================================================================================
