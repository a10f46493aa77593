------------------------- MODULE OptionsFlowProofs -------------------------
(***************************************************************************)
(* Proofs about OptionsFlow, for any number of flows, items and saves and  *)
(* any names.                                                              *)
(***************************************************************************)
EXTENDS OptionsFlow, FiniteSetTheorems, TLAPS

-----------------------------------------------------------------------------
(* What a step does to the items.                                          *)

\* Relays have no commands.
ItemRecords ==
    {item \in [kind : Kinds, commands : SUBSET Names, listen : BOOLEAN] :
        item.kind = "relay" => item.commands = {}}

\* Ids are given out one after the other.
ItemTypes ==
    /\ \E n \in 0..MaxItems : used = 1..n
    /\ DOMAIN items \subseteq used
    /\ \A i \in DOMAIN items : items[i] \in ItemRecords

FlowRecords == [at : Steps, kind : Kinds, id : Ids \cup {NewItem}, got : BOOLEAN]

\* The draft of an item that is still there has its kind; commands are learned for
\* remotes.
Fits(fl, its, ids) ==
    /\ fl \in FlowRecords /\ fl.id \in ids \cup {NewItem}
    /\ fl.at = "draft" /\ fl.id \in DOMAIN its => its[fl.id].kind = fl.kind
    /\ fl.at \in {"capture", "enabling", "listening", "stopping"} /\ fl.id \in DOMAIN its
          => its[fl.id].kind = "remote"

FlowTypes ==
    flow \in [Flows -> FlowRecords] /\ \A f \in Flows : Fits(flow[f], items, used)

Added ==
    \E i \in Ids \ used, item \in ItemRecords :
        /\ i = Cardinality(used) + 1
        /\ used' = used \cup {i} /\ items' = With(items, i, item)
Replaced ==
    \E i \in DOMAIN items, item \in ItemRecords :
        /\ item.kind = items[i].kind /\ items' = With(items, i, item)
        /\ UNCHANGED used
Removed ==
    \E i \in used : items' = Without(items, i) /\ UNCHANGED used

Change == Added \/ Replaced \/ Removed \/ UNCHANGED <<items, used>>

LEMMA BecomesWith ==
    ASSUME NEW i, NEW item, items' = With(items, i, item)
    PROVE  /\ DOMAIN items' = DOMAIN items \cup {i}
           /\ items'[i] = item
           /\ \A j \in DOMAIN items \ {i} : items'[j] = items[j]
BY Zenon DEF With

LEMMA WithoutIs ==
    ASSUME NEW its, NEW i
    PROVE  /\ DOMAIN Without(its, i) = DOMAIN its \ {i}
           /\ \A j \in DOMAIN its \ {i} : Without(its, i)[j] = its[j]
BY Zenon DEF Without

LEMMA ItemsOfAKind ==
    ASSUME NEW kind \in Kinds, NEW item \in Items(kind)
    PROVE  item \in ItemRecords /\ item.kind = kind
<1>1. item.kind = kind /\ item \in Remotes \cup Relays \cup SerialPorts
  BY Zenon DEF Items, AllItems
<1>2. \A names, c : c \in Lists(names) => c \subseteq names
  BY Zenon DEF Lists
<1>3. item \in [kind : Kinds, commands : SUBSET Names, listen : BOOLEAN]
  BY <1>1, <1>2, Zenon DEF Remotes, Relays, SerialPorts, Kinds, Names
<1>4. item.kind = "relay" => item.commands = {}
  BY <1>1, Zenon DEF Remotes, Relays, SerialPorts
<1> QED
  BY <1>1, <1>3, <1>4, Zenon DEF ItemRecords

\* A new id is one more than there are.
LEMMA NewIdIsFresh ==
    ASSUME ItemTypes, Cardinality(used) < MaxItems
    PROVE  Cardinality(used) + 1 \in Ids \ used /\ NewItem \notin used
<1>1. PICK n \in 0..MaxItems : used = 1..n
  BY Zenon DEF ItemTypes
<1>2. Cardinality(used) = n
  BY <1>1, FS_Interval, OptionsBoundsAssumption, SMT
<1> QED
  BY <1>1, <1>2, OptionsBoundsAssumption, SMT DEF Ids, NewItem

\* A saved draft adds an item, replaces one of its kind, or changes nothing.
LEMMA AddedIs ==
    ASSUME ItemTypes, NEW f \in Flows, NEW item \in ItemRecords, AddItem(f, item)
    PROVE  Added /\ Saved(f, items', settings')
BY NewIdIsFresh, Zenon DEF AddItem, Added, Saved

LEMMA ReplacedIs ==
    ASSUME NEW f \in Flows, NEW item \in ItemRecords, ReplaceItem(f, item),
           flow[f].id \in DOMAIN items => items[flow[f].id].kind = item.kind
    PROVE  (Replaced \/ UNCHANGED <<items, used>>) /\ Saved(f, items', settings')
BY Zenon DEF ReplaceItem, Replaced, Saved

LEMMA LearnedIs ==
    ASSUME NEW r \in ItemRecords, r.kind = "remote", NEW n \in RemoteNames
    PROVE  [r EXCEPT !.commands = @ \cup {n}] \in ItemRecords
           /\ [r EXCEPT !.commands = @ \cup {n}].kind = "remote"
<1>1. r.commands \cup {n} \in SUBSET Names
  BY Zenon DEF ItemRecords, Names
<1>2. [r EXCEPT !.commands = @ \cup {n}]
         \in [kind : Kinds, commands : SUBSET Names, listen : BOOLEAN]
  BY <1>1, Zenon DEF ItemRecords
<1>3. [r EXCEPT !.commands = @ \cup {n}].kind = "remote"
  BY SMT DEF ItemRecords
<1> QED
  BY <1>2, <1>3, Zenon DEF ItemRecords

\* A save, of one item or of the other settings.
SaveStep(f) ==
    /\ Saved(f, items', settings') /\ Change
    /\ items' # items => settings' = settings
    /\ settings' \in BOOLEAN \cup {settings}

LEMMA SettingsSaved ==
    ASSUME NEW f \in Flows, SaveSettings(f)
    PROVE  SaveStep(f)
BY Zenon DEF SaveSettings, SaveStep, Saved, Change

LEMMA DraftSaved ==
    ASSUME ItemTypes, FlowTypes, NEW f \in Flows, SaveDraft(f)
    PROVE  SaveStep(f)
<1>1. PICK item \in Items(flow[f].kind) :
         IF flow[f].id = NewItem THEN AddItem(f, item) ELSE ReplaceItem(f, item)
  BY Zenon DEF SaveDraft
<1>2. item \in ItemRecords /\ item.kind = flow[f].kind
  BY ItemsOfAKind, Zenon DEF FlowTypes, FlowRecords
<1>3. CASE AddItem(f, item)
  BY <1>2, <1>3, AddedIs, Zenon DEF SaveStep, Change, AddItem, Saved
<1>4. CASE ReplaceItem(f, item)
  <2>1. flow[f].id \in DOMAIN items => items[flow[f].id].kind = item.kind
    BY <1>2, Zenon DEF SaveDraft, FlowTypes, Fits
  <2>2. (Replaced \/ UNCHANGED <<items, used>>) /\ Saved(f, items', settings')
    BY <1>2, <1>4, <2>1, ReplacedIs, Zenon
  <2>3. settings' = settings
    BY <1>4, Zenon DEF ReplaceItem, Saved
  <2> QED
    BY <2>2, <2>3, Zenon DEF SaveStep, Change
<1> QED
  BY <1>1, <1>3, <1>4, Zenon

LEMMA RemoveSaved ==
    ASSUME NEW f \in Flows, Remove(f)
    PROVE  SaveStep(f)
BY Zenon DEF Remove, SaveStep, Saved, Change, Removed

\* What was learned is saved, or the capture is repeated.
LEMMA LearnedSaved ==
    ASSUME ItemTypes, FlowTypes, NEW f \in Flows, flow[f].at = "stopping", SaveLearned(f)
    PROVE  \/ SaveStep(f)
           \/ /\ Goto(f, [flow[f] EXCEPT !.at = "capture", !.got = FALSE])
              /\ UNCHANGED <<optionVars, entryVars>>
<1> DEFINE i == flow[f].id
<1>1. ASSUME NEW n \in RemoteNames,
             AddItem(f, [kind |-> "remote", commands |-> {n}, listen |-> FALSE])
      PROVE  SaveStep(f)
  <2> DEFINE item == [kind |-> "remote", commands |-> {n}, listen |-> FALSE]
  <2>1. item \in ItemRecords
    BY Zenon DEF ItemRecords, Kinds, Names
  <2>2. AddItem(f, item)
    BY <1>1
  <2> HIDE DEF item
  <2> QED
    BY <2>1, <2>2, AddedIs, Zenon DEF SaveStep, Change, AddItem, Saved
<1>2. ASSUME NEW n \in RemoteNames, i \in DOMAIN items,
             ReplaceItem(f, [items[i] EXCEPT !.commands = @ \cup {n}])
      PROVE  SaveStep(f)
  <2> DEFINE item == [items[i] EXCEPT !.commands = @ \cup {n}]
  <2>1. items[i] \in ItemRecords /\ items[i].kind = "remote"
    BY <1>2, Zenon DEF ItemTypes, FlowTypes, Fits
  <2>2. item \in ItemRecords /\ item.kind = "remote"
    BY <2>1, LearnedIs, Zenon
  <2>3. ReplaceItem(f, item)
    BY <1>2
  <2> HIDE DEF item
  <2>4. (Replaced \/ UNCHANGED <<items, used>>) /\ Saved(f, items', settings')
    BY <2>1, <2>2, <2>3, ReplacedIs, Zenon
  <2>5. settings' = settings
    BY <2>3, Zenon DEF ReplaceItem, Saved
  <2> QED
    BY <2>4, <2>5, Zenon DEF SaveStep, Change
<1> QED
  BY <1>1, <1>2, Zenon DEF SaveLearned

\* A step saves, or leaves the options alone and reloads at most.
Reloads == UNCHANGED entryVars \/ BeginReload \/ PlatformsAdded \/ Loaded

LEMMA NextIs ==
    ASSUME ItemTypes, FlowTypes, [Next]_vars
    PROVE  (\E f \in Flows : SaveStep(f)) \/ (UNCHANGED optionVars /\ Reloads)
<1>1. ASSUME NEW f \in Flows, SaveSettings(f) \/ SaveDraft(f) \/ Remove(f)
      PROVE  SaveStep(f)
  BY <1>1, SettingsSaved, DraftSaved, RemoveSaved, Zenon
<1>2. ASSUME NEW f \in Flows, Stopped(f)
      PROVE  SaveStep(f) \/ UNCHANGED <<optionVars, entryVars>>
  BY <1>2, LearnedSaved, Zenon DEF Stopped
<1>3. ASSUME NEW f \in Flows,
             Close(f) \/ Choose(f) \/ PickEdit(f) \/ SubmitLearn(f) \/ Capture(f)
      PROVE  UNCHANGED <<optionVars, entryVars>>
  BY <1>3, Zenon DEF Close, Choose, PickEdit, SubmitLearn, Capture, Show
<1>4. ASSUME NEW f \in Flows, Enabled(f) \/ ListenEnds(f)
      PROVE  UNCHANGED <<optionVars, entryVars>>
  BY <1>4, Zenon DEF Enabled, ListenEnds
<1>5. Code \/ UNCHANGED vars => UNCHANGED <<optionVars, entryVars>>
  BY Zenon DEF Code, vars
<1>6. BeginReload \/ PlatformsAdded \/ Loaded => UNCHANGED optionVars
  BY Zenon DEF BeginReload, PlatformsAdded, Loaded
<1> QED
  BY <1>1, <1>2, <1>3, <1>4, <1>5, <1>6, Zenon DEF Next, Reloads

-----------------------------------------------------------------------------
(* The items and the flows.                                                *)

LEMMA ChangeTyped ==
    ASSUME ItemTypes, Change
    PROVE  ItemTypes'
<1>1. CASE Added
  <2>1. PICK i \in Ids \ used, item \in ItemRecords :
           /\ i = Cardinality(used) + 1
           /\ used' = used \cup {i} /\ items' = With(items, i, item)
    BY <1>1, Zenon DEF Added
  <2>2. PICK n \in 0..MaxItems : used = 1..n
    BY Zenon DEF ItemTypes
  <2>3. Cardinality(used) = n
    BY <2>2, FS_Interval, OptionsBoundsAssumption, SMT
  <2>4. n + 1 \in 0..MaxItems /\ used' = 1..(n + 1)
    BY <2>1, <2>2, <2>3, OptionsBoundsAssumption, SMT DEF Ids
  <2>5. /\ DOMAIN items' = DOMAIN items \cup {i} /\ items'[i] = item
        /\ \A j \in DOMAIN items \ {i} : items'[j] = items[j]
    BY <2>1, BecomesWith, Zenon
  <2> QED
    BY <2>1, <2>4, <2>5, Zenon DEF ItemTypes
<1>2. CASE Replaced
  <2>1. PICK i \in DOMAIN items, item \in ItemRecords :
           items' = With(items, i, item) /\ UNCHANGED used
    BY <1>2, Zenon DEF Replaced
  <2>2. /\ DOMAIN items' = DOMAIN items \cup {i} /\ items'[i] = item
        /\ \A j \in DOMAIN items \ {i} : items'[j] = items[j]
    BY <2>1, BecomesWith, Zenon
  <2> QED
    BY <2>1, <2>2, Zenon DEF ItemTypes
<1>3. CASE Removed
  <2>1. PICK i \in used : items' = Without(items, i) /\ UNCHANGED used
    BY <1>3, Zenon DEF Removed
  <2>2. /\ DOMAIN items' \subseteq DOMAIN items
        /\ \A j \in DOMAIN items' : items'[j] = items[j]
    BY <2>1, WithoutIs, Zenon
  <2> QED
    BY <2>1, <2>2, Zenon DEF ItemTypes
<1>4. CASE UNCHANGED <<items, used>>
  BY <1>4, Zenon DEF ItemTypes
<1> QED
  BY <1>1, <1>2, <1>3, <1>4 DEF Change

\* Ids stay given out, and what is there under one was there before, of the same kind.
LEMMA ChangeKeeps ==
    ASSUME ItemTypes, Change
    PROVE  /\ used \subseteq used'
           /\ \A i \in used : i \in DOMAIN items' =>
                 i \in DOMAIN items /\ items'[i].kind = items[i].kind
<1>1. CASE Added
  <2>1. PICK i \in Ids \ used, item \in ItemRecords :
           used' = used \cup {i} /\ items' = With(items, i, item)
    BY <1>1, Zenon DEF Added
  <2>2. /\ DOMAIN items' = DOMAIN items \cup {i}
        /\ \A j \in DOMAIN items \ {i} : items'[j] = items[j]
    BY <2>1, BecomesWith, Zenon
  <2> QED
    BY <2>1, <2>2, Zenon
<1>2. CASE Replaced
  <2>1. PICK i \in DOMAIN items, item \in ItemRecords :
           /\ item.kind = items[i].kind /\ items' = With(items, i, item)
           /\ UNCHANGED used
    BY <1>2, Zenon DEF Replaced
  <2>2. /\ DOMAIN items' = DOMAIN items \cup {i} /\ items'[i] = item
        /\ \A j \in DOMAIN items \ {i} : items'[j] = items[j]
    BY <2>1, BecomesWith, Zenon
  <2> QED
    BY <2>1, <2>2, Zenon
<1>3. CASE Removed
  <2>1. PICK i \in used : items' = Without(items, i) /\ UNCHANGED used
    BY <1>3, Zenon DEF Removed
  <2>2. /\ DOMAIN items' \subseteq DOMAIN items
        /\ \A j \in DOMAIN items' : items'[j] = items[j]
    BY <2>1, WithoutIs, Zenon
  <2> QED
    BY <2>1, <2>2, Zenon
<1>4. CASE UNCHANGED <<items, used>>
  BY <1>4, Zenon
<1> QED
  BY <1>1, <1>2, <1>3, <1>4 DEF Change

LEMMA NextChanges ==
    ASSUME ItemTypes, FlowTypes, [Next]_vars
    PROVE  Change
BY NextIs, Zenon DEF SaveStep, Change, optionVars

\* A flow that fits goes on fitting.
LEMMA FitsOn ==
    ASSUME ItemTypes, Change, NEW fl, Fits(fl, items, used)
    PROVE  Fits(fl, items', used')
<1>1. NewItem \notin DOMAIN items'
  <2>1. ItemTypes'
    BY ChangeTyped
  <2> QED
    BY <2>1, OptionsBoundsAssumption, SMT DEF ItemTypes, NewItem
<1> QED
  BY <1>1, ChangeKeeps, Zenon DEF Fits

LEMMA GotoFits ==
    ASSUME ItemTypes, Change, FlowTypes, NEW f \in Flows, NEW fl, Fits(fl, items, used),
           Goto(f, fl)
    PROVE  FlowTypes'
<1>1. flow' \in [Flows -> FlowRecords]
  BY Zenon DEF FlowTypes, Fits, Goto
<1>2. ASSUME NEW o \in Flows PROVE Fits(flow'[o], items, used)
  BY Zenon DEF FlowTypes, Goto
<1>3. ASSUME NEW o \in Flows PROVE Fits(flow'[o], items', used')
  BY <1>2, FitsOn, Zenon
<1> QED
  BY <1>1, <1>3, Zenon DEF FlowTypes


\* There is no item under the id of a new one.
LEMMA NewFits ==
    ASSUME ItemTypes, NEW fl \in FlowRecords, fl.id = NewItem
    PROVE  Fits(fl, items, used)
<1>1. NewItem \notin DOMAIN items
  BY OptionsBoundsAssumption, SMT DEF ItemTypes, NewItem
<1> QED
  BY <1>1, Zenon DEF Fits

LEMMA MenuIs == Menu \in FlowRecords /\ Menu.id = NewItem
<1>1. Menu \in FlowRecords
  BY Zenon DEF Menu, FlowRecords, Steps, Kinds
<1>2. Menu.id = NewItem
  BY SMT DEF Menu
<1> QED
  BY <1>1, <1>2

\* Whoever learns goes on learning for the same remote.
Learning == {"capture", "enabling", "listening", "stopping"}

LEMMA LearningFits ==
    ASSUME NEW f \in Flows, FlowTypes, flow[f].at \in Learning,
           NEW fl \in FlowRecords, fl.at \in Learning, fl.id = flow[f].id
    PROVE  Fits(fl, items, used)
<1>1. Fits(flow[f], items, used)
  BY Zenon DEF FlowTypes
<1>2. fl.at # "draft"
  BY SMT DEF Learning
<1> QED
  BY <1>1, <1>2, Zenon DEF Fits, Learning

LEMMA LearnsOn ==
    ASSUME NEW f \in Flows, FlowTypes, flow[f].at \in Learning
    PROVE  /\ \A a \in Learning : Fits([flow[f] EXCEPT !.at = a], items, used)
           /\ \A a \in Learning : Fits([flow[f] EXCEPT !.at = a, !.got = FALSE], items, used)
<1>1. flow[f] \in FlowRecords
  BY Zenon DEF FlowTypes
<1>2. Learning \subseteq Steps
  BY Zenon DEF Learning, Steps
<1>3. ASSUME NEW a \in Learning PROVE Fits([flow[f] EXCEPT !.at = a], items, used)
  <2>1. [flow[f] EXCEPT !.at = a] \in FlowRecords
    BY <1>1, <1>2, Zenon DEF FlowRecords
  <2>2. /\ [flow[f] EXCEPT !.at = a].at = a
        /\ [flow[f] EXCEPT !.at = a].id = flow[f].id
    BY <1>1, SMT DEF FlowRecords
  <2> QED
    BY <2>1, <2>2, LearningFits, Zenon
<1>4. ASSUME NEW a \in Learning
      PROVE  Fits([flow[f] EXCEPT !.at = a, !.got = FALSE], items, used)
  <2>1. [flow[f] EXCEPT !.at = a, !.got = FALSE] \in FlowRecords
    BY <1>1, <1>2, Zenon DEF FlowRecords
  <2>2. /\ [flow[f] EXCEPT !.at = a, !.got = FALSE].at = a
        /\ [flow[f] EXCEPT !.at = a, !.got = FALSE].id = flow[f].id
    BY <1>1, SMT DEF FlowRecords
  <2> QED
    BY <2>1, <2>2, LearningFits, Zenon
<1> QED
  BY <1>3, <1>4, Zenon

LEMMA GotFits ==
    ASSUME NEW r, Fits(r, items, used), NEW g \in BOOLEAN
    PROVE  Fits([r EXCEPT !.got = g], items, used)
<1>1. [r EXCEPT !.got = g] \in FlowRecords
  BY Zenon DEF Fits, FlowRecords
<1>2. /\ [r EXCEPT !.got = g].at = r.at
      /\ [r EXCEPT !.got = g].id = r.id
      /\ [r EXCEPT !.got = g].kind = r.kind
  BY SMT DEF Fits, FlowRecords
<1> QED
  BY <1>1, <1>2, Zenon DEF Fits

LEMMA ChooseFits ==
    ASSUME ItemTypes, FlowTypes, Change, NEW f \in Flows, Choose(f)
    PROVE  FlowTypes'
<1>1. ASSUME NEW a \in Steps PROVE Fits([Menu EXCEPT !.at = a], items, used)
  <2>1. [Menu EXCEPT !.at = a] \in FlowRecords
    BY MenuIs, Zenon DEF FlowRecords
  <2>2. [Menu EXCEPT !.at = a].id = NewItem
    BY SMT DEF Menu
  <2> QED
    BY <2>1, <2>2, NewFits, Zenon
<1>2. ASSUME NEW k \in Kinds PROVE Fits([Menu EXCEPT !.at = "draft", !.kind = k], items, used)
  <2>1. [Menu EXCEPT !.at = "draft", !.kind = k] \in FlowRecords
    BY MenuIs, Zenon DEF FlowRecords, Steps
  <2>2. [Menu EXCEPT !.at = "draft", !.kind = k].id = NewItem
    BY SMT DEF Menu
  <2> QED
    BY <2>1, <2>2, NewFits, Zenon
<1>3. {"options", "edit", "remove", "create", "learn"} \subseteq Steps
  BY Zenon DEF Steps
<1>4. \/ \E a \in Steps : Goto(f, [Menu EXCEPT !.at = a])
      \/ \E k \in Kinds : Goto(f, [Menu EXCEPT !.at = "draft", !.kind = k])
  BY <1>3, Zenon DEF Choose, Show
<1> QED
  BY <1>1, <1>2, <1>4, GotoFits, Zenon

LEMMA PickEditFits ==
    ASSUME ItemTypes, FlowTypes, Change, NEW f \in Flows, PickEdit(f)
    PROVE  FlowTypes'
<1>1. PICK i \in used :
         Goto(f, IF i \in DOMAIN items
                 THEN [Menu EXCEPT !.at = "draft", !.kind = items[i].kind, !.id = i]
                 ELSE Menu)
  BY Zenon DEF PickEdit, Show
<1>2. CASE i \in DOMAIN items
  <2> DEFINE fl == [Menu EXCEPT !.at = "draft", !.kind = items[i].kind, !.id = i]
  <2>1. i \in Ids /\ items[i].kind \in Kinds
    <3>1. items[i].kind \in Kinds
      BY <1>2, Zenon DEF ItemTypes, ItemRecords
    <3>2. used \subseteq Ids
      BY OptionsBoundsAssumption, SMT DEF ItemTypes, Ids
    <3> QED
      BY <3>1, <3>2
  <2>2. fl \in FlowRecords
    BY <2>1, MenuIs, Zenon DEF FlowRecords, Steps
  <2>3. fl.at = "draft" /\ fl.kind = items[i].kind /\ fl.id = i
    BY SMT DEF Menu
  <2>4. Goto(f, fl)
    BY <1>1, <1>2, Zenon
  <2> HIDE DEF fl
  <2>5. Fits(fl, items, used)
    BY <2>2, <2>3, SMT DEF Fits
  <2> QED
    BY <2>4, <2>5, GotoFits, Zenon
<1>3. CASE i \notin DOMAIN items
  BY <1>1, <1>3, GotoFits, NewFits, MenuIs, Zenon
<1> QED
  BY <1>2, <1>3

LEMMA SubmitLearnFits ==
    ASSUME ItemTypes, FlowTypes, Change, NEW f \in Flows, SubmitLearn(f)
    PROVE  FlowTypes'
<1>1. PICK i \in used \cup {NewItem} :
         /\ i # NewItem /\ i \in DOMAIN items => items[i].kind = "remote"
         /\ Goto(f, [flow[f] EXCEPT !.at = "capture", !.id = i])
  BY Zenon DEF SubmitLearn, Show
<1> DEFINE fl == [flow[f] EXCEPT !.at = "capture", !.id = i]
<1>2. NewItem \notin DOMAIN items /\ used \subseteq Ids
  BY OptionsBoundsAssumption, SMT DEF ItemTypes, NewItem, Ids
<1>3. flow[f] \in FlowRecords
  BY Zenon DEF FlowTypes
<1>4. fl \in FlowRecords
  BY <1>2, <1>3, Zenon DEF FlowRecords, Steps
<1>5. fl.at = "capture" /\ fl.id = i
  BY <1>3, SMT DEF FlowRecords
<1>6. Goto(f, fl)
  BY <1>1
<1> HIDE DEF fl
<1>7. Fits(fl, items, used)
  <2>1. fl.at # "draft"
    BY <1>5, SMT
  <2> QED
    BY <1>1, <1>2, <1>4, <1>5, <2>1, Zenon DEF Fits
<1> QED
  BY <1>6, <1>7, GotoFits, Zenon

LEMMA CodeFits ==
    ASSUME ItemTypes, FlowTypes, Code
    PROVE  FlowTypes'
<1>1. ASSUME NEW f \in Flows PROVE Fits(flow'[f], items, used)
  <2> DEFINE g == flow[f].got \/ flow[f].at \in {"enabling", "listening"}
  <2>1. g \in BOOLEAN
    OBVIOUS
  <2>2. flow'[f] = [flow[f] EXCEPT !.got = g]
    BY Zenon DEF Code
  <2> HIDE DEF g
  <2> QED
    BY <2>1, <2>2, GotFits, Zenon DEF FlowTypes
<1>2. flow' \in [Flows -> FlowRecords]
  <2>1. \A f \in Flows : flow'[f] \in FlowRecords
    BY <1>1, Zenon DEF Fits
  <2> QED
    BY <2>1, Zenon DEF Code
<1> QED
  BY <1>1, <1>2, Zenon DEF Code, FlowTypes, optionVars

\* A step leaves every flow fitting.
LEMMA FlowStep ==
    ASSUME ItemTypes, FlowTypes, [Next]_vars
    PROVE  FlowTypes'
<1>1. Change
  BY NextChanges
<1>2. Learning = {"capture", "enabling", "listening", "stopping"}
  BY Zenon DEF Learning
<1>3. ASSUME NEW f \in Flows, SaveStep(f) \/ Close(f)
      PROVE  FlowTypes'
  BY <1>1, <1>3, MenuIs, NewFits, GotoFits, Zenon DEF SaveStep, Saved, Close, Show
<1>4. ASSUME NEW f \in Flows, SaveSettings(f) \/ SaveDraft(f) \/ Remove(f)
      PROVE  FlowTypes'
  BY <1>3, <1>4, SettingsSaved, DraftSaved, RemoveSaved, Zenon
<1>5. ASSUME NEW f \in Flows, Capture(f)
      PROVE  FlowTypes'
  BY <1>1, <1>2, <1>5, LearnsOn, GotoFits, Zenon DEF Capture, Show
<1>6. ASSUME NEW f \in Flows, Enabled(f)
      PROVE  FlowTypes'
  BY <1>1, <1>2, <1>6, LearnsOn, GotoFits, Zenon DEF Enabled
<1>7. ASSUME NEW f \in Flows, ListenEnds(f)
      PROVE  FlowTypes'
  BY <1>1, <1>2, <1>7, LearnsOn, GotoFits, Zenon DEF ListenEnds
<1>8. ASSUME NEW f \in Flows, Stopped(f)
      PROVE  FlowTypes'
  <2>1. flow[f].at = "stopping"
    BY <1>8, Zenon DEF Stopped
  <2>2. \/ SaveStep(f)
        \/ \E a \in Learning : \/ Goto(f, [flow[f] EXCEPT !.at = a])
                               \/ Goto(f, [flow[f] EXCEPT !.at = a, !.got = FALSE])
    BY <1>2, <1>8, <2>1, LearnedSaved, Zenon DEF Stopped
  <2> QED
    BY <1>1, <1>2, <1>3, <2>1, <2>2, LearnsOn, GotoFits, Zenon
<1>9. BeginReload \/ PlatformsAdded \/ Loaded \/ UNCHANGED vars => FlowTypes'
  BY Zenon DEF BeginReload, PlatformsAdded, Loaded, vars, optionVars, FlowTypes
<1> QED
  BY <1>1, <1>3, <1>4, <1>5, <1>6, <1>7, <1>8, <1>9,
     ChooseFits, PickEditFits, SubmitLearnFits, CodeFits, Zenon DEF Next

LEMMA OptionsInit == Init => ItemTypes /\ FlowTypes
<1> SUFFICES ASSUME Init PROVE ItemTypes /\ FlowTypes
  OBVIOUS
<1>1. ItemTypes
  <2>1. 1 \in 0..MaxItems /\ used = 1..1
    BY OptionsBoundsAssumption, SMT DEF Init
  <2>2. items[1] \in AllItems /\ DOMAIN items = used
    BY Zenon DEF Init
  <2>3. items[1].kind \in Kinds
    BY <2>2, Zenon DEF AllItems, Remotes, Relays, SerialPorts, Kinds
  <2>4. items[1] \in ItemRecords
    BY <2>2, <2>3, ItemsOfAKind, Zenon DEF Items
  <2>5. \A i \in used : i = 1
    BY Zenon DEF Init
  <2> QED
    BY <2>1, <2>2, <2>4, <2>5, Zenon DEF ItemTypes
<1>2. FlowTypes
  BY <1>1, NewFits, MenuIs, Zenon DEF Init, FlowTypes
<1> QED
  BY <1>1, <1>2

\* A step keeps both.
LEMMA OptionsStep == ItemTypes /\ FlowTypes /\ [Next]_vars => (ItemTypes /\ FlowTypes)'
BY NextChanges, ChangeTyped, FlowStep, Zenon

-----------------------------------------------------------------------------
(* What flows do to each other's items.                                    *)

\* An item that was removed stays removed: an id is not given out again, and a draft
\* under it replaces what is there or nothing.
THEOREM RemovedIsFinal == Spec => RemovedStaysRemoved
<1>1. ItemTypes /\ FlowTypes /\ [Next]_vars
      => [\A i \in used : i \notin DOMAIN items => i \notin DOMAIN items']_vars
  BY NextChanges, ChangeKeeps, Zenon
<1> QED
  BY <1>1, OptionsInit, OptionsStep, PTL DEF Spec, RemovedStaysRemoved

\* Flow f ends by what it was opened for.
OwnChange(f) ==
    /\ items' # items => settings' = settings
    /\ \A i \in DOMAIN items :
          \/ i \in DOMAIN items' /\ items'[i] = items[i]
          \/ /\ flow'[f] = Menu
             /\ \/ flow[f].at = "remove" /\ i \notin DOMAIN items'
                \/ flow[f].at = "draft" /\ flow[f].id = i
                \/ /\ flow[f].at = "stopping" /\ flow[f].id = i
                   /\ i \in DOMAIN items'
                   /\ items[i].commands \subseteq items'[i].commands

LEMMA AddingIsOwn ==
    ASSUME ItemTypes, NEW f \in Flows, NEW item, AddItem(f, item)
    PROVE  OwnChange(f)
<1>1. Cardinality(used) + 1 \notin DOMAIN items
  BY NewIdIsFresh, Zenon DEF AddItem, ItemTypes
<1>2. /\ settings' = settings
      /\ items' = With(items, Cardinality(used) + 1, item)
  BY Zenon DEF AddItem, Saved
<1> QED
  BY <1>1, <1>2, BecomesWith, Zenon DEF OwnChange

\* What is replaced has the id of the draft.
LEMMA ReplacingIs ==
    ASSUME FlowTypes, NEW f \in Flows, NEW item, ReplaceItem(f, item)
    PROVE  /\ settings' = settings /\ flow'[f] = Menu
           /\ \A i \in DOMAIN items :
                 i \in DOMAIN items' /\ items'[i] = IF i = flow[f].id THEN item ELSE items[i]
<1>1. settings' = settings /\ flow'[f] = Menu
  BY Zenon DEF ReplaceItem, Saved, Goto, FlowTypes
<1>2. CASE flow[f].id \in DOMAIN items
  <2>1. items' = With(items, flow[f].id, item)
    BY <1>2, Zenon DEF ReplaceItem, Saved
  <2>2. /\ DOMAIN items' = DOMAIN items \cup {flow[f].id}
        /\ items'[flow[f].id] = item
        /\ \A j \in DOMAIN items \ {flow[f].id} : items'[j] = items[j]
    BY <2>1, BecomesWith
  <2>3. ASSUME NEW i \in DOMAIN items
        PROVE  i \in DOMAIN items' /\ items'[i] = IF i = flow[f].id THEN item ELSE items[i]
    BY <2>2, Zenon
  <2> QED
    BY <1>1, <2>3, Zenon
<1>3. CASE flow[f].id \notin DOMAIN items
  BY <1>1, <1>3, Zenon DEF ReplaceItem, Saved
<1> QED
  BY <1>2, <1>3

LEMMA LearningIsOwn ==
    ASSUME ItemTypes, FlowTypes, NEW f \in Flows, Stopped(f)
    PROVE  OwnChange(f)
<1>1. flow[f].at = "stopping" /\ (SaveLearned(f) \/ UNCHANGED <<optionVars, entryVars>>)
  BY Zenon DEF Stopped
<1>2. ASSUME NEW item, AddItem(f, item) PROVE OwnChange(f)
  BY <1>2, AddingIsOwn
<1>3. ASSUME flow[f].id \in DOMAIN items, NEW n \in RemoteNames,
             ReplaceItem(f, [items[flow[f].id] EXCEPT !.commands = @ \cup {n}])
      PROVE  OwnChange(f)
  <2> DEFINE item == [items[flow[f].id] EXCEPT !.commands = @ \cup {n}]
  <2>1. items[flow[f].id] \in ItemRecords
    BY <1>3, Zenon DEF ItemTypes
  <2>2. items[flow[f].id].commands \subseteq item.commands
    BY <2>1, SMT DEF ItemRecords
  <2>3. ReplaceItem(f, item)
    BY <1>3
  <2> HIDE DEF item
  <2>4. /\ settings' = settings /\ flow'[f] = Menu
        /\ \A i \in DOMAIN items :
              i \in DOMAIN items' /\ items'[i] = IF i = flow[f].id THEN item ELSE items[i]
    BY <2>3, ReplacingIs
  <2> QED
    BY <1>1, <1>3, <2>2, <2>4, Zenon DEF OwnChange
<1>4. UNCHANGED <<optionVars, entryVars>> => OwnChange(f)
  BY Zenon DEF OwnChange, optionVars
<1> QED
  BY <1>1, <1>2, <1>3, <1>4, Zenon DEF SaveLearned

\* What happens to an item is done by a flow that is about it: its removal, its edit
\* form, or a capture for it, and that loses none of its commands.
THEOREM SavesAreLocal == Spec => SavesOnlyItsOwn
<1>1. ASSUME ItemTypes, FlowTypes, NEW f \in Flows, SaveDraft(f)
      PROVE  OwnChange(f)
  <2>1. PICK item : IF flow[f].id = NewItem THEN AddItem(f, item) ELSE ReplaceItem(f, item)
    BY <1>1, Zenon DEF SaveDraft
  <2>2. ASSUME ReplaceItem(f, item) PROVE OwnChange(f)
    <3>1. flow[f].at = "draft"
      BY <1>1, Zenon DEF SaveDraft
    <3> QED
      BY <1>1, <2>2, <3>1, ReplacingIs, Zenon DEF OwnChange
  <2> QED
    BY <1>1, <2>1, <2>2, AddingIsOwn, Zenon
<1>2. ASSUME ItemTypes, FlowTypes, NEW f \in Flows, Remove(f)
      PROVE  OwnChange(f)
  <2>1. PICK i \in used : items' = Without(items, i)
    BY <1>2, Zenon DEF Remove, Saved
  <2>2. /\ DOMAIN items' = DOMAIN items \ {i}
        /\ \A j \in DOMAIN items \ {i} : items'[j] = items[j]
    BY <2>1, WithoutIs, Zenon
  <2>3. flow'[f] = Menu /\ flow[f].at = "remove" /\ settings' = settings
    BY <1>2, Zenon DEF Remove, Saved, Goto, FlowTypes
  <2> QED
    BY <2>2, <2>3, Zenon DEF OwnChange
<1>3. ASSUME NEW f \in Flows, SaveSettings(f) PROVE UNCHANGED items
  BY <1>3, Zenon DEF SaveSettings, Saved
<1>4. ASSUME NEW f \in Flows,
             \/ Close(f) \/ Choose(f) \/ PickEdit(f) \/ SubmitLearn(f) \/ Capture(f)
             \/ Enabled(f) \/ ListenEnds(f)
      PROVE  UNCHANGED optionVars
  BY <1>4, Zenon DEF Close, Choose, PickEdit, SubmitLearn, Capture, Show, Enabled, ListenEnds
<1>5. Code \/ BeginReload \/ PlatformsAdded \/ Loaded \/ UNCHANGED vars => UNCHANGED optionVars
  BY Zenon DEF Code, BeginReload, PlatformsAdded, Loaded, vars
<1>6. ItemTypes /\ FlowTypes /\ [Next]_vars
         => UNCHANGED items \/ \E f \in Flows : OwnChange(f)
  BY <1>1, <1>2, <1>3, <1>4, <1>5, LearningIsOwn, Zenon DEF Next, optionVars
<1>7. ItemTypes /\ FlowTypes /\ [Next]_vars
      => [/\ settings' # settings => items' = items
          /\ \A i \in DOMAIN items :
                \/ i \in DOMAIN items' /\ items'[i] = items[i]
                \/ \E f \in Flows :
                      /\ flow'[f] = Menu
                      /\ \/ flow[f].at = "remove" /\ i \notin DOMAIN items'
                         \/ flow[f].at = "draft" /\ flow[f].id = i
                         \/ /\ flow[f].at = "stopping" /\ flow[f].id = i
                            /\ i \in DOMAIN items'
                            /\ items[i].commands \subseteq items'[i].commands]_vars
  BY <1>6, Zenon DEF OwnChange
<1> QED
  BY <1>7, OptionsInit, OptionsStep, PTL DEF Spec, SavesOnlyItsOwn

-----------------------------------------------------------------------------
(* The learner.                                                            *)

Busy == {"enabling", "listening", "stopping"}

\* Who turned the learner on has not ended yet: the end is an answer to stop_IRL.
THEOREM LearnerIsTurnedOff == Spec => []LearnerOff
<1> DEFINE Inv == flow \in [Flows -> FlowRecords] /\ LearnerOff
<1>1. ASSUME Inv, flow' \in [Flows -> FlowRecords], [Next]_vars, learner' = "on"
      PROVE  \E f \in Flows : flow'[f].at \in Busy
  <2> USE DEF Busy
  <2>1. ASSUME learner = "on" PROVE \E f \in Flows : flow[f].at \in Busy
    BY <1>1, <2>1, Zenon DEF LearnerOff
  <2>2. ASSUME NEW f \in Flows, flow[f].at \notin Busy, learner' = learner,
               NEW fl, Goto(f, fl)
        PROVE  \E o \in Flows : flow'[o].at \in Busy
    BY <1>1, <2>1, <2>2, Zenon DEF Goto
  <2>3. ASSUME NEW f \in Flows,
               \/ Close(f) \/ Choose(f) \/ PickEdit(f) \/ SubmitLearn(f) \/ Capture(f)
        PROVE  flow[f].at \notin Busy /\ learner' = learner /\ \E fl : Goto(f, fl)
    <3>1. \E fl : Goto(f, fl)
      BY <2>3, Zenon DEF Close, Choose, PickEdit, SubmitLearn, Capture, Show
    <3>2. learner' = learner
      BY <2>3, Zenon DEF Close, Choose, PickEdit, SubmitLearn, Capture, Show
    <3>3. flow[f].at \in {"options", "draft", "edit", "remove", "learn", "create",
                          "capture", "init"}
      BY <2>3, Zenon DEF Close, Choose, PickEdit, SubmitLearn, Capture
    <3> QED
      BY <3>1, <3>2, <3>3, SMT
  <2>4. ASSUME NEW f \in Flows, SaveSettings(f) \/ SaveDraft(f) \/ Remove(f)
        PROVE  flow[f].at \notin Busy /\ learner' = learner /\ \E fl : Goto(f, fl)
    <3>1. flow[f].at \notin Busy /\ learner' = learner
      BY <2>4, SMT DEF SaveSettings, SaveDraft, Remove
    <3>2. Goto(f, Menu)
      BY <2>4, Zenon DEF SaveSettings, SaveDraft, Remove, AddItem, ReplaceItem, Saved
    <3> QED
      BY <3>1, <3>2
  <2>5. ASSUME NEW f \in Flows, Enabled(f) \/ ListenEnds(f)
        PROVE  \E o \in Flows : flow'[o].at \in Busy
    <3>1. \E a \in Busy : \/ flow'[f] = [flow[f] EXCEPT !.at = a]
                          \/ flow'[f] = [flow[f] EXCEPT !.at = a, !.got = FALSE]
      BY <1>1, <2>5, Zenon DEF Enabled, ListenEnds, Goto
    <3>2. flow[f] \in FlowRecords
      BY <1>1
    <3>3. \A a \in Busy : /\ [flow[f] EXCEPT !.at = a].at = a
                          /\ [flow[f] EXCEPT !.at = a, !.got = FALSE].at = a
      BY <3>2, SMT DEF FlowRecords
    <3> QED
      BY <3>1, <3>3
  <2>6. ASSUME NEW f \in Flows, Stopped(f) PROVE FALSE
    <3>1. learner' \in {"off", IF learner = "on" THEN "left" ELSE learner}
      BY <2>6, Zenon DEF Stopped
    <3> QED
      BY <1>1, <3>1, SMT
  <2>7. ASSUME Code PROVE \E o \in Flows : flow'[o].at \in Busy
    <3>1. learner = "on"
      BY <1>1, <2>7, Zenon DEF Code
    <3>2. \A o \in Flows : flow'[o].at = flow[o].at
      BY <1>1, <2>7, SMT DEF Code, FlowRecords
    <3> QED
      BY <2>1, <3>1, <3>2
  <2>8. ASSUME BeginReload \/ PlatformsAdded \/ Loaded \/ UNCHANGED vars
        PROVE  \E o \in Flows : flow'[o].at \in Busy
    BY <1>1, <2>1, <2>8, Zenon DEF BeginReload, PlatformsAdded, Loaded, vars
  <2> QED
    BY <1>1, <2>2, <2>3, <2>4, <2>5, <2>6, <2>7, <2>8, Zenon DEF Next
<1>2. Init => Inv
  BY MenuIs, SMT DEF Init, LearnerOff
<1>3. ItemTypes /\ FlowTypes /\ (ItemTypes /\ FlowTypes)' /\ Inv /\ [Next]_vars => Inv'
  BY <1>1, Zenon DEF LearnerOff, FlowTypes, Busy
<1> QED
  BY <1>2, <1>3, OptionsInit, OptionsStep, PTL DEF Spec

-----------------------------------------------------------------------------
(* The entities.                                                           *)

\* The entities of one item.
Of(its, i) ==
    {<<i, n>> : n \in its[i].commands}
    \cup IF its[i].kind = "relay" THEN {<<i, "switch">>}
         ELSE IF its[i].kind = "serial"
              THEN {<<i, "text">>} \cup IF its[i].listen THEN {<<i, "rx">>} ELSE {}
         ELSE {}

LEMMA EntitiesAre ==
    ASSUME NEW its, \A i \in DOMAIN its : its[i] \in ItemRecords
    PROVE  Entities(its) = UNION {Of(its, i) : i \in DOMAIN its}
<1> DEFINE of(i) ==
      CASE its[i].kind = "remote" -> {<<i, n>> : n \in its[i].commands}
        [] its[i].kind = "relay"  -> {<<i, "switch">>}
        [] its[i].kind = "serial" -> {<<i, n>> : n \in its[i].commands \cup {"text"}}
                                     \cup IF its[i].listen THEN {<<i, "rx">>} ELSE {}
<1>1. ASSUME NEW i \in DOMAIN its PROVE of(i) = Of(its, i)
  <2>1. its[i].kind \in Kinds /\ (its[i].kind = "relay" => its[i].commands = {})
    BY <1>1, Zenon DEF ItemRecords
  <2>2. CASE its[i].kind = "remote"
    <3>1. its[i].kind # "relay" /\ its[i].kind # "serial"
      BY <2>2, SMT
    <3>2. of(i) = {<<i, n>> : n \in its[i].commands}
      BY <2>2, <3>1, Zenon
    <3> QED
      BY <3>1, <3>2, Zenon DEF Of
  <2>3. CASE its[i].kind = "relay"
    <3>1. its[i].kind # "remote" /\ its[i].kind # "serial"
      BY <2>3, SMT
    <3>2. of(i) = {<<i, "switch">>}
      BY <2>3, <3>1, Zenon
    <3> QED
      BY <2>1, <2>3, <3>2, Zenon DEF Of
  <2>4. CASE its[i].kind = "serial"
    <3>1. its[i].kind # "remote" /\ its[i].kind # "relay"
      BY <2>4, SMT
    <3>2. of(i) = {<<i, n>> : n \in its[i].commands \cup {"text"}}
                  \cup IF its[i].listen THEN {<<i, "rx">>} ELSE {}
      BY <2>4, <3>1, Zenon
    <3>3. {<<i, n>> : n \in its[i].commands \cup {"text"}}
          = {<<i, n>> : n \in its[i].commands} \cup {<<i, "text">>}
      BY Zenon
    <3>4. Of(its, i) = {<<i, n>> : n \in its[i].commands}
                       \cup ({<<i, "text">>} \cup IF its[i].listen THEN {<<i, "rx">>} ELSE {})
      BY <2>4, <3>1, Zenon DEF Of
    <3> QED
      BY <3>2, <3>3, <3>4, Zenon
  <2> QED
    BY <2>1, <2>2, <2>3, <2>4, Zenon DEF Kinds
<1>2. Entities(its) = UNION {of(i) : i \in DOMAIN its}
  BY Zenon DEF Entities
<1> HIDE DEF of
<1> QED
  BY <1>1, <1>2, Zenon

\* The entities that are made are those that a cleanup leaves alone, the registry's
\* view of the options and the platforms' are one.
LEMMA ActiveAre ==
    ASSUME NEW its, \A i \in DOMAIN its : its[i] \in ItemRecords
    PROVE  Active(its) = Entities(its)
<1>1. ASSUME NEW u \in Active(its) PROVE \E i \in DOMAIN its : u \in Of(its, i)
  <2>1. CASE u \in ActiveButtons(its)
    BY <2>1, Zenon DEF ActiveButtons, Of
  <2>2. ASSUME NEW i \in IdsOf(its, "relay"), u = <<i, "switch">>
        PROVE  i \in DOMAIN its /\ u \in Of(its, i)
    BY <2>2, Zenon DEF IdsOf, Of
  <2>3. ASSUME NEW i \in IdsOf(its, "serial")
        PROVE  /\ i \in DOMAIN its
               /\ u = <<i, "text">> => u \in Of(its, i)
               /\ u = <<i, "rx">> /\ its[i].listen => u \in Of(its, i)
    <3>1. i \in DOMAIN its /\ its[i].kind = "serial"
      BY Zenon DEF IdsOf
    <3>2. its[i].kind # "relay"
      BY <3>1, SMT
    <3> QED
      BY <3>1, <3>2, Zenon DEF Of
  <2> QED
    BY <2>1, <2>2, <2>3, Zenon DEF Active
<1>2. ASSUME NEW i \in DOMAIN its, NEW u \in Of(its, i) PROVE u \in Active(its)
  <2>1. CASE u \in {<<i, n>> : n \in its[i].commands}
    BY <2>1, Zenon DEF Active, ActiveButtons
  <2>2. CASE its[i].kind = "relay" /\ u = <<i, "switch">>
    BY <2>2, Zenon DEF Active, IdsOf
  <2>3. CASE its[i].kind = "serial" /\ u = <<i, "text">>
    BY <2>3, Zenon DEF Active, IdsOf
  <2>4. CASE its[i].kind = "serial" /\ its[i].listen /\ u = <<i, "rx">>
    BY <2>4, Zenon DEF Active, IdsOf
  <2> QED
    BY <2>1, <2>2, <2>3, <2>4, Zenon DEF Of
<1>3. Entities(its) = UNION {Of(its, i) : i \in DOMAIN its}
  BY EntitiesAre
<1>4. \A u : u \in Active(its) <=> u \in UNION {Of(its, i) : i \in DOMAIN its}
  BY <1>1, <1>2, Zenon
<1> QED
  BY <1>3, <1>4, Zenon

\* Every entity is one of an item.
LEMMA EntityIs ==
    ASSUME NEW its, \A i \in DOMAIN its : its[i] \in ItemRecords, NEW u \in Entities(its)
    PROVE  u[1] \in DOMAIN its /\ u \in (DOMAIN its) \X (Names \cup {"switch", "text", "rx"})
<1>1. PICK i \in DOMAIN its : u \in Of(its, i)
  <2>1. Entities(its) = UNION {Of(its, i) : i \in DOMAIN its}
    BY EntitiesAre
  <2>2. u \in UNION {Of(its, i) : i \in DOMAIN its}
    BY <2>1, Zenon
  <2> QED
    BY <2>2, Zenon
<1>2. its[i].commands \subseteq Names
  BY Zenon DEF ItemRecords
<1>3. PICK n \in Names \cup {"switch", "text", "rx"} : u = <<i, n>>
  BY <1>1, <1>2, Zenon DEF Of
<1>4. u[1] = i
  BY <1>3, SMT
<1>5. <<i, n>> \in (DOMAIN its) \X (Names \cup {"switch", "text", "rx"})
  BY <1>1, <1>3, SMT
<1> QED
  BY <1>1, <1>3, <1>4, <1>5

-----------------------------------------------------------------------------
(* The entry.                                                              *)

Purposes == Names \cup {"switch", "text", "rx"}

EntryTypes ==
    /\ settings \in BOOLEAN /\ saves \in 0..MaxSaves
    /\ phase \in {"loaded", "setup", "adding"}
    /\ waiting \in 0..saves /\ missed \in BOOLEAN
    /\ registry \in SUBSET (used \X Purposes)
    /\ devices \in SUBSET used
    /\ learner \in {"off", "on", "left"}

LEMMA LearnerTyped ==
    ASSUME learner \in {"off", "on", "left"}, [Next]_vars
    PROVE  learner' \in {"off", "on", "left"}
<1>1. ASSUME NEW f \in Flows, Enabled(f)
      PROVE  learner' \in {"off", "on", "left"}
  BY <1>1, Zenon DEF Enabled
<1>2. ASSUME NEW f \in Flows, Stopped(f)
      PROVE  learner' \in {"off", "on", "left"}
  BY <1>2, Zenon DEF Stopped
<1>3. ASSUME NEW f \in Flows,
             \/ Close(f) \/ Choose(f) \/ PickEdit(f) \/ SubmitLearn(f) \/ Capture(f)
             \/ SaveSettings(f) \/ SaveDraft(f) \/ Remove(f) \/ ListenEnds(f)
      PROVE  learner' = learner
  BY <1>3, Zenon DEF Close, Choose, PickEdit, SubmitLearn, Capture, Show, SaveSettings,
                     SaveDraft, Remove, ListenEnds
<1>4. Code \/ BeginReload \/ PlatformsAdded \/ Loaded \/ UNCHANGED vars => learner' = learner
  BY Zenon DEF Code, BeginReload, PlatformsAdded, Loaded, vars
<1> QED
  BY <1>1, <1>2, <1>3, <1>4, Zenon DEF Next

\* What a save does to the entry.
LEMMA SaveIs ==
    ASSUME NEW f \in Flows, SaveStep(f)
    PROVE  \/ UNCHANGED <<items, settings, saves, entryVars>>
           \/ /\ saves < MaxSaves /\ saves' = saves + 1
              /\ phase = "loaded" /\ phase' = phase /\ missed' = missed
              /\ waiting' = waiting + 1
              /\ registry' = WithoutDevices(Cleaned(registry, items'), items')
              /\ devices' = Devices(items')
           \/ /\ saves < MaxSaves /\ saves' = saves + 1
              /\ missed' = TRUE /\ UNCHANGED <<phase, waiting, registry, devices>>
BY Zenon DEF SaveStep, Saved

LEMMA EntryStep ==
    ASSUME ItemTypes, FlowTypes, EntryTypes, [Next]_vars
    PROVE  EntryTypes'
<1>1. used \subseteq used'
  BY NextChanges, ChangeKeeps
<1>2. /\ registry \in SUBSET (used' \X Purposes)
      /\ devices \in SUBSET used'
  BY <1>1, Zenon DEF EntryTypes
<1>3. \A its : /\ WithoutDevices(Cleaned(registry, its), its) \subseteq registry
               /\ Devices(its) \subseteq devices
  BY Zenon DEF WithoutDevices, Cleaned, Devices
<1>4. \A its : Cleaned(registry, its) \subseteq registry
  BY Zenon DEF Cleaned
<1>5. learner' \in {"off", "on", "left"}
  BY LearnerTyped, Zenon DEF EntryTypes
<1>6. saves \in Nat /\ waiting \in Nat /\ waiting <= saves
  BY OptionsBoundsAssumption, SMT DEF EntryTypes
<1>7. ASSUME NEW f \in Flows, SaveStep(f)
      PROVE  EntryTypes'
  <2>1. settings' \in BOOLEAN
    BY <1>7, Zenon DEF SaveStep, EntryTypes
  <2>2. /\ registry' \subseteq registry /\ devices' \subseteq devices
        /\ phase' \in {"loaded", "setup", "adding"} /\ missed' \in BOOLEAN
    BY <1>3, <1>7, SaveIs, Zenon DEF EntryTypes, entryVars
  <2>3. /\ saves' \in {saves, saves + 1} /\ saves' \in 0..MaxSaves
        /\ \/ waiting' = waiting
           \/ waiting' = waiting + 1 /\ saves' = saves + 1
    <3>1. \/ saves' = saves /\ waiting' = waiting
          \/ /\ saves < MaxSaves /\ saves' = saves + 1
             /\ waiting' = waiting + 1 \/ waiting' = waiting
      BY <1>7, SaveIs, Zenon DEF entryVars
    <3> QED
      BY <1>6, <3>1, OptionsBoundsAssumption, SMT DEF EntryTypes
  <2>4. waiting' \in 0..saves'
    BY <1>6, <2>3, SMT
  <2> QED
    BY <1>2, <1>5, <2>1, <2>2, <2>3, <2>4, Zenon DEF EntryTypes
<1>8. ASSUME UNCHANGED optionVars, Reloads
      PROVE  EntryTypes'
  <2>1. /\ settings' \in BOOLEAN /\ saves' \in 0..MaxSaves
        /\ phase' \in {"loaded", "setup", "adding"} /\ missed' \in BOOLEAN
    BY <1>8, Zenon DEF Reloads, BeginReload, PlatformsAdded, Loaded, optionVars, entryVars,
                       EntryTypes
  <2>2. waiting' \in 0..saves'
    <3>1. /\ saves' = saves
          /\ waiting' = waiting \/ (waiting > 0 /\ waiting' = waiting - 1)
      BY <1>8, Zenon DEF Reloads, BeginReload, PlatformsAdded, Loaded, optionVars, entryVars
    <3> QED
      BY <1>6, <3>1, SMT
  <2>3. Entities(items) \subseteq used \X Purposes /\ IdsOf(items, "remote") \subseteq used
    <3>1. ASSUME NEW u \in Entities(items)
          PROVE  u \in (DOMAIN items) \X Purposes
      BY EntityIs DEF ItemTypes, Purposes
    <3>2. DOMAIN items \subseteq used
      BY Zenon DEF ItemTypes
    <3> QED
      BY <3>1, <3>2, Zenon DEF IdsOf
  <2>4. registry' \in SUBSET (used' \X Purposes)
    <3>1. registry' \subseteq registry \cup Entities(items) /\ used' = used
      BY <1>3, <1>4, <1>8, Zenon DEF Reloads, BeginReload, PlatformsAdded, Loaded,
                                     optionVars, entryVars
    <3> QED
      BY <1>2, <2>3, <3>1, Zenon
  <2>5. devices' \in SUBSET used'
    <3>1. devices' \subseteq devices \cup IdsOf(items, "remote") /\ used' = used
      BY <1>3, <1>8, Zenon DEF Reloads, BeginReload, PlatformsAdded, Loaded,
                               optionVars, entryVars
    <3> QED
      BY <1>2, <2>3, <3>1, Zenon
  <2> QED
    BY <1>5, <2>1, <2>2, <2>4, <2>5, Zenon DEF EntryTypes
<1> QED
  BY <1>7, <1>8, NextIs, Zenon

LEMMA EntryInit == Init => EntryTypes
<1> SUFFICES ASSUME Init PROVE EntryTypes
  OBVIOUS
<1>1. ItemTypes
  BY OptionsInit
<1>2. ASSUME NEW u \in Entities(items)
      PROVE  u \in (DOMAIN items) \X Purposes
  BY <1>1, EntityIs DEF ItemTypes, Purposes
<1>3. registry \in SUBSET (used \X Purposes) /\ devices \in SUBSET used
  BY <1>2, Zenon DEF Init, IdsOf
<1>4. saves \in 0..MaxSaves /\ waiting \in 0..saves
  BY OptionsBoundsAssumption, SMT DEF Init
<1> QED
  BY <1>3, <1>4, Zenon DEF Init, EntryTypes

TypeInv == ItemTypes /\ FlowTypes /\ EntryTypes

LEMMA TypeInit == Init => TypeInv
BY OptionsInit, EntryInit, Zenon DEF TypeInv

LEMMA TypeStep == TypeInv /\ [Next]_vars => TypeInv'
BY OptionsStep, EntryStep, Zenon DEF TypeInv

LEMMA TypeInvIsEnough == TypeInv => TypeOK
<1> SUFFICES ASSUME TypeInv PROVE TypeOK
  OBVIOUS
<1>1. waiting \in 0..MaxSaves
  BY OptionsBoundsAssumption, SMT DEF TypeInv, EntryTypes
<1>2. used \in SUBSET Ids
  BY OptionsBoundsAssumption, SMT DEF TypeInv, ItemTypes, Ids
<1>3. \A i \in DOMAIN items :
         items[i] \in [kind : Kinds, commands : SUBSET Names, listen : BOOLEAN]
  BY Zenon DEF TypeInv, ItemTypes, ItemRecords
<1>4. flow \in [Flows -> [at : Steps, kind : Kinds, id : used \cup {NewItem}, got : BOOLEAN]]
  <2>1. ASSUME NEW f \in Flows
        PROVE  flow[f] \in [at : Steps, kind : Kinds, id : used \cup {NewItem}, got : BOOLEAN]
    BY Zenon DEF TypeInv, FlowTypes, Fits, FlowRecords
  <2> QED
    BY <2>1, Zenon DEF TypeInv, FlowTypes
<1> QED
  BY <1>1, <1>2, <1>3, <1>4, Zenon DEF TypeInv, ItemTypes, EntryTypes, TypeOK, Purposes

\* Every variable keeps its type, and an item and a draft have ids that were given out.
THEOREM TypeCorrect == Spec => []TypeOK
<1>1. Spec => []TypeInv
  BY TypeInit, TypeStep, PTL DEF Spec
<1> QED
  BY <1>1, TypeInvIsEnough, PTL

-----------------------------------------------------------------------------
(* The registry.                                                           *)

\* What is registered as a device stays a remote as long as it is there.
DevicesAreRemotes == \A i \in devices \cap DOMAIN items : items[i].kind = "remote"

LEMMA DevicesStep == TypeInv /\ DevicesAreRemotes /\ [Next]_vars => DevicesAreRemotes'
<1> SUFFICES ASSUME TypeInv, DevicesAreRemotes, [Next]_vars,
                    NEW i \in devices', i \in DOMAIN items'
             PROVE  items'[i].kind = "remote"
  BY Zenon DEF DevicesAreRemotes
<1> USE DEF TypeInv
<1>1. ASSUME i \in devices
      PROVE  items'[i].kind = "remote"
  <2>1. i \in used
    BY <1>1, Zenon DEF EntryTypes
  <2>2. i \in DOMAIN items /\ items'[i].kind = items[i].kind
    BY <2>1, NextChanges, ChangeKeeps
  <2> QED
    BY <1>1, <2>2, Zenon DEF DevicesAreRemotes
<1>2. ASSUME NEW f \in Flows, SaveStep(f)
      PROVE  i \in devices
  BY <1>2, SaveIs, Zenon DEF Devices, entryVars
<1>3. ASSUME UNCHANGED optionVars, Reloads, i \notin devices
      PROVE  items'[i].kind = "remote"
  BY <1>3, Zenon DEF Reloads, BeginReload, PlatformsAdded, Loaded, Devices, IdsOf,
                     optionVars, entryVars
<1> QED
  BY <1>1, <1>2, <1>3, NextIs, Zenon

\* A cleanup leaves an entity alone that is configured, in the registry and on its
\* device.
LEMMA CleanupKeeps ==
    ASSUME NEW its, \A i \in DOMAIN its : its[i] \in ItemRecords,
           \A i \in devices \cap DOMAIN its : its[i].kind = "remote",
           NEW u \in registry, u \in Entities(its)
    PROVE  u \in WithoutDevices(Cleaned(registry, its), its)
<1>1. u \in Cleaned(registry, its)
  BY ActiveAre, Zenon DEF Cleaned
<1>2. u[1] \in DOMAIN its
  BY EntityIs
<1> QED
  BY <1>1, <1>2, Zenon DEF WithoutDevices, Devices, IdsOf

\* Cleanups at every save and reload, and the platforms' own, never take an entity
\* that was configured before and is after, but for buttons of serial ports that look
\* like a sensor.
THEOREM EntitiesAreKept == Spec => KeepsConfiguredButLookalikes
<1>1. ASSUME TypeInv, DevicesAreRemotes, [Next]_vars,
             NEW u \in registry, u \in Entities(items), u \in Entities(items')
      PROVE  u \in registry' \cup Mistaken(items)
  <2> USE <1>1 DEF TypeInv
  <2>1. \A i \in DOMAIN items : items[i] \in ItemRecords
    BY Zenon DEF ItemTypes
  <2>2. \A i \in DOMAIN items' : items'[i] \in ItemRecords
    BY NextChanges, ChangeTyped, Zenon DEF ItemTypes
  <2>3. \A i \in devices \cap DOMAIN items' : items'[i].kind = "remote"
    <3>1. \A i \in used : i \in DOMAIN items' =>
             i \in DOMAIN items /\ items'[i].kind = items[i].kind
      BY NextChanges, ChangeKeeps
    <3> QED
      BY <3>1, Zenon DEF EntryTypes, DevicesAreRemotes
  <2>4. ASSUME NEW f \in Flows, SaveStep(f)
        PROVE  u \in registry'
    <3>1. u \in WithoutDevices(Cleaned(registry, items'), items')
      BY <2>2, <2>3, CleanupKeeps
    <3> QED
      BY <2>4, <3>1, SaveIs, Zenon DEF entryVars
  <2>5. ASSUME BeginReload PROVE u \in registry'
    <3>1. u \in WithoutDevices(Cleaned(registry, items), items)
      BY <2>1, CleanupKeeps DEF DevicesAreRemotes
    <3> QED
      BY <2>5, <3>1, Zenon DEF BeginReload
  <2>6. ASSUME PlatformsAdded PROVE u \in registry' \cup Mistaken(items)
    BY <2>6, Zenon DEF PlatformsAdded
  <2>7. Loaded \/ UNCHANGED entryVars => u \in registry'
    BY Zenon DEF Loaded, entryVars
  <2> QED
    BY <2>4, <2>5, <2>6, <2>7, NextIs, Zenon DEF Reloads
<1>2. TypeInv /\ DevicesAreRemotes /\ [Next]_vars
      => [registry \cap Entities(items) \cap Entities(items')
             \subseteq registry' \cup Mistaken(items)]_vars
  BY <1>1, Zenon
<1>3. Init => DevicesAreRemotes
  BY Zenon DEF Init, DevicesAreRemotes, IdsOf
<1> QED
  BY <1>2, <1>3, TypeInit, TypeStep, DevicesStep, PTL DEF Spec,
     KeepsConfiguredButLookalikes

\* Where no name ends in "rx" an entity keeps its entry as long as it is configured.
THEOREM AllEntitiesAreKept ==
    ASSUME RxNames = {}
    PROVE  Spec => KeepsConfigured
<1>1. Mistaken(items) = {}
  BY Zenon DEF Mistaken
<1>2. [registry \cap Entities(items) \cap Entities(items')
          \subseteq registry' \cup Mistaken(items)]_vars
      => [registry \cap Entities(items) \cap Entities(items') \subseteq registry']_vars
  BY <1>1, Zenon
<1> QED
  BY <1>2, EntitiesAreKept, PTL DEF KeepsConfiguredButLookalikes, KeepsConfigured

\* The registry is right from when the platforms are there, and before that holds no
\* device that is not to be; unless something was saved that nobody was told of.
Matches ==
    /\ Entities(items) \ Mistaken(items) \subseteq registry
    /\ \A u \in registry : u \in Entities(items) \/ u[2] \in GatewayNames
    /\ devices = IdsOf(items, "remote")

RegistryInv ==
    ~missed => /\ phase = "setup" => devices \subseteq IdsOf(items, "remote")
               /\ phase = "adding" \/ (phase = "loaded" /\ waiting = 0) => Matches

LEMMA RegistryStep == TypeInv /\ RegistryInv /\ [Next]_vars => RegistryInv'
<1> SUFFICES ASSUME TypeInv, RegistryInv, [Next]_vars PROVE RegistryInv'
  OBVIOUS
<1> USE DEF TypeInv
<1>1. waiting \in Nat
  BY OptionsBoundsAssumption, SMT DEF EntryTypes
<1>2. ASSUME UNCHANGED <<items, entryVars>> PROVE RegistryInv'
  BY <1>2, Zenon DEF RegistryInv, Matches, entryVars
<1>3. ASSUME NEW f \in Flows, SaveStep(f)
      PROVE  RegistryInv'
  <2>1. CASE phase = "loaded" /\ phase' = phase /\ waiting' = waiting + 1
    BY <1>1, <2>1, SMT DEF RegistryInv
  <2>2. CASE missed' = TRUE
    BY <2>2, Zenon DEF RegistryInv
  <2> QED
    BY <1>2, <1>3, <2>1, <2>2, SaveIs, Zenon
<1>4. ASSUME UNCHANGED optionVars, BeginReload PROVE RegistryInv'
  <2>1. phase' = "setup" /\ devices' \subseteq IdsOf(items', "remote")
    BY <1>4, Zenon DEF BeginReload, Devices, optionVars
  <2> QED
    BY <2>1, SMT DEF RegistryInv
<1>5. ASSUME UNCHANGED optionVars, PlatformsAdded PROVE RegistryInv'
  <2>1. /\ phase = "setup" /\ phase' = "adding" /\ missed' = missed /\ items' = items
        /\ devices' = devices \cup IdsOf(items, "remote")
    BY <1>5, Zenon DEF PlatformsAdded, optionVars
  <2>2. PICK dropped \in SUBSET Mistaken(items) :
           registry' = (Cleaned(registry, items) \cup Entities(items)) \ dropped
    BY <1>5, Zenon DEF PlatformsAdded
  <2>3. Entities(items) \ Mistaken(items) \subseteq registry'
    BY <2>2, Zenon
  <2>4. Active(items) = Entities(items)
    BY ActiveAre DEF ItemTypes
  <2>5. \A u \in registry' : u \in Entities(items) \/ u[2] \in GatewayNames
    BY <2>2, <2>4, Zenon DEF Cleaned, Managed
  <2>6. ~missed => Matches'
    BY <2>1, <2>3, <2>5, Zenon DEF RegistryInv, Matches
  <2>7. phase' # "setup"
    BY <2>1, SMT
  <2> QED
    BY <2>1, <2>6, <2>7, Zenon DEF RegistryInv
<1>6. ASSUME UNCHANGED optionVars, Loaded PROVE RegistryInv'
  <2>1. phase = "adding" /\ phase' # "setup"
    BY <1>6, SMT DEF Loaded
  <2> QED
    BY <1>6, <2>1, Zenon DEF Loaded, RegistryInv, Matches, optionVars
<1> QED
  BY <1>2, <1>3, <1>4, <1>5, <1>6, NextIs, Zenon DEF Reloads, optionVars

\* Once the reloads that saves asked for are over, there is an entity for what is
\* configured and nothing else, whatever flows saved and in which order; but for the
\* names that look like another entity's and for options saved during a setup.
THEOREM RegistryFollows == Spec => []RegistryMatchesButLookalikes
<1>1. Init => RegistryInv
  <2> SUFFICES ASSUME Init PROVE Matches /\ phase = "loaded"
    BY SMT DEF RegistryInv
  <2> QED
    BY Zenon DEF Init, Matches
<1>2. Spec => []RegistryInv
  BY <1>1, TypeInit, TypeStep, RegistryStep, PTL DEF Spec
<1>3. RegistryInv => RegistryMatchesButLookalikes
  BY Zenon DEF RegistryInv, Matches, RegistryMatchesButLookalikes
<1> QED
  BY <1>2, <1>3, PTL

\* Where no name ends like an entity of the gateway, what was removed leaves nothing
\* behind once the entry was reloaded.
THEOREM NothingIsLeft ==
    ASSUME GatewayNames = {}
    PROVE  Spec => []RemovedLeavesNothing
<1>1. ASSUME TypeInv, RegistryMatchesButLookalikes PROVE RemovedLeavesNothing
  <2> SUFFICES ASSUME phase = "loaded", waiting = 0, ~missed, NEW u \in registry
               PROVE  u[1] \in DOMAIN items
    BY Zenon DEF RemovedLeavesNothing
  <2>1. u \in Entities(items)
    BY <1>1, Zenon DEF RegistryMatchesButLookalikes
  <2> QED
    BY <1>1, <2>1, EntityIs, Zenon DEF TypeInv, ItemTypes
<1>2. Spec => []TypeInv
  BY TypeInit, TypeStep, PTL DEF Spec
<1> QED
  BY <1>1, <1>2, RegistryFollows, PTL

=============================================================================
