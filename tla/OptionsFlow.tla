---------------------------- MODULE OptionsFlow ----------------------------
(***************************************************************************)
(* The options of an entry: the flows in which users edit remotes, relays  *)
(* and serial ports and learn IR commands, and what becomes of them: the   *)
(* reload, and the entities and devices that Home Assistant registered.    *)
(*                                                                         *)
(* What a user may type (names, connectors, commands) does not depend on   *)
(* the draft a flow holds, so a draft is the id it will be saved under and *)
(* the forms of a wizard, which only fill it in, are one. An action is the *)
(* code between two forms or awaits; the three kinds' lists of what can be *)
(* edited or removed are one. EntryLifecycle has the coordinator's side of *)
(* a reload; here it is three phases.                                      *)
(***************************************************************************)
EXTENDS Integers, FiniteSets

CONSTANTS
    Flows,          \* options flows that are open at a time
    RemoteNames,    \* names of the commands of remotes
    SerialNames,    \* names of the commands of serial ports
    GatewayNames,   \* those that end like the id of an entity of the gateway
    RxNames,        \* those that end in "rx"
    MaxItems,       \* bound: items ever added
    MaxCommands,    \* bound: commands of an item
    MaxSaves        \* bound: saves that change something

ASSUME OptionsBoundsAssumption ==
    MaxItems \in Nat \ {0} /\ MaxCommands \in Nat /\ MaxSaves \in Nat

Ids == 1..MaxItems
NewItem == 0                    \* the draft of an item to be added
Kinds == {"remote", "relay", "serial"}

Names == RemoteNames \cup SerialNames

\* The items a user can enter.
Lists(names) == {c \in SUBSET names : Cardinality(c) <= MaxCommands}
Remotes == [kind : {"remote"}, commands : Lists(RemoteNames), listen : {FALSE}]
Relays  == [kind : {"relay"}, commands : {{}}, listen : {FALSE}]
SerialPorts == [kind : {"serial"}, commands : Lists(SerialNames), listen : BOOLEAN]
AllItems == Remotes \cup Relays \cup SerialPorts
Items(kind) == {item \in AllItems : item.kind = kind}

VARIABLES
    items,          \* CONF_REMOTES, CONF_RELAYS and CONF_SERIAL_PORTS by id
    used,           \* ids that were given out
    settings,       \* the other options: timeouts and IR defaults
    saves,          \* bounds the saves
    phase,          \* the entry: where its reload stands
    waiting,        \* reloads that were asked for
    missed,         \* history: saved while the entry had no listener
    registry,       \* unique ids of the registered entities
    devices,        \* remotes with a device
    flow,           \* each flow: its form, kind, the id of its draft, ...
    learner         \* the gateway's learner: on, off, or left on as stop_IRL failed

optionVars == <<items, used, settings, saves>>
entryVars == <<phase, waiting, missed, registry, devices>>
vars == <<optionVars, entryVars, flow, learner>>

\* The menu, which is also what a closed flow is opened with.
Menu == [at |-> "init", kind |-> "remote", id |-> NewItem, got |-> FALSE]

IdsOf(its, kind) == {i \in DOMAIN its : its[i].kind = kind}
Steps == {"init", "options", "draft", "edit", "remove", "learn", "create", "capture",
          "enabling", "listening", "stopping"}
Goto(f, fl) == flow' = [flow EXCEPT ![f] = fl]

-----------------------------------------------------------------------------
(* Entities and devices.                                                   *)

\* The unique ids, an item and a purpose, of the entities that the platforms make.
Entities(its) == UNION {
    CASE its[i].kind = "remote" -> {<<i, n>> : n \in its[i].commands}
      [] its[i].kind = "relay"  -> {<<i, "switch">>}
      [] its[i].kind = "serial" -> {<<i, n>> : n \in its[i].commands \cup {"text"}}
                                   \cup IF its[i].listen THEN {<<i, "rx">>} ELSE {}
    : i \in DOMAIN its}

ActiveButtons(its) == UNION {{<<i, n>> : n \in its[i].commands} : i \in DOMAIN its}
ActiveSilent(its) ==                           \* mutant: the rx sensors are forgotten
    ActiveButtons(its) \cup {<<i, "switch">> : i \in IdsOf(its, "relay")}
                       \cup {<<i, "text">> : i \in IdsOf(its, "serial")}

\* all_active_configured_unique_ids, what a cleanup leaves alone.
Active(its) ==
    ActiveButtons(its) \cup {<<i, "switch">> : i \in IdsOf(its, "relay")}
                       \cup {<<i, "text">> : i \in IdsOf(its, "serial")}
                       \cup {<<i, "rx">> : i \in {j \in IdsOf(its, "serial") : its[j].listen}}

ManagedButRelays(uid) == uid[2] \notin GatewayNames \cup {"switch"}  \* mutant

\* is_options_managed_unique_id: by its ending a command can pass for an entity of
\* the gateway.
Managed(uid) == uid[2] \notin GatewayNames

\* async_cleanup_stale_entities.
Cleaned(reg, its) == {u \in reg : u \in Active(its) \/ ~Managed(u)}

\* async_cleanup_stale_remote_devices: the entities of a device go with it.
Devices(its) == devices \cap IdsOf(its, "remote")
WithoutDevices(reg, its) == {u \in reg : u[1] \notin devices \ Devices(its)}

-----------------------------------------------------------------------------
(* Saving.                                                                 *)

\* Who saves ends the flow. Home Assistant tells the listener of a change, which
\* cleans up and asks for a reload.
Saved(f, its, sets) ==
    /\ Goto(f, Menu)
    /\ items' = its /\ settings' = sets
    /\ IF its = items /\ sets = settings
         THEN UNCHANGED <<saves, entryVars>>
         ELSE /\ saves < MaxSaves /\ saves' = saves + 1
              /\ IF phase = "loaded"
                   THEN /\ waiting' = waiting + 1
                        /\ registry' = WithoutDevices(Cleaned(registry, its), its)
                        /\ devices' = Devices(its)
                        /\ UNCHANGED <<phase, missed>>
                   ELSE missed' = TRUE /\ UNCHANGED <<phase, waiting, registry, devices>>

Without(its, i) == [j \in DOMAIN its \ {i} |-> its[j]]
With(its, i, item) == [j \in DOMAIN its \cup {i} |-> IF j = i THEN item ELSE its[j]]

\* A new uuid.
AddItem(f, item) ==
    /\ Cardinality(used) < MaxItems
    /\ LET i == Cardinality(used) + 1
       IN  used' = used \cup {i} /\ Saved(f, With(items, i, item), settings)

ReplaceItemAnyway(f, item) ==                  \* mutant: a missing item is appended
    UNCHANGED used /\ Saved(f, With(items, flow[f].id, item), settings)

\* The item with the draft's id is replaced as a whole; when it was removed meanwhile
\* nothing is, and the edit is lost without a word.
ReplaceItem(f, item) ==
    /\ UNCHANGED used
    /\ Saved(f, IF flow[f].id \in DOMAIN items THEN With(items, flow[f].id, item) ELSE items,
             settings)

SaveSettings(f) ==
    /\ flow[f].at = "options"
    /\ \E v \in BOOLEAN : Saved(f, items, v)
    /\ UNCHANGED <<used, learner>>

SaveDraftNoId(f) ==                            \* mutant: no id is made for a new item
    /\ flow[f].at = "draft"
    /\ \E item \in Items(flow[f].kind) :
          UNCHANGED used /\ Saved(f, With(items, flow[f].id, item), settings)
    /\ UNCHANGED learner

SaveDraft(f) ==
    /\ flow[f].at = "draft"
    /\ \E item \in Items(flow[f].kind) :
          IF flow[f].id = NewItem THEN AddItem(f, item) ELSE ReplaceItem(f, item)
    /\ UNCHANGED learner

\* A list that was shown earlier may offer an item that was removed since. Removing
\* what is gone, or from a list that got empty, saves what there is.
Remove(f) ==
    /\ flow[f].at = "remove"
    /\ \E i \in used : Saved(f, Without(items, i), settings)
    /\ UNCHANGED <<used, learner>>

-----------------------------------------------------------------------------
(* The forms.                                                              *)

Show(f, fl) == Goto(f, fl) /\ UNCHANGED <<optionVars, entryVars, learner>>

Close(f) ==
    /\ flow[f].at \in {"options", "draft", "edit", "remove", "learn", "create", "capture"}
    /\ Show(f, Menu)

\* async_step_init. What edits or removes is not offered while there is nothing;
\* learning is, and then creates a remote.
Choose(f) ==
    /\ flow[f].at = "init"
    /\ \/ Show(f, [Menu EXCEPT !.at = "options"])
       \/ \E k \in Kinds : Show(f, [Menu EXCEPT !.at = "draft", !.kind = k])
       \/ items # <<>> /\ \E at \in {"edit", "remove"} : Show(f, [Menu EXCEPT !.at = at])
       \/ Show(f, [Menu EXCEPT !.at = IF IdsOf(items, "remote") = {} THEN "create" ELSE "learn"])

\* The draft is a copy of the item; what is gone brings the menu back.
PickEdit(f) ==
    /\ flow[f].at = "edit"
    /\ \E i \in used :
          Show(f, IF i \in DOMAIN items
                  THEN [Menu EXCEPT !.at = "draft", !.kind = items[i].kind, !.id = i]
                  ELSE Menu)

-----------------------------------------------------------------------------
(* Learning a command.                                                     *)

\* The answer to the form for no remotes cannot be read once there are some, nor
\* the other way round: the step raises KeyError and the form stays.
SubmitLearn(f) ==
    /\ flow[f].at = IF IdsOf(items, "remote") = {} THEN "create" ELSE "learn"
    /\ \E i \in IF flow[f].at = "create" THEN {NewItem}
               ELSE {j \in used : j \in DOMAIN items => items[j].kind = "remote"} :
          Show(f, [flow[f] EXCEPT !.at = "capture", !.id = i])

\* During most of a setup there is no coordinator and the form is shown again.
Capture(f) == flow[f].at = "capture" /\ Show(f, [flow[f] EXCEPT !.at = "enabling"])

\* get_IRL is answered, or fails, having been carried out or not.
Enabled(f) ==
    /\ flow[f].at = "enabling"
    /\ \/ learner' = "on" /\ Goto(f, [flow[f] EXCEPT !.at = "listening"])
       \/ learner' \in {learner, "on"} /\ Goto(f, [flow[f] EXCEPT !.at = "stopping", !.got = FALSE])
    /\ UNCHANGED <<optionVars, entryVars>>

\* A handheld remote sends: every callback that is registered gets the line.
Code ==
    /\ learner # "off"
    /\ flow' = [f \in Flows |-> [flow[f] EXCEPT !.got = @ \/ flow[f].at \in {"enabling", "listening"}]]
    /\ UNCHANGED <<optionVars, entryVars, learner>>

ListenEndsAtOnce(f) ==                         \* mutant: only a success stops it
    /\ flow[f].at = "listening"
    /\ \/ flow[f].got /\ Goto(f, [flow[f] EXCEPT !.at = "stopping"])
       \/ Goto(f, [flow[f] EXCEPT !.at = "capture", !.got = FALSE])
    /\ UNCHANGED <<optionVars, entryVars, learner>>

\* The line has come, or the time is over; either way stop_IRL is next.
ListenEnds(f) ==
    /\ flow[f].at = "listening"
    /\ \/ flow[f].got /\ Goto(f, [flow[f] EXCEPT !.at = "stopping"])
       \/ Goto(f, [flow[f] EXCEPT !.at = "stopping", !.got = FALSE])
    /\ UNCHANGED <<optionVars, entryVars, learner>>

SaveLearnedAlone(f) ==                         \* mutant: the commands start anew
    LET i == flow[f].id IN
    IF i = NewItem
    THEN \E n \in RemoteNames :
           AddItem(f, [kind |-> "remote", commands |-> {n}, listen |-> FALSE])
    ELSE IF i \in DOMAIN items
    THEN \E n \in RemoteNames : ReplaceItem(f, [items[i] EXCEPT !.commands = {n}])
    ELSE Goto(f, [flow[f] EXCEPT !.at = "capture", !.got = FALSE])
         /\ UNCHANGED <<optionVars, entryVars>>

\* The command, of a name the user gave before, replaces that of its name in the
\* remote as it is now; when the remote is gone, learning failed.
SaveLearned(f) ==
    LET i == flow[f].id IN
    IF i = NewItem
    THEN \E n \in RemoteNames :
           AddItem(f, [kind |-> "remote", commands |-> {n}, listen |-> FALSE])
    ELSE IF i \in DOMAIN items
    THEN \E n \in RemoteNames :
           ReplaceItem(f, [items[i] EXCEPT !.commands = @ \cup {n}])
    ELSE Goto(f, [flow[f] EXCEPT !.at = "capture", !.got = FALSE])
         /\ UNCHANGED <<optionVars, entryVars>>

\* stop_IRL is answered, or fails, which is logged.
Stopped(f) ==
    /\ flow[f].at = "stopping"
    /\ learner' \in {"off", IF learner = "on" THEN "left" ELSE learner}
    /\ IF flow[f].got THEN SaveLearned(f)
       ELSE Goto(f, [flow[f] EXCEPT !.at = "capture"]) /\ UNCHANGED <<optionVars, entryVars>>

-----------------------------------------------------------------------------
(* The reload of the entry.                                                *)

\* The entry is unloaded, and its setup begins: what is stale is dropped before,
\* in between and after. From here to the end of the setup nobody listens.
BeginReload ==
    /\ phase = "loaded" /\ waiting > 0
    /\ waiting' = waiting - 1
    /\ phase' = "setup"
    /\ registry' = WithoutDevices(Cleaned(registry, items), items)
    /\ devices' = Devices(items)
    /\ missed' = FALSE
    /\ UNCHANGED <<optionVars, flow, learner>>

\* Buttons of serial ports that the sensor platform takes for sensors: they lose
\* their entry in the registry, and get a new one if their platform comes later.
Mistaken(its) == {u \in Entities(its) : u[2] \in RxNames /\ its[u[1]].kind = "serial"}

\* The platforms drop what is stale and add what is configured.
PlatformsAdded ==
    /\ phase = "setup"
    /\ phase' = "adding"
    /\ devices' = devices \cup IdsOf(items, "remote")
    /\ \E dropped \in SUBSET Mistaken(items) :
          registry' = (Cleaned(registry, items) \cup Entities(items)) \ dropped
    /\ UNCHANGED <<waiting, missed, optionVars, flow, learner>>

\* The last platform has asked the gateway for its receivers.
Loaded ==
    /\ phase = "adding"
    /\ phase' = "loaded"
    /\ UNCHANGED <<waiting, missed, registry, devices, optionVars, flow, learner>>

-----------------------------------------------------------------------------
\* An entry is loaded that has an item.
Init ==
    /\ used = {1} /\ items \in [used -> AllItems] /\ saves = 0
    /\ settings = FALSE
    /\ phase = "loaded" /\ waiting = 0 /\ missed = FALSE
    /\ registry = Entities(items) /\ devices = IdsOf(items, "remote")
    /\ flow = [f \in Flows |-> Menu]
    /\ learner = "off"

Next ==
    \/ \E f \in Flows :
          \/ Close(f) \/ Choose(f) \/ PickEdit(f)
          \/ SaveSettings(f) \/ SaveDraft(f) \/ Remove(f)
          \/ SubmitLearn(f) \/ Capture(f) \/ Enabled(f) \/ ListenEnds(f) \/ Stopped(f)
    \/ Code \/ BeginReload \/ PlatformsAdded \/ Loaded

Spec == Init /\ [][Next]_vars

-----------------------------------------------------------------------------
(* Properties.                                                             *)

\* Types; an item has one of the ids that were given out.
TypeOK ==
    /\ used \in SUBSET Ids /\ DOMAIN items \subseteq used
    /\ \A i \in DOMAIN items :
          items[i] \in [kind : Kinds, commands : SUBSET Names, listen : BOOLEAN]
    /\ settings \in BOOLEAN /\ saves \in 0..MaxSaves
    /\ phase \in {"loaded", "setup", "adding"}
    /\ waiting \in 0..MaxSaves /\ missed \in BOOLEAN
    /\ registry \in SUBSET (used \X (Names \cup {"switch", "text", "rx"}))
    /\ devices \in SUBSET used
    /\ flow \in [Flows -> [at : Steps, kind : Kinds, id : used \cup {NewItem}, got : BOOLEAN]]
    /\ learner \in {"off", "on", "left"}

\* What happens to an item is done by a flow that is about it, however old the forms
\* of the others are: its removal, its edit form, which puts its whole draft in place
\* and loses what was learned since the form was opened, or the end of a capture for it,
\* which loses none of the item's commands (config_flow.py:803, 593, 1004).
SavesOnlyItsOwn ==
    [][/\ settings' # settings => items' = items
       /\ \A i \in DOMAIN items :
             \/ i \in DOMAIN items' /\ items'[i] = items[i]
             \/ \E f \in Flows :
                   /\ flow'[f] = Menu
                   /\ \/ flow[f].at = "remove" /\ i \notin DOMAIN items'
                      \/ flow[f].at = "draft" /\ flow[f].id = i
                      \/ /\ flow[f].at = "stopping" /\ flow[f].id = i
                         /\ i \in DOMAIN items'
                         /\ items[i].commands \subseteq items'[i].commands]_vars

\* An item that was removed does not come back, though a flow that was editing it
\* or learning for it saves later (config_flow.py:819).
RemovedStaysRemoved ==
    [][\A i \in used : i \notin DOMAIN items => i \notin DOMAIN items']_vars

\* After the reloads that saves asked for, the entities and devices are those of the
\* options (entity_registry_util.py:214), with two kinds of exceptions, by which a name
\* ends like another entity's: what looks like an entity of the gateway stays, and a
\* button that looks like a sensor may be gone. Nobody is told of options that are saved
\* while the entry is being set up.
RegistryMatchesButLookalikes ==
    phase = "loaded" /\ waiting = 0 /\ ~missed =>
        /\ Entities(items) \ Mistaken(items) \subseteq registry
        /\ \A u \in registry : u \in Entities(items) \/ u[2] \in GatewayNames
        /\ devices = IdsOf(items, "remote")

\* An item that was removed leaves no entity behind once the entry was reloaded
\* (README.md:194).
RemovedLeavesNothing ==
    phase = "loaded" /\ waiting = 0 /\ ~missed => \A u \in registry : u[1] \in DOMAIN items

\* An entity keeps its entry in the registry, with all the user has set there, as
\* long as it is configured, but for buttons that look like a sensor, which a setup may
\* take away (entity_registry_util.py:216, 88).
KeepsConfiguredButLookalikes ==
    [][registry \cap Entities(items) \cap Entities(items') \subseteq registry' \cup Mistaken(items)]_vars

\* An entity keeps its entry in the registry as long as it is configured: so where no
\* name of a button looks like a sensor (entity_registry_util.py:216).
KeepsConfigured ==
    [][registry \cap Entities(items) \cap Entities(items') \subseteq registry']_vars

\* The learner is off unless somebody learns or could not turn it off
\* (coordinator.py:420).
LearnerOff ==
    learner = "on" =>
        \E f \in Flows : flow[f].at \in {"enabling", "listening", "stopping"}

=============================================================================
