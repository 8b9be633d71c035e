-------------------------- MODULE ConversationGraph --------------------------
(***************************************************************************)
(* The conversation graph of one workflow: the transactions of             *)
(* graph_core/store.py that change its instances, their revisions and the  *)
(* current route.  Every transaction is one BEGIN IMMEDIATE under the lock *)
(* of GraphStore, so each is one action; what varies is which requests     *)
(* arrive, in which order, and how stale the revision is that they carry.  *)
(*                                                                         *)
(* parent_id never changes, so an instance keeps the route it was inserted *)
(* with: route[i], the walk of _route_ids, is i and its ancestors.         *)
(***************************************************************************)
EXTENDS Integers

CONSTANTS Instances,    \* ids of conversation instances
          Root,         \* root_instance_id
          Keys,         \* idempotency keys of the commands table
          Titles,       \* texts of users: a title, or what a prompt is shortened to
          FirstTitles,  \* given to the root and to the workflow when they are
          FirstNames    \* created: some of Titles, or NoText if none is given

NoKey == "none"
NoInstance == "none"
NoText == "none"                \* no title given, no message, or a blank one
Placeholder == "placeholder"    \* what the store puts where it has no text

ASSUME GraphAssumption == /\ Root \in Instances /\ NoInstance \notin Instances
                          /\ NoKey \notin Keys /\ {NoText, Placeholder} \cap Titles = {}
                          /\ FirstTitles \cup FirstNames \subseteq Titles \cup {NoText}

VARIABLES
  node,      \* conversation_instances.status, "absent" without a row
  parent,    \* parent_id
  route,     \* the instance and its ancestors
  scope,     \* surface_scope
  owner,     \* owner_instance_id
  title,     \* title
  generated, \* instances with title_is_generated
  name,      \* workflows.name
  turnTitle, \* turn_titles, of one user message of each instance
  spoken,    \* instances with a local user message
  crev,      \* conversation_instances.content_revision
  grev,      \* workflows.graph_revision
  current,   \* workflows.active_instance_id
  commands,  \* keys of completed commands
  tomb       \* tombstones: the command that pruned an instance

treeVars == <<node, parent, route, scope, owner, tomb>>
nameVars == <<title, generated, name, turnTitle>>
graphVars == <<treeVars, nameVars, spoken, crev, grev, current, commands>>

(* A title or name, or what stands in its place.                           *)
OrPlaceholder(text) == IF text = NoText THEN Placeholder ELSE text

(* create_workflow. *)
GraphInit == /\ node = [i \in Instances |-> IF i = Root THEN "active" ELSE "absent"]
             /\ parent = [i \in Instances |-> NoInstance]
             /\ route = [i \in Instances |-> IF i = Root THEN {Root} ELSE {}]
             /\ scope = [i \in Instances |-> "workflow"]
             /\ owner = [i \in Instances |-> NoInstance]
             /\ \E given \in FirstTitles :
                  /\ title = [i \in Instances |-> IF i = Root THEN OrPlaceholder(given)
                                                 ELSE Placeholder]
                  /\ generated = IF given = NoText THEN {Root} ELSE {}
             /\ name \in {OrPlaceholder(given) : given \in FirstNames}
             /\ turnTitle = [i \in Instances |-> NoText]
             /\ spoken = {} /\ crev = [i \in Instances |-> 0]
             /\ grev = 1 /\ current = Root /\ commands = {}
             /\ tomb = [i \in Instances |-> NoKey]

-----------------------------------------------------------------------------
(* Mutant: a fork does not look at the status of its source.               *)
CanFork_AnySource(k, child, source, sc, rev) == node[source] # "absent"

(* A fork needs an active source (of a workflow conversation, for another  *)
(* workflow conversation), at the revision the client saw, a new id and a  *)
(* new key.                                                                *)
CanFork(k, child, source, sc, rev) ==
  /\ k \notin commands /\ node[child] = "absent"
  /\ node[source] = "active" /\ crev[source] = rev
  /\ sc = "workflow" => scope[source] = "workflow"

(* A turn belongs to the workflow conversation it was opened in, also when *)
(* it was opened from a turn.  Mutant: it has the owner of its source.     *)
Owner_Copied(source) == owner[source]
Owner(source) == IF scope[source] = "turn" THEN owner[source] ELSE source

(* fork, with a title and a first user message, or without: the child has  *)
(* the title it was given, or one made from that message.                  *)
Fork(k, child, source, sc, given, first) ==
  /\ node' = [node EXCEPT ![child] = "active"]
  /\ parent' = [parent EXCEPT ![child] = source]
  /\ route' = [route EXCEPT ![child] = route[source] \cup {child}]
  /\ scope' = [scope EXCEPT ![child] = sc]
  /\ owner' = [owner EXCEPT ![child] = IF sc = "turn" THEN Owner(source) ELSE NoInstance]
  /\ title' = [title EXCEPT ![child] = OrPlaceholder(IF given = NoText THEN first ELSE given)]
  /\ generated' = IF given = NoText THEN generated \cup {child} ELSE generated
  /\ spoken' = IF first # NoText THEN spoken \cup {child} ELSE spoken
  /\ crev' = [crev EXCEPT ![child] = IF first # NoText THEN 1 ELSE 0]
  /\ grev' = grev + 1
  /\ commands' = commands \cup ({k} \ {NoKey})
  /\ UNCHANGED <<name, turnTitle, current, tomb>>

(* The first user message, unless it is blank, names a conversation that   *)
(* nobody has named, and then the workflow if it has no name either.       *)
NamesBranch(i, role, text) ==
  role = "user" /\ i \in generated \ spoken /\ text # NoText
NamesWorkflow(i, role, text) == NamesBranch(i, role, text) /\ name = Placeholder

(* What append_message adds to graph_revision.  Mutant: it forgets that a  *)
(* conversation is named although the workflow has its name already.       *)
RevisionStep_WorkflowOnly(branch, workflow) == IF workflow THEN 1 ELSE 0
RevisionStep(branch, workflow) == IF branch \/ workflow THEN 1 ELSE 0

(* append_message.                                                         *)
AppendMessage(i, role, text) ==
  /\ node[i] = "active"
  /\ crev' = [crev EXCEPT ![i] = crev[i] + 1]
  /\ spoken' = IF role = "user" THEN spoken \cup {i} ELSE spoken
  /\ title' = IF NamesBranch(i, role, text) THEN [title EXCEPT ![i] = text] ELSE title
  /\ name' = IF NamesWorkflow(i, role, text) THEN text ELSE name
  /\ grev' = grev + RevisionStep(NamesBranch(i, role, text), NamesWorkflow(i, role, text))
  /\ UNCHANGED <<treeVars, generated, turnTitle, current, commands>>

(* commit_latest_local_user_edit, at the revision the client saw.          *)
Edit(i) ==
  /\ node[i] = "active" /\ i \in spoken
  /\ crev' = [crev EXCEPT ![i] = crev[i] + 1]
  /\ UNCHANGED <<treeVars, nameVars, spoken, grev, current, commands>>

(* merge_knowledge: accepted items enter the context of the target and of  *)
(* what is below it, so the revision of the target advances.               *)
Merge(i) ==
  /\ node[i] = "active"
  /\ crev' = [crev EXCEPT ![i] = crev[i] + 1]
  /\ UNCHANGED <<treeVars, nameVars, spoken, grev, current, commands>>

CanRename(i, rev) == node[i] = "active" /\ grev = rev

(* rename_instance: the title is no longer a generated one.                *)
Rename(i, t) ==
  /\ title' = [title EXCEPT ![i] = t] /\ generated' = generated \ {i}
  /\ grev' = IF title[i] # t \/ i \in generated THEN grev + 1 ELSE grev
  /\ UNCHANGED <<treeVars, name, turnTitle, spoken, crev, current, commands>>

RenameWorkflow(t) ==
  /\ name' = t
  /\ grev' = IF name # t THEN grev + 1 ELSE grev
  /\ UNCHANGED <<treeVars, title, generated, turnTitle, spoken, crev, current, commands>>

RenameTurn(i, t) ==
  /\ node[i] = "active" /\ i \in spoken
  /\ turnTitle' = [turnTitle EXCEPT ![i] = t]
  /\ grev' = grev + 1
  /\ UNCHANGED <<treeVars, title, generated, name, spoken, crev, current, commands>>

CanActivate(i) == node[i] = "active"
Activate(i) == /\ current' = i
               /\ UNCHANGED <<treeVars, nameVars, spoken, crev, grev, commands>>

(* _leaf_first: the target and what a walk over active children reaches.   *)
Subtree(i) == {j \in Instances :
                 i \in route[j] /\ \A h \in route[j] : i \in route[h] => node[h] = "active"}

CanPrune(k, i, rev) == k \notin commands /\ grev = rev /\ node[i] = "active"

(* Mutant: the current route stays where it was.                           *)
Current_Stays(i) == current
Current(i) == IF current \in Subtree(i) THEN parent[i] ELSE current

(* prune_commit: the subtree is pruned as a whole, and the current route   *)
(* moves to the parent of the target (to nothing when the root goes).      *)
Prune(k, i) ==
  /\ node' = [j \in Instances |-> IF j \in Subtree(i) THEN "pruned" ELSE node[j]]
  /\ current' = Current(i)
  /\ grev' = grev + 1 /\ commands' = commands \cup {k}
  /\ tomb' = [j \in Instances |-> IF j \in Subtree(i) THEN k ELSE tomb[j]]
  /\ UNCHANGED <<parent, route, scope, owner, nameVars, spoken, crev>>

-----------------------------------------------------------------------------
(* The endpoints of a workflow.  A request that carries a revision or a    *)
(* key and is refused or replayed changes nothing, so a step stands for a  *)
(* request that carries the present revision and a new key.                *)

(* Served the same way whether the conversations have an external host or  *)
(* not: fork-chat, messages, edits, merges, names of workflow and turns.   *)
Texts == Titles \cup {NoText}
ForkTurn(child, k) ==
  \E source \in Instances, given \in Texts, first \in Texts :
    /\ CanFork(k, child, source, "turn", crev[source])
    /\ Fork(k, child, source, "turn", given, first)
Speak(i) == \/ Edit(i) \/ Merge(i)
            \/ \E role \in {"user", "assistant"}, text \in Texts : AppendMessage(i, role, text)
NameTurn(i) == \E t \in Titles : RenameTurn(i, t)
NameWorkflow == \E t \in Titles \cup {Placeholder} : RenameWorkflow(t)

(* Served by the graph alone when they have no external host.              *)
ForkWorkflow(child) ==
  \E source \in Instances, k \in Keys \cup {NoKey}, given \in Texts, first \in Texts :
    /\ CanFork(k, child, source, "workflow", crev[source])
    /\ Fork(k, child, source, "workflow", given, first)
RenameAny(i) == CanRename(i, grev) /\ \E t \in Titles : Rename(i, t)
ActivateAny(i) == CanActivate(i) /\ Activate(i)
PruneAny(i) == \E k \in Keys : CanPrune(k, i, grev) /\ Prune(k, i)

GraphNext == \/ \E i \in Instances : \/ \E k \in Keys \cup {NoKey} : ForkTurn(i, k)
                                     \/ Speak(i) \/ NameTurn(i) \/ ForkWorkflow(i)
                                     \/ RenameAny(i) \/ ActivateAny(i) \/ PruneAny(i)
             \/ NameWorkflow

GraphSpec == GraphInit /\ [][GraphNext]_graphVars
-----------------------------------------------------------------------------
GraphTypeOK ==
  /\ node \in [Instances -> {"absent", "active", "pruned"}]
  /\ parent \in [Instances -> Instances \cup {NoInstance}]
  /\ route \in [Instances -> SUBSET Instances]
  /\ scope \in [Instances -> {"workflow", "turn"}]
  /\ owner \in [Instances -> Instances \cup {NoInstance}]
  /\ title \in [Instances -> Titles \cup {Placeholder}]
  /\ generated \in SUBSET Instances
  /\ name \in Titles \cup {Placeholder}
  /\ turnTitle \in [Instances -> Titles \cup {NoText}]
  /\ spoken \in SUBSET Instances
  /\ crev \in [Instances -> Nat] /\ grev \in Nat
  /\ current \in Instances \cup {NoInstance}
  /\ commands \in SUBSET Keys
  /\ tomb \in [Instances -> Keys \cup {NoKey}]

(* Routes are live: whatever is forked and pruned in whatever order, an    *)
(* active conversation has only active ancestors, so the context built     *)
(* from its route never contains a pruned one.                             *)
RoutesAreLive == \A i \in Instances : node[i] = "active" =>
                   \A j \in route[i] : node[j] = "active"

(* The current route is an active one, and there is one as long as the     *)
(* root is there.                                                          *)
CurrentIsActive == IF current = NoInstance THEN node[Root] = "pruned"
                                           ELSE node[current] = "active"

(* A turn lives inside a workflow conversation of its own route, and       *)
(* workflow conversations never hang below turns.                          *)
TurnsHaveOwners ==
  \A i \in Instances : node[i] # "absent" =>
    IF scope[i] = "turn"
    THEN owner[i] \in route[i] /\ scope[owner[i]] = "workflow"
    ELSE \A j \in route[i] : scope[j] = "workflow"

(* The walk of _route_ids: a route holds its own ancestors' routes, and    *)
(* goes up from the parent to the root, which has none.                    *)
RoutesHold ==
  /\ parent[Root] = NoInstance /\ node[Root] # "absent"
  /\ \A i \in Instances :
       IF node[i] = "absent" THEN route[i] = {}
       ELSE /\ i \in route[i]
            /\ \A j \in route[i] : node[j] # "absent" /\ route[j] \subseteq route[i]
            /\ i # Root => parent[i] \in route[i] /\ i \notin route[parent[i]]

GraphInv == GraphTypeOK /\ RoutesHold /\ RoutesAreLive /\ CurrentIsActive /\ TurnsHaveOwners

(* A client that still holds the graph revision has seen the graph: no     *)
(* conversation appears or disappears, and no conversation, turn or        *)
(* workflow is named, by a user or by a first message, under a revision.   *)
RevisionsTell ==
  [][treeVars' # treeVars \/ nameVars' # nameVars => grev' > grev]_graphVars
=============================================================================
