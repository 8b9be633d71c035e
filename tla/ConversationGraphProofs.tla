----------------------- MODULE ConversationGraphProofs -----------------------
(***************************************************************************)
(* The conversation graph keeps its routes, for any conversations, keys    *)
(* and titles.  GraphInv is inductive: RoutesHold relates a route to the   *)
(* routes of its members, without which neither a fork (whose child must   *)
(* be new to every route) nor a prune (which must take every descendant)   *)
(* can be shown to keep RoutesAreLive.                                     *)
(***************************************************************************)
EXTENDS ConversationGraph, TLAPS

(* The initial graph is a root conversation and nothing else.              *)
LEMMA InitGraphInv == ASSUME GraphInit PROVE GraphInv
  <1> USE GraphAssumption
  <1>1. GraphTypeOK BY DEF GraphInit, GraphTypeOK, NoKey, OrPlaceholder
  <1>2. RoutesHold BY DEF GraphInit, RoutesHold
  <1>3. RoutesAreLive BY DEF GraphInit, RoutesAreLive
  <1>4. CurrentIsActive BY DEF GraphInit, CurrentIsActive
  <1>5. TurnsHaveOwners BY DEF GraphInit, TurnsHaveOwners
  <1> QED BY <1>1, <1>2, <1>3, <1>4, <1>5 DEF GraphInv

(* A fork adds one instance at the end of a live route.                    *)
LEMMA ForkKeepsGraph ==
  ASSUME GraphInv, NEW child \in Instances, NEW source \in Instances,
         NEW k \in Keys \cup {NoKey}, NEW sc \in {"workflow", "turn"},
         NEW given \in Texts, NEW first \in Texts, NEW rev,
         CanFork(k, child, source, sc, rev), Fork(k, child, source, sc, given, first)
  PROVE GraphInv'
  <1> USE GraphAssumption
  <1>1. /\ node[child] = "absent" /\ node[source] = "active" /\ child # source
        /\ sc = "workflow" => scope[source] = "workflow"
        BY DEF CanFork
  <1>2. /\ child # Root /\ route[child] = {}
        /\ \A i \in Instances : child \notin route[i]
        BY <1>1 DEF GraphInv, RoutesHold, GraphTypeOK
  <1>3. /\ node' = [node EXCEPT ![child] = "active"]
        /\ parent' = [parent EXCEPT ![child] = source]
        /\ route' = [route EXCEPT ![child] = route[source] \cup {child}]
        /\ scope' = [scope EXCEPT ![child] = sc]
        /\ owner' = [owner EXCEPT ![child] = IF sc = "turn" THEN Owner(source) ELSE NoInstance]
        /\ current' = current
        BY DEF Fork
  <1>4. source \in route[source] /\ \A j \in route[source] : j \in Instances /\ route[j] \subseteq route[source] /\ node[j] = "active"
        BY <1>1 DEF GraphInv, RoutesHold, RoutesAreLive, GraphTypeOK
  <1>5. sc = "turn" => Owner(source) \in route[source] /\ scope[Owner(source)] = "workflow"
        BY <1>1, <1>4 DEF GraphInv, TurnsHaveOwners, Owner, GraphTypeOK
  <1>6. GraphTypeOK'
    <2>1. Owner(source) \in Instances \cup {NoInstance} BY DEF Owner, GraphInv, GraphTypeOK
    <2> QED BY <1>3, <2>1 DEF GraphInv, GraphTypeOK, Fork, Texts, OrPlaceholder
  <1>7. RoutesHold' BY <1>1, <1>2, <1>3, <1>4 DEF GraphInv, RoutesHold, GraphTypeOK
  <1>8. RoutesAreLive' BY <1>1, <1>2, <1>3, <1>4 DEF GraphInv, RoutesAreLive, GraphTypeOK
  <1>9. CurrentIsActive' BY <1>1, <1>2, <1>3 DEF GraphInv, CurrentIsActive, GraphTypeOK
  <1>10. TurnsHaveOwners'
    <2>1. ASSUME NEW i \in Instances, node'[i] # "absent", i # child
          PROVE IF scope'[i] = "turn"
                THEN owner'[i] \in route'[i] /\ scope'[owner'[i]] = "workflow"
                ELSE \A j \in route'[i] : scope'[j] = "workflow"
      BY <2>1, <1>2, <1>3 DEF GraphInv, TurnsHaveOwners, GraphTypeOK
    <2>2. IF scope'[child] = "turn"
          THEN owner'[child] \in route'[child] /\ scope'[owner'[child]] = "workflow"
          ELSE \A j \in route'[child] : scope'[j] = "workflow"
      <3>1. CASE sc = "turn" BY <3>1, <1>2, <1>3, <1>4, <1>5 DEF GraphInv, GraphTypeOK
      <3>2. CASE sc = "workflow"
            BY <3>2, <1>1, <1>2, <1>3, <1>4 DEF GraphInv, TurnsHaveOwners, GraphTypeOK
      <3> QED BY <3>1, <3>2
    <2> QED BY <2>1, <2>2 DEF TurnsHaveOwners
  <1> QED BY <1>6, <1>7, <1>8, <1>9, <1>10 DEF GraphInv

(* A prune takes every live instance whose route goes through its target.  *)
LEMMA PruneKeepsGraph ==
  ASSUME GraphInv, NEW i \in Instances, NEW k \in Keys, NEW rev,
         CanPrune(k, i, rev), Prune(k, i)
  PROVE GraphInv'
  <1> USE GraphAssumption
  <1>1. /\ Subtree(i) \subseteq Instances /\ NoInstance \notin Subtree(i)
        /\ \A j \in Subtree(i) : i \in route[j] /\ node[j] = "active"
        BY DEF Subtree, GraphInv, RoutesHold, GraphTypeOK
  <1>2. \A j \in Instances : node[j] = "active" /\ i \in route[j] => j \in Subtree(i)
        BY DEF Subtree, GraphInv, RoutesAreLive
  <1>3. /\ node' = [j \in Instances |-> IF j \in Subtree(i) THEN "pruned" ELSE node[j]]
        /\ current' = Current(i) /\ UNCHANGED <<parent, route, scope, owner>>
        BY DEF Prune
  <1>4. node[i] = "active" /\ i \in route[i] /\ i \in Subtree(i)
        BY <1>2 DEF CanPrune, GraphInv, RoutesHold
  <1>5. GraphTypeOK' BY <1>1, <1>3 DEF GraphInv, GraphTypeOK, Prune, Current, nameVars
  <1>6. RoutesHold' BY <1>1, <1>3 DEF GraphInv, RoutesHold, GraphTypeOK
  <1>7. RoutesAreLive'
    <2> SUFFICES ASSUME NEW j \in Instances, node'[j] = "active", NEW h \in route'[j]
                 PROVE node'[h] = "active"
        BY DEF RoutesAreLive
    <2>1. node[j] = "active" /\ j \notin Subtree(i) /\ h \in route[j] /\ h \in Instances
          BY <1>3 DEF GraphInv, GraphTypeOK
    <2>2. node[h] = "active" /\ route[h] \subseteq route[j]
          BY <2>1 DEF GraphInv, RoutesAreLive, RoutesHold
    <2>3. h \notin Subtree(i) BY <2>1, <2>2, <1>1, <1>2
    <2> QED BY <2>1, <2>2, <2>3, <1>3
  <1>8. CurrentIsActive'
    <2>1. CASE current \notin Subtree(i)
      BY <2>1, <1>1, <1>3 DEF GraphInv, GraphTypeOK, CurrentIsActive, Current, RoutesHold
    <2>2. CASE current \in Subtree(i) /\ i = Root
      BY <2>2, <1>3, <1>4 DEF GraphInv, CurrentIsActive, Current, RoutesHold
    <2>3. CASE current \in Subtree(i) /\ i # Root
      <3>1. parent[i] \in route[i] /\ i \notin route[parent[i]] /\ parent[i] \in Instances
            BY <2>3, <1>4 DEF GraphInv, RoutesHold, GraphTypeOK
      <3>2. node[parent[i]] = "active" /\ parent[i] \notin Subtree(i)
            BY <3>1, <1>1, <1>4 DEF GraphInv, RoutesAreLive
      <3> QED BY <2>3, <3>1, <3>2, <1>3 DEF CurrentIsActive, Current
    <2> QED BY <2>1, <2>2, <2>3
  <1>9. TurnsHaveOwners' BY <1>1, <1>3 DEF GraphInv, GraphTypeOK, TurnsHaveOwners
  <1> QED BY <1>5, <1>6, <1>7, <1>8, <1>9 DEF GraphInv

(* Messages, edits, names and activations leave the tree alone.            *)
LEMMA OthersKeepGraph ==
  ASSUME GraphInv, NEW i \in Instances,
         Speak(i) \/ RenameAny(i) \/ ActivateAny(i) \/ NameTurn(i) \/ NameWorkflow
  PROVE GraphInv'
  <1> USE GraphAssumption DEF treeVars, nameVars
  <1>1. /\ UNCHANGED <<node, parent, route, scope, owner, tomb>>
        /\ UNCHANGED current \/ (node[current'] = "active" /\ current' \in Instances)
    <2>1. CASE Speak(i) BY <2>1 DEF Speak, Edit, Merge, AppendMessage
    <2>2. CASE RenameAny(i) BY <2>2 DEF RenameAny, Rename
    <2>3. CASE ActivateAny(i) BY <2>3 DEF ActivateAny, CanActivate, Activate
    <2>4. CASE NameTurn(i) BY <2>4 DEF NameTurn, RenameTurn
    <2>5. CASE NameWorkflow BY <2>5 DEF NameWorkflow, RenameWorkflow
    <2> QED BY <2>1, <2>2, <2>3, <2>4, <2>5
  <1>2. GraphTypeOK'
    <2>1. CASE Speak(i)
      <3>1. CASE Edit(i) \/ Merge(i)
            BY <3>1 DEF GraphInv, GraphTypeOK, Edit, Merge, nameVars
      <3>2. ASSUME NEW role, NEW text \in Texts, AppendMessage(i, role, text) PROVE GraphTypeOK'
        <4>1. NamesBranch(i, role, text) => text \in Titles BY DEF NamesBranch, Texts
        <4>2. /\ title' \in [Instances -> Titles \cup {Placeholder}]
              /\ name' \in Titles \cup {Placeholder}
              BY <3>2, <4>1 DEF AppendMessage, NamesWorkflow, GraphInv, GraphTypeOK
        <4>3. spoken' \in SUBSET Instances /\ crev' \in [Instances -> Nat] /\ grev' \in Nat
              BY <3>2 DEF AppendMessage, RevisionStep, GraphInv, GraphTypeOK
        <4> QED BY <3>2, <4>2, <4>3 DEF AppendMessage, GraphInv, GraphTypeOK
      <3> QED BY <2>1, <3>1, <3>2 DEF Speak
    <2>2. CASE RenameAny(i) BY <2>2 DEF GraphInv, GraphTypeOK, RenameAny, Rename
    <2>3. CASE ActivateAny(i) BY <2>3 DEF GraphInv, GraphTypeOK, ActivateAny, Activate, CanActivate, nameVars
    <2>4. CASE NameTurn(i) BY <2>4 DEF GraphInv, GraphTypeOK, NameTurn, RenameTurn
    <2>5. CASE NameWorkflow BY <2>5 DEF GraphInv, GraphTypeOK, NameWorkflow, RenameWorkflow
    <2> QED BY <2>1, <2>2, <2>3, <2>4, <2>5
  <1>3. RoutesHold' BY <1>1 DEF GraphInv, RoutesHold
  <1>4. RoutesAreLive' BY <1>1 DEF GraphInv, RoutesAreLive
  <1>5. CurrentIsActive' BY <1>1 DEF GraphInv, CurrentIsActive
  <1>6. TurnsHaveOwners' BY <1>1 DEF GraphInv, TurnsHaveOwners
  <1> QED BY <1>2, <1>3, <1>4, <1>5, <1>6 DEF GraphInv

(* Every step of the graph keeps GraphInv.                                 *)
LEMMA StepKeepsGraph == ASSUME GraphInv, [GraphNext]_graphVars PROVE GraphInv'
  <1>1. ASSUME NEW i \in Instances, NEW k \in Keys \cup {NoKey}, ForkTurn(i, k) PROVE GraphInv'
        BY <1>1, ForkKeepsGraph DEF ForkTurn
  <1>2. ASSUME NEW i \in Instances, ForkWorkflow(i) PROVE GraphInv'
        BY <1>2, ForkKeepsGraph DEF ForkWorkflow
  <1>3. ASSUME NEW i \in Instances, PruneAny(i) PROVE GraphInv'
        BY <1>3, PruneKeepsGraph DEF PruneAny
  <1>4. ASSUME NEW i \in Instances, Speak(i) \/ RenameAny(i) \/ ActivateAny(i) \/ NameTurn(i)
        PROVE GraphInv'
        BY <1>4, OthersKeepGraph
  <1>5. CASE NameWorkflow BY <1>5, OthersKeepGraph, GraphAssumption
  <1>6. CASE UNCHANGED graphVars
        BY <1>6 DEF graphVars, treeVars, nameVars, GraphInv, GraphTypeOK, RoutesHold, RoutesAreLive,
                    CurrentIsActive, TurnsHaveOwners, Subtree
  <1> QED BY <1>1, <1>2, <1>3, <1>4, <1>5, <1>6 DEF GraphNext

(* The inductive invariant of the graph.                                   *)
THEOREM GraphInvariant == GraphSpec => []GraphInv
  BY InitGraphInv, StepKeepsGraph, PTL DEF GraphSpec

(* Fork and prune of store.py: in whatever order, no active conversation   *)
(* has a pruned ancestor.                                                  *)
THEOREM GraphRoutesAreLive == GraphSpec => []RoutesAreLive
  <1>1. GraphInv => RoutesAreLive BY DEF GraphInv
  <1> QED BY <1>1, GraphInvariant, PTL

(* prune_commit and activate: the current route is never a pruned one.     *)
THEOREM GraphCurrentIsActive == GraphSpec => []CurrentIsActive
  <1>1. GraphInv => CurrentIsActive BY DEF GraphInv
  <1> QED BY <1>1, GraphInvariant, PTL

(* fork: turns stay inside the workflow conversation that owns them.       *)
THEOREM GraphTurnsHaveOwners == GraphSpec => []TurnsHaveOwners
  <1>1. GraphInv => TurnsHaveOwners BY DEF GraphInv
  <1> QED BY <1>1, GraphInvariant, PTL

(* What no transaction of the graph takes back: an instance stays in the   *)
(* tables, with its scope, a pruned one stays pruned, revisions and the    *)
(* commands table only grow, and the graph revision grows with every       *)
(* change of the tree or of a name.                                        *)
LEMMA GraphAdvances ==
  ASSUME GraphInv, [GraphNext]_graphVars
  PROVE /\ grev' >= grev
        /\ treeVars' # treeVars \/ nameVars' # nameVars => grev' > grev
        /\ \A i \in Instances :
             /\ node[i] # "absent" => /\ node'[i] # "absent" /\ scope'[i] = scope[i]
                                      /\ crev'[i] >= crev[i]
             /\ node[i] = "pruned" => node'[i] = "pruned"
        /\ commands \subseteq commands'
  <1> USE DEF treeVars
  <1> DEFINE Kept == /\ \A i \in Instances :
                         /\ node[i] # "absent" => /\ node'[i] # "absent" /\ scope'[i] = scope[i]
                                                  /\ crev'[i] >= crev[i]
                         /\ node[i] = "pruned" => node'[i] = "pruned"
                     /\ commands \subseteq commands'
             Tells == grev' >= grev /\ (treeVars' # treeVars \/ nameVars' # nameVars => grev' > grev)
  <1>0. /\ grev \in Nat /\ crev \in [Instances -> Nat] /\ scope \in [Instances -> {"workflow", "turn"}]
        /\ node \in [Instances -> {"absent", "active", "pruned"}]
        /\ title \in [Instances -> Titles \cup {Placeholder}] /\ generated \in SUBSET Instances
        BY DEF GraphInv, GraphTypeOK
  <1>1. ASSUME NEW k \in Keys \cup {NoKey}, NEW c \in Instances, NEW s \in Instances,
               NEW sc \in {"workflow", "turn"}, NEW given \in Texts,
               NEW first \in Texts, NEW rev,
               CanFork(k, c, s, sc, rev), Fork(k, c, s, sc, given, first)
        PROVE Tells /\ Kept
        BY <1>0, <1>1 DEF CanFork, Fork
  <1>2. ASSUME NEW i \in Instances, Speak(i) PROVE Tells /\ Kept
    <2>1. CASE Edit(i) BY <1>0, <2>1 DEF Edit
    <2>2. CASE Merge(i) BY <1>0, <2>2 DEF Merge
    <2>3. ASSUME NEW role, NEW text, AppendMessage(i, role, text) PROVE Tells /\ Kept
      <3>1. NamesWorkflow(i, role, text) => NamesBranch(i, role, text) BY DEF NamesWorkflow
      <3>2. CASE NamesBranch(i, role, text) BY <1>0, <2>3, <3>2 DEF AppendMessage, RevisionStep
      <3>3. CASE ~NamesBranch(i, role, text)
            BY <1>0, <2>3, <3>1, <3>3 DEF AppendMessage, RevisionStep, nameVars
      <3> QED BY <3>2, <3>3
    <2> QED BY <1>2, <2>1, <2>2, <2>3 DEF Speak
  <1>3. ASSUME NEW i \in Instances, RenameAny(i) PROVE Tells /\ Kept
    <2> PICK t \in Titles : Rename(i, t) BY <1>3 DEF RenameAny
    <2>1. title[i] = t /\ i \notin generated => UNCHANGED <<title, generated>> BY <1>0 DEF Rename
    <2> QED BY <1>0, <2>1 DEF Rename, nameVars
  <1>4. ASSUME NEW i \in Instances, ActivateAny(i) PROVE Tells /\ Kept
        BY <1>0, <1>4 DEF ActivateAny, Activate
  <1>5. ASSUME NEW i \in Instances, PruneAny(i) PROVE Tells /\ Kept
        BY <1>0, <1>5 DEF PruneAny, Prune, Subtree
  <1>6. CASE NameWorkflow
    <2> PICK t : RenameWorkflow(t) BY <1>6 DEF NameWorkflow
    <2> QED BY <1>0 DEF RenameWorkflow, nameVars
  <1>9. ASSUME NEW i \in Instances, NameTurn(i) PROVE Tells /\ Kept
        BY <1>0, <1>9 DEF NameTurn, RenameTurn
  <1>7. CASE UNCHANGED graphVars BY <1>0, <1>7 DEF graphVars
  <1>8. ASSUME NEW i \in Instances, NEW k \in Keys \cup {NoKey}, ForkTurn(i, k) \/ ForkWorkflow(i)
        PROVE Tells /\ Kept
        BY <1>1, <1>8 DEF ForkTurn, ForkWorkflow
  <1> QED BY <1>2, <1>3, <1>4, <1>5, <1>6, <1>7, <1>8, <1>9 DEF GraphNext

(* Every transaction that changes the tree, a title, whether it is a       *)
(* generated one, the name of the workflow or of a turn advances           *)
(* graph_revision, the first message that names a conversation included.   *)
THEOREM GraphRevisionsTell == GraphSpec => RevisionsTell
  <1>1. ASSUME GraphInv, [GraphNext]_graphVars
        PROVE [treeVars' # treeVars \/ nameVars' # nameVars => grev' > grev]_graphVars
        BY <1>1, GraphAdvances
  <1> QED BY <1>1, GraphInvariant, PTL DEF GraphSpec, RevisionsTell
=============================================================================
