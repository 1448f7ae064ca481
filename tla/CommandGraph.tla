---------------------------- MODULE CommandGraph ----------------------------
(***************************************************************************)
(* The command_graph container (src/include/command_graph.h): commands     *)
(* keyed by a monotonic command id, the per-task index by_task, the        *)
(* per-node execution fronts ("set of per-node commands with no            *)
(* dependents") and max_pseudo_critical_path_length.                       *)
(*                                                                         *)
(* The container is driven by any sequence of calls that satisfies its    *)
(* asserts: create, add_dependency (same node, distinct commands) and      *)
(* remove_dependency.  The dependency list and the pseudo critical path    *)
(* length of a command live in abstract_command (command.h), which is      *)
(* modelled from spec.md 3: add_dependency appends {dependee, is_anti} and *)
(* raises the depender's length to at least the dependee's plus one;       *)
(* remove_dependency drops the dependee and leaves the length alone.       *)
(***************************************************************************)
EXTENDS Integers, FiniteSets, Sequences, SequencesExt

Gr == INSTANCE Graphs

CONSTANTS
    Nodes,        \* node ids commands are created for
    Tasks,        \* task ids of task commands
    Kinds,        \* command kinds created
    TaskKinds,    \* the kinds derived from task_command
    MaxCmds,      \* bound on the number of create calls
    MaxCpl        \* bound on pseudo critical path lengths

ASSUME TaskKinds \subseteq Kinds /\ "nop" \in Kinds \ TaskKinds

NoTask == -1

VARIABLES
    nextCmdId,    \* next_cmd_id
    commands,     \* commands: cid -> [kind, nid, tid, pcpl]
    deps,         \* dependency entries <<depender, dependee, is_anti>>
    byTask,       \* by_task: tid -> commands of the task, in creation order
                  \* (an entry exists once a command of the task was created)
    fronts,       \* execution_fronts: nid -> set of cids
    maxCpl        \* max_pseudo_critical_path_length

vars == <<nextCmdId, commands, deps, byTask, fronts, maxCpl>>

CmdIds == 0 .. MaxCmds - 1

Init ==
    /\ nextCmdId = 0
    /\ commands = <<>>
    /\ deps = {}
    /\ byTask = [t \in {} |-> <<>>]
    /\ fronts = [n \in Nodes |-> {}]
    /\ maxCpl = 0

-----------------------------------------------------------------------------
(* create<T>(args): take next_cmd_id, index a task command under its task, *)
(* and put every command but a nop into its node's execution front.       *)
IsTaskCommand(kind) == kind \in TaskKinds

\* by_task[tid].emplace_back(cmd): operator[] creates the entry if needed.
IndexByTask(tid, cid) ==
    IF tid \in DOMAIN byTask THEN [byTask EXCEPT ![tid] = Append(@, cid)]
    ELSE byTask @@ (tid :> <<cid>>)

\* Mutant: next_cmd_id is read but not incremented.
CreateReusesId(kind, nid, tid) ==
    LET cid == nextCmdId IN
    /\ nextCmdId < MaxCmds
    /\ tid = NoTask <=> ~IsTaskCommand(kind)
    /\ commands' = commands @@ (cid :> [kind |-> kind, nid |-> nid, tid |-> tid, pcpl |-> 0])
    /\ byTask' = IF IsTaskCommand(kind) THEN IndexByTask(tid, cid) ELSE byTask
    /\ fronts' = IF kind # "nop"
                    THEN [fronts EXCEPT ![nid] = @ \cup {cid}]
                    ELSE fronts
    /\ UNCHANGED <<nextCmdId, deps, maxCpl>>

Create(kind, nid, tid) ==
    LET cid == nextCmdId IN
    /\ nextCmdId < MaxCmds
    /\ tid = NoTask <=> ~IsTaskCommand(kind)
    /\ nextCmdId' = nextCmdId + 1
    /\ commands' = commands @@ (cid :> [kind |-> kind, nid |-> nid, tid |-> tid, pcpl |-> 0])
    /\ byTask' = IF IsTaskCommand(kind) THEN IndexByTask(tid, cid) ELSE byTask
    /\ fronts' = IF kind # "nop"
                    THEN [fronts EXCEPT ![nid] = @ \cup {cid}]
                    ELSE fronts
    /\ UNCHANGED <<deps, maxCpl>>

\* abstract_command::get_pseudo_critical_path_length after depender gained
\* the dependee.
RaisedCpl(depender, dependee) ==
    IF commands[dependee].pcpl + 1 > commands[depender].pcpl
       THEN commands[dependee].pcpl + 1
       ELSE commands[depender].pcpl

NewMaxCpl(cpl) == IF cpl > maxCpl THEN cpl ELSE maxCpl

\* Mutant: the dependee stays in the execution front.
AddDependencyKeepsFront(depender, dependee, isAnti) ==
    LET cpl == RaisedCpl(depender, dependee) IN
    /\ commands[depender].nid = commands[dependee].nid
    /\ depender # dependee
    /\ cpl <= MaxCpl
    /\ deps' = deps \cup {<<depender, dependee, isAnti>>}
    /\ commands' = [commands EXCEPT ![depender].pcpl = cpl]
    /\ maxCpl' = NewMaxCpl(cpl)
    /\ UNCHANGED <<nextCmdId, byTask, fronts>>

(* add_dependency(depender, dependee, is_anti): the asserts require the    *)
(* same node and distinct commands; the dependee leaves the front and the  *)
(* maximum length is raised.                                               *)
AddDependency(depender, dependee, isAnti) ==
    LET cpl == RaisedCpl(depender, dependee) IN
    /\ commands[depender].nid = commands[dependee].nid
    /\ depender # dependee
    /\ cpl <= MaxCpl
    /\ deps' = deps \cup {<<depender, dependee, isAnti>>}
    /\ commands' = [commands EXCEPT ![depender].pcpl = cpl]
    /\ fronts' = [fronts EXCEPT ![commands[depender].nid] = @ \ {dependee}]
    /\ maxCpl' = NewMaxCpl(cpl)
    /\ UNCHANGED <<nextCmdId, byTask>>

(* remove_dependency(depender, dependee): only the command's own list      *)
(* changes.                                                                *)
RemoveDependency(depender, dependee) ==
    /\ \E d \in deps : d[1] = depender /\ d[2] = dependee
    /\ deps' = {d \in deps : ~(d[1] = depender /\ d[2] = dependee)}
    /\ UNCHANGED <<nextCmdId, commands, byTask, fronts, maxCpl>>

(* erase(cmd) (spec.md 4.3, the body is not under src/): the command      *)
(* leaves every index (commands, by_task, its node's execution front) and  *)
(* its own dependency list goes with it; other commands' entries that name *)
(* it as their dependee are not touched.                                   *)
Erase(c) ==
    /\ commands' = [x \in DOMAIN commands \ {c} |-> commands[x]]
    /\ byTask' = IF IsTaskCommand(commands[c].kind)
                    THEN [byTask EXCEPT ![commands[c].tid] =
                            SelectSeq(@, LAMBDA x : x # c)]
                    ELSE byTask
    /\ fronts' = [fronts EXCEPT ![commands[c].nid] = @ \ {c}]
    /\ deps' = {d \in deps : d[1] # c}
    /\ UNCHANGED <<nextCmdId, maxCpl>>

(* filter_iterator(begin, end, fn) over by_task[tid], fn the kind test of *)
(* task_commands: the constructor calls advance(), which skips the        *)
(* commands fn rejects; operator++ steps once and advances again.          *)
Accepts(c, filters) == commands[c].kind \in filters

RECURSIVE Advance(_, _, _)
Advance(s, i, filters) ==
    IF i <= Len(s) /\ ~Accepts(s[i], filters) THEN Advance(s, i + 1, filters) ELSE i

RECURSIVE FilterWalk(_, _, _)
FilterWalk(s, i, filters) ==
    IF i > Len(s) THEN <<>>
    ELSE <<s[i]>> \o FilterWalk(s, Advance(s, i + 1, filters), filters)

\* Mutant: the constructor does not advance to the first match.
FilterIterateFromBegin(s, filters) == FilterWalk(s, 1, filters)

FilterIterate(s, filters) == FilterWalk(s, Advance(s, 1, filters), filters)

\* task_commands<Filters...>(tid), which asserts that tid has an entry.
TaskCommands(tid, filters) == FilterIterate(byTask[tid], filters)

Next ==
    \/ \E k \in Kinds, n \in Nodes, t \in Tasks \cup {NoTask} : Create(k, n, t)
    \/ \E a, b \in DOMAIN commands, anti \in BOOLEAN : AddDependency(a, b, anti)
    \/ \E a, b \in DOMAIN commands : RemoveDependency(a, b)
    \/ \E c \in DOMAIN commands : Erase(c)

Spec == Init /\ [][Next]_vars

-----------------------------------------------------------------------------
TypeOK ==
    /\ nextCmdId \in 0 .. MaxCmds
    /\ DOMAIN commands \subseteq 0 .. nextCmdId - 1
    /\ \A c \in DOMAIN commands :
          commands[c] \in [kind : Kinds, nid : Nodes, tid : Tasks \cup {NoTask},
                           pcpl : 0 .. MaxCpl]
    /\ deps \subseteq (CmdIds \X CmdIds \X BOOLEAN)
    /\ DOMAIN byTask \subseteq Tasks
    /\ \A t \in DOMAIN byTask : byTask[t] \in Seq(CmdIds)
    /\ fronts \in [Nodes -> SUBSET CmdIds]
    /\ maxCpl \in 0 .. MaxCpl

Dependents(c) == {d[1] : d \in {e \in deps : e[2] = c}}

\* Commands of node n that no other command depends on.
LeafCommandsOf(n) ==
    {c \in DOMAIN commands : commands[c].nid = n /\ commands[c].kind # "nop"
                             /\ Dependents(c) = {}}

(* The generator attaches every new command to the execution front, taken *)
(* as the latest commands of a node: no command in a front may already     *)
(* have a dependent, whatever sequence of create, add_dependency and       *)
(* remove_dependency calls was made.                                       *)
FrontHasNoDependents ==
    \A n \in Nodes : fronts[n] \subseteq LeafCommandsOf(n)

(* For every task with an entry, task_commands<Filters...>(tid) visits    *)
(* exactly the live commands of task tid whose kind is one of the filters, *)
(* each once, in creation order, whatever kinds of commands were created   *)
(* in between and whichever were erased.                                   *)
TaskCommandsFiltered ==
    \A t \in DOMAIN byTask, filters \in SUBSET TaskKinds :
        TaskCommands(t, filters) =
            SetToSortSeq({c \in DOMAIN commands : commands[c].tid = t
                                                /\ commands[c].kind \in filters}, <)

(* spec.md 8: execution_fronts[n] equals the set of commands on node n     *)
(* with no dependents (nops excepted, which create never puts in a front). *)
FrontIsLeaves ==
    \A n \in Nodes : fronts[n] = LeafCommandsOf(n)

(* spec.md 3: within a node the dependencies form a DAG.  add_dependency *)
(* asserts only the same node and dependee != depender (lines 138-139),   *)
(* so after any sequence of calls that pass those asserts the graph of    *)
(* dependency entries must still have no cycle.                           *)
DependenciesAcyclic ==
    Gr!IsDag([node |-> CmdIds, edge |-> {<<d[1], d[2]>> : d \in deps}])

=============================================================================
