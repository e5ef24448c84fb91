---------------------------- MODULE SessionFiles ----------------------------
(***************************************************************************)
(* A live session saved and loaded in the JavaScript package: the checks   *)
(* and keys of a Pipeline (pipeline.ts), its description and the graph     *)
(* built from one (pipeline_io.ts), the file, and loads (serial.ts) with   *)
(* the engine's load (compiled_graph.h, archive.h): a Validate pass that   *)
(* undoes what it assigned, then a Read pass that keeps it, and the undo   *)
(* of a pass that fails half way.                                          *)
(*                                                                         *)
(* Between the save and the load the user may edit the file.  A node's     *)
(* state is abstracted to the number of events that came to it.  The files *)
(* themselves are in SaveFile, an operator's settings in OperatorSettings. *)
(***************************************************************************)
EXTENDS Naturals, Sequences, SequencesExt, FiniteSets, TLC

CONSTANTS Graphs,    \* the graphs the user gives to Pipeline
          MaxTaken   \* bound on the model: the events before the save

TakenBound == MaxTaken \in Nat

VARIABLES graph,     \* the Pipeline's graph
          state,     \* the state of its session, by field
          saved,     \* what dumps wrote: the description and the state
          text,      \* the file, as it is now: description, state, a broken field
          phase,     \* of the load
          target,    \* the graph and the state of the session that loads
          step,      \* the field that the pass comes to: the key of an entry, its nth field
          undo       \* the undo log of the pass

sessionFileVars == <<graph, state, saved, text, phase, target, step, undo>>

-----------------------------------------------------------------------------
(* Graphs: [inputs, outputs, node], a node being [kind, what, op, in].     *)
(* "what" is an input's name, a functor's class, or an operator and its    *)
(* settings; "op" is the instance of a functor.                            *)

NoGraph == [inputs |-> <<>>, outputs |-> <<>>, node |-> <<>>]

\* walkIds: the nodes reachable from the outputs, each after its inputs.  The
\* id of a node is its place.
walkIds(g) ==
  LET visit[done \in Seq(DOMAIN g.node), n \in DOMAIN g.node] ==
        IF n \in ToSet(done) THEN done
        ELSE Append(FoldLeft(LAMBDA d, i : visit[d, i], done, g.node[n].in), n)
  IN FoldLeft(LAMBDA d, n : visit[d, n], <<>>, g.outputs)

NodeIds(g) == 1 .. Len(walkIds(g))
Id(g, n) == CHOOSE k \in NodeIds(g) : walkIds(g)[k] = n

\* reachableInputs and the checks of the constructor: the inputs declared are
\* those the outputs use, and no functor backs two nodes.
reachableInputs(g) == {n \in ToSet(walkIds(g)) : g.node[n].kind = "input"}

checkStatefulSafety(g) ==
  \A m, n \in {k \in ToSet(walkIds(g)) : g.node[k].kind = "functor"} :
    g.node[m].op = g.node[n].op => m = n

Valid(g) == reachableInputs(g) = ToSet(g.inputs) /\ checkStatefulSafety(g)

\* describe: each node by its id.
Ids(g, nodes) == [i \in DOMAIN nodes |-> Id(g, nodes[i])]
describe(g) ==
  [inputs |-> [i \in DOMAIN g.inputs |-> g.node[g.inputs[i]].what],
   outputs |-> Ids(g, g.outputs),
   nodes |-> [k \in NodeIds(g) |->
                LET n == g.node[walkIds(g)[k]]
                IN [id |-> k, kind |-> n.kind, what |-> n.what, in |-> Ids(g, n.in)]]]

\* check_graph: the ids differ, and a node comes after its inputs.
CheckGraph(d) ==
  \A i \in DOMAIN d.nodes :
    /\ \A j \in DOMAIN d.nodes : d.nodes[i].id = d.nodes[j].id => i = j
    /\ \A in \in ToSet(d.nodes[i].in) : \E j \in 1 .. i - 1 : d.nodes[j].id = in

\* build: every node by its factory, a functor with an op of its own.
build(d) ==
  LET at(id) == CHOOSE n \in ToSet(d.nodes) : n.id = id
      input(name) == CHOOSE id \in {n.id : n \in ToSet(d.nodes)} : at(id).kind = "input" /\ at(id).what = name
  IN [inputs |-> [i \in DOMAIN d.inputs |-> input(d.inputs[i])],
      outputs |-> d.outputs,
      node |-> [id \in {n.id : n \in ToSet(d.nodes)} |->
                  [kind |-> at(id).kind, what |-> at(id).what, op |-> id, in |-> at(id).in]]]

\* The graphs have no cycle, so that a walk comes to its end, and what is built
\* from a description has that description.
GraphAssumption ==
  \A g \in Graphs :
    Valid(g) => walkIds(g) \in Seq(DOMAIN g.node) /\ describe(build(describe(g))) = describe(g)

-----------------------------------------------------------------------------
(* Fields: <<0, f>> of the engine, and <<key, f>> of a node, whose key is  *)
(* its id in the description.                                              *)

\* "flushed" stands for what else the engine holds, read before the widths.
EngineFields == <<<<0, "version">>, <<0, "graph">>, <<0, "flushed">>, <<0, "input_widths">>,
                  <<0, "poisoned">>, <<0, "width">>, <<0, "rows">>>>

\* A node holds the state of its parts.
NodeFields(k, kind) ==
  CASE kind = "input" -> <<<<k, "version">>, <<k, "node">>>>
    [] kind = "functor" -> <<<<k, "version">>, <<k, "node">>, <<k, "op">>>>
    [] OTHER -> <<<<k, "version">>, <<k, "node">>, <<k, "merge">>, <<k, "combine_latest">>>>

\* The entries of CompiledGraph::state, in the order of their keys: the engine's,
\* then one for each node.
Keys(g) == {0} \union NodeIds(g)
Entry(g, k) == IF k = 0 THEN EngineFields ELSE NodeFields(k, describe(g).nodes[k].kind)
Fields(g) == UNION {ToSet(Entry(g, k)) : k \in Keys(g)}

\* The first field, and the one that comes after another.
Start == [key |-> 0, nth |-> 1]
After(g, s) ==
  IF s.nth < Len(Entry(g, s.key)) THEN [key |-> s.key, nth |-> s.nth + 1] ELSE [key |-> s.key + 1, nth |-> 1]

Checks == {"version", "graph", "node"}
Held(g) == {f \in Fields(g) : f[2] \notin Checks}

Built(g) == [f \in Held(g) |-> IF f[2] = "poisoned" THEN FALSE ELSE 0]

\* The nodes below an input, itself included.
Below(g, i) ==
  LET above[n \in DOMAIN g.node] == {n} \union UNION {above[m] : m \in ToSet(g.node[n].in)}
  IN {n \in ToSet(walkIds(g)) : i \in above[n]}

-----------------------------------------------------------------------------

NoText == [description |-> <<>>, state |-> <<>>, broken |-> <<>>, edited |-> FALSE]

SessionFilesInit ==
  /\ graph = NoGraph /\ state = <<>> /\ saved = NoText /\ text = NoText
  /\ phase = "none" /\ target = [graph |-> NoGraph, state |-> <<>>]
  /\ step = Start /\ undo = <<>>

\* A Pipeline, and a live session of it.
Live ==
  /\ graph = NoGraph
  /\ \E g \in Graphs : Valid(g) /\ graph' = g /\ state' = Built(g)
  /\ UNCHANGED <<saved, text, phase, target, step, undo>>

\* An event of input i reaches every node below it; one that is rejected on its
\* way reaches a part of them, and poisons the session.
Event(i) ==
  /\ saved = NoText /\ graph # NoGraph
  /\ state[<<0, "flushed">>] < MaxTaken /\ ~state[<<0, "poisoned">>]
  /\ \E reached \in {Below(graph, i)} \union {{i}} :
       state' = [f \in DOMAIN state |->
                   CASE f[2] = "poisoned" -> reached # Below(graph, i)
                     [] f[2] \in {"input_widths", "width"} -> 1
                     [] f[1] = 0 /\ f[2] \notin {"input_widths", "width", "poisoned"} -> state[f] + 1
                     [] f[1] # 0 -> IF walkIds(graph)[f[1]] \in reached THEN state[f] + 1 ELSE state[f]]
  /\ UNCHANGED <<graph, saved, text, phase, target, step, undo>>

\* dumps of the session; a poisoned one is not saveable.
Dump ==
  /\ graph # NoGraph /\ saved = NoText
  /\ ~state[<<0, "poisoned">>]
  /\ saved' = [description |-> describe(graph), state |-> state, broken |-> <<>>, edited |-> FALSE]
  /\ text' = saved'
  /\ UNCHANGED <<graph, state, phase, target, step, undo>>

\* The user edits the file: it gets the description of another graph, its nodes
\* get other ids, or a field of the state becomes what a load refuses.
Renumbered(d, to) ==
  LET ids(s) == [i \in DOMAIN s |-> to[s[i]]]
  IN [d EXCEPT !.outputs = ids(@),
               !.nodes = [k \in DOMAIN @ |-> [@[k] EXCEPT !.id = to[@], !.in = ids(@)]]]

Edit ==
  /\ text # NoText /\ ~text.edited /\ phase = "none"
  /\ \E d \in {describe(g) : g \in {h \in Graphs : Valid(h)}}, broken \in Fields(graph) \union {<<>>} :
       /\ d = text.description \/ broken = <<>>
       /\ \E to \in {t \in Permutations(1 .. Len(d.nodes)) : t = [k \in 1 .. Len(d.nodes) |-> k]
                                                              \/ (d = text.description /\ broken = <<>>)} :
            text' = [text EXCEPT !.description = Renumbered(d, to), !.broken = broken, !.edited = TRUE]
  /\ UNCHANGED <<graph, state, saved, phase, target, step, undo>>

\* loads: the Pipeline of the description, and a new session of it.
Loads ==
  /\ text # NoText /\ phase = "none"
  /\ CheckGraph(text.description)
  /\ LET g == build(text.description)
     IN Valid(g) /\ target' = [graph |-> g, state |-> Built(g)]
  /\ phase' = "validate"
  /\ step' = Start
  /\ UNCHANGED <<graph, state, saved, text, undo>>

Passes == {"validate", "read"}

\* What the state records of the graph it was saved from.
Recorded(field) ==
  IF field[2] = "graph" THEN <<saved.description.inputs, saved.description.outputs>>
  ELSE saved.description.nodes[field[1]]
Structure(g, field) ==
  IF field[2] = "graph" THEN <<describe(g).inputs, describe(g).outputs>>
  ELSE describe(g).nodes[field[1]]

\* Bug: a node's entry loads whatever node it was saved from.
Fits_AnyNode(g, field) ==
  /\ field # text.broken
  /\ field[2] = "graph" => Structure(g, field) = Recorded(field)
  /\ field[2] \notin Checks => field \in DOMAIN text.state
  /\ field[1] \in {0} \union DOMAIN saved.description.nodes

\* A field is there, and is one that the target takes.
Fits(g, field) ==
  /\ field # text.broken
  /\ field[1] \in {0} \union DOMAIN saved.description.nodes
  /\ field[2] \in {"graph", "node"} => Structure(g, field) = Recorded(field)
  /\ field[2] \notin Checks => field \in DOMAIN text.state

\* What a field assigns: the widths of the inputs give those of the outputs, and
\* "poisoned" is no field of the file.
Assigns(field) ==
  LET to == CASE field[2] \in Checks -> {}
              [] field[2] = "input_widths" -> {field, <<0, "width">>}
              [] OTHER -> {field}
  IN [f \in to |-> IF field[2] = "poisoned" THEN FALSE ELSE text.state[field]]

\* The field that the pass comes to, until its end.
AtEnd == step.key \notin Keys(target.graph)
Field == Entry(target.graph, step.key)[step.nth]

\* Loader: take, check and assign one field, or fail.
Take ==
  /\ phase \in Passes /\ ~AtEnd
  /\ LET field == Field
         new == Assigns(field)
     IN /\ Fits(target.graph, field)
        /\ undo' = Append(undo, [f \in DOMAIN new |-> target.state[f]])
        /\ target' = [target EXCEPT !.state = [f \in DOMAIN @ |-> IF f \in DOMAIN new THEN new[f] ELSE @[f]]]
  /\ step' = After(target.graph, step)
  /\ UNCHANGED <<graph, state, saved, text, phase>>

\* The places of a field in the log.
Logged(f) == {k \in DOMAIN undo : f \in DOMAIN undo[k]}

\* Bug: the oldest assignment is undone first.
Undone_Forward ==
  [f \in DOMAIN target.state |-> IF Logged(f) = {} THEN target.state[f] ELSE undo[Max(Logged(f))][f]]

\* UndoLog::undo: the latest first, so that a field's oldest value comes last.
Undone ==
  [f \in DOMAIN target.state |-> IF Logged(f) = {} THEN target.state[f] ELSE undo[Min(Logged(f))][f]]

\* The end of a pass; a field of the file that no node took is unknown.
Unread == {n.id : n \in ToSet(saved.description.nodes)} # NodeIds(target.graph)

EndPass ==
  /\ phase \in Passes /\ AtEnd /\ ~Unread
  /\ IF phase = "validate"
     THEN phase' = "read" /\ step' = Start /\ target' = [target EXCEPT !.state = Undone]
     ELSE phase' = "loaded" /\ UNCHANGED <<step, target>>
  /\ undo' = <<>>
  /\ UNCHANGED <<graph, state, saved, text>>

\* A pass fails: abandon.  With onMismatch "fresh" the session is kept, and a
\* version that differs is a mismatch too.
Fail ==
  /\ phase \in Passes
  /\ IF AtEnd THEN Unread ELSE ~Fits(target.graph, Field)
  /\ target' = [target EXCEPT !.state = Undone]
  /\ undo' = <<>>
  /\ phase' \in {"fresh", "failed"}
  /\ UNCHANGED <<graph, state, saved, text, step>>

SessionFilesNext ==
  \/ Live \/ Dump \/ Edit \/ Loads \/ Take \/ EndPass \/ Fail
  \/ \E i \in ToSet(graph.inputs) : Event(i)

SessionFilesSpec == SessionFilesInit /\ [][SessionFilesNext]_sessionFileVars

-----------------------------------------------------------------------------
(* Properties *)

\* A loaded session continues where the saved one stopped: each node holds what
\* the node of the same kind, operator and inputs held at the save, and the file
\* as it was written always loads. A state never loads into another graph,
\* however the file's description was edited.
LoadedContinues ==
  /\ phase = "loaded" => target.state = saved.state /\ describe(target.graph) = saved.description
  /\ ~text.edited => phase \notin {"fresh", "failed"}

\* A load that fails, in either pass and at any field, leaves the session as it
\* was; so does the Validate pass.
FailedLoadKeeps ==
  phase \in {"fresh", "failed"} \/ (phase = "read" /\ step = Start) => target.state = Built(target.graph)
=============================================================================
