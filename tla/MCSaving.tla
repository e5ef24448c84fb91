------------------------------ MODULE MCSaving ------------------------------
(***************************************************************************)
(* Saving and loading in the JavaScript package, for TLC: a behaviour is   *)
(* one of the file that a save writes (SaveFile), of the settings that an  *)
(* operator keeps and is rebuilt from (OperatorSettings), or of a live     *)
(* session that is saved and loaded (SessionFiles), as "part" says.        *)
(***************************************************************************)
EXTENDS SaveFile, Sequences

CONSTANTS Operators, MaxGiven, MaxChanges, MaxOps, MaxCopies,   \* OperatorSettings
          Graphs, MaxTaken                                      \* SessionFiles

VARIABLES part,
          name, array, ops, copies, meant, stale,
          graph, state, saved, text, phase, target, step, undo

-----------------------------------------------------------------------------
(* The graphs of the sessions: two inputs, a functor and a functor or a    *)
(* join that takes it, with the inputs of a node in either order, the      *)
(* signature not in the order of the walk, two nodes of one class, and     *)
(* what the constructor refuses: an input that is not used, a functor that *)
(* backs two nodes.                                                        *)
In(is) == [kind |-> "input", what |-> is, op |-> 0, in |-> <<>>]
Fn(is, op, in) == [kind |-> "functor", what |-> is, op |-> op, in |-> in]
Join(is, in) == [kind |-> "operator", what |-> is, op |-> 0, in |-> in]
Of(inputs, outputs, n3, n4) ==
  [inputs |-> inputs, outputs |-> outputs, node |-> <<In("x"), In("y"), n3, n4>>]

SomeGraphs ==
  {Of(i, <<4, 3>>, Fn("Lag", 1, <<1>>), b) :
     i \in {<<1, 2>>, <<2, 1>>},
     b \in {Fn("RollingSum", 2, <<3, 2>>), Fn("RollingSum", 2, <<2, 3>>), Fn("Lag", 2, <<3, 2>>),
            Fn("RollingSum", 1, <<2, 3>>), Join("combine_latest", <<1, 3, 2>>)}}
  \union {Of(<<2, 1>>, <<2, 4>>, Fn("Lag", 1, a), Join("combine_latest", <<3, 1>>)) : a \in {<<1>>, <<2>>}}

F == INSTANCE Factories
AllOperators == DOMAIN F!Factory

O == INSTANCE OperatorSettings
S == INSTANCE SessionFiles

ASSUME SavingAssumption ==
  O!OperatorAssumption /\ O!DefaultAssumption /\ O!SettingsBound /\ S!TakenBound /\ S!GraphAssumption

-----------------------------------------------------------------------------
settingsOwn == <<name, array, ops, copies, meant, stale>>
sessionOwn == <<graph, state, saved, text, phase, target, step, undo>>

NoSave ==
  /\ Init
  /\ links = [n \in Names |-> NoName] /\ file = [n \in Names |-> NoFile]
NoSettings == name = "none" /\ array = 0 /\ ops = <<>> /\ copies = {} /\ meant = <<>> /\ stale = FALSE

MCInit ==
  \/ part = "file" /\ Init /\ NoSettings /\ S!SessionFilesInit
  \/ part = "settings" /\ O!SettingsInit /\ NoSave /\ S!SessionFilesInit
  \/ part = "session" /\ S!SessionFilesInit /\ NoSave /\ NoSettings

MCNext ==
  /\ UNCHANGED part
  /\ \/ part = "file" /\ Next /\ UNCHANGED <<settingsOwn, sessionOwn>>
     \/ part = "settings" /\ O!SettingsNext /\ UNCHANGED <<vars, sessionOwn>>
     \/ part = "session" /\ S!SessionFilesNext /\ UNCHANGED <<vars, settingsOwn>>

mcVars == <<part, vars, settingsOwn, sessionOwn>>
MCSpec == MCInit /\ [][MCNext]_mcVars

-----------------------------------------------------------------------------
(* Properties, with TargetWhole, NoLitter and LinksAndModesKept of         *)
(* SaveFile.                                                               *)

\* OperatorSettings: every copy of an op works with the settings its factory
\* was called with, and can be built again.
SettingsKept == part = "settings" => O!SettingsKept

\* SessionFiles: a loaded session continues where the saved one stopped, and no
\* state loads into another graph.
LoadedContinues == part = "session" => S!LoadedContinues

\* SessionFiles: a load that fails leaves the session as it was.
FailedLoadKeeps == part = "session" => S!FailedLoadKeeps
=============================================================================
