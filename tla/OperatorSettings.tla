--------------------------- MODULE OperatorSettings ---------------------------
(***************************************************************************)
(* The settings of an operator in the JavaScript package, from the call of *)
(* its factory (generated/ops.ts) on.  An op runs on raw C++ copies, made  *)
(* at any time later: its own, one for each Pipeline and each live session *)
(* (ownCopy) and for its streams.  It also records the settings the caller *)
(* gave (SETTINGS), from which a Pipeline is described (pipeline_io.ts);   *)
(* a description, or a save file, gives an op again, built by the same     *)
(* factory or by the C++ core (serial.ts).                                 *)
(*                                                                         *)
(* A setting may be an array, or an op with one, that the user holds and   *)
(* may change at any time.  The C++ constructors are external: they take   *)
(* or refuse the settings.                                                 *)
(***************************************************************************)
EXTENDS Factories, Naturals, Sequences, FiniteSets

CONSTANTS Operators,   \* the factories
          MaxGiven,    \* bound on the model: the settings given beside the needed ones
          MaxChanges,  \* bound on the model: how often the user changes the array
          MaxOps,      \* bound on the model: the op, and those rebuilt from it
          MaxCopies    \* bound on the model: the copies of each op

OperatorAssumption == Operators \subseteq DOMAIN Factory
SettingsBound == MaxGiven \in Nat /\ MaxChanges \in Nat /\ MaxOps \in Nat /\ MaxCopies \in Nat

VARIABLES name,    \* the operator
          array,   \* the content of the user's array
          ops,     \* the ops: what each recorded, and what its copies are made with
          copies,  \* the copies made: of which op, with which settings
          meant,   \* what the user's call asked for
          stale    \* the array was changed before it was described

settingsVars == <<name, array, ops, copies, meant, stale>>

\* A value of a setting; an array that is not the user's has its own content.
Value(is) == [is |-> is, content |-> 0]
Users == Value("user's array")
Array(content) == [is |-> "array", content |-> content]
DefaultOf(s) == Value(s.default)

\* The values a caller may give.
Forms == {"undefined", "null", "NaN", "value", "another kind", "past int32"}
Given == {Value(f) : f \in Forms} \union {Users}

Settings(f) == Factory[f].settings
Number_(s) == s.kind \in {"number", "vector"}

\* No default is one of the values above, but for NaN, which a number may have.
DefaultAssumption ==
  \A f \in Operators : \A i \in 1 .. Len(Settings(f)) :
    LET s == Settings(f)[i]
    IN /\ s.default \notin {"array", "user's array"} \union (Forms \ {"NaN"})
       /\ s.default = "NaN" => Number_(s)

\* The checks of a factory: a needed setting, the kind (typeof, _vec, _opArg),
\* the range of an integer.  null stands for a setting left out only where NaN
\* does.
Accepts(s, v) ==
  CASE v.is = "undefined" -> s.default # "needed"
    [] v.is = "null" -> s.default = "NaN"
    [] v.is = "NaN" -> Number_(s)
    [] v.is = "value" -> s.kind # "operator"
    [] v.is = "another kind" -> FALSE
    [] v.is = "past int32" -> Number_(s)
    [] v.is \in {"array", "user's array"} -> s.kind \in {"vector", "operator"}
    [] OTHER -> v = DefaultOf(s)

\* The value a factory works with.
Resolve(s, v) ==
  IF v.is = "undefined" \/ (s.default = "NaN" /\ v.is \in {"null", "NaN"}) THEN DefaultOf(s) ELSE v

\* The value it records: "_given".
Record(s, v) == IF s.default = "NaN" /\ v.is = "NaN" THEN Value("undefined") ELSE v

\* An array as it is now.
Now(v) == IF v = Users THEN Array(array) ELSE v

\* Bug: the array of the caller is kept, not copied.
Vec_Kept(v) == v

\* _vec copies an array once, and the factory of an op that is a setting has
\* done so.
Vec(v) == Now(v)

\* An op, from the values given to its factory.
Made(f, given) ==
  [given |-> [i \in DOMAIN given |-> Record(Settings(f)[i], given[i])],
   with |-> [i \in DOMAIN given |-> Vec(Resolve(Settings(f)[i], given[i]))]]

SettingsInit ==
  /\ name \in Operators
  /\ array = 0
  /\ ops = <<>> /\ copies = {} /\ meant = <<>> /\ stale = FALSE

\* All choices of at most MaxGiven settings besides the needed ones.
Calls(f) ==
  LET n == Len(Settings(f))
      free == {i \in 1 .. n : Settings(f)[i].default # "needed"}
      picked == {ps \in SUBSET free : Cardinality(ps) <= MaxGiven}
  IN UNION {{[i \in 1 .. n |-> IF i \in ps \union (1 .. n \ free) THEN g[i] ELSE Value("undefined")] :
               g \in [ps \union (1 .. n \ free) -> Given]} : ps \in picked}

\* The factory is called, by position or with an options object.
Construct ==
  /\ ops = <<>>
  /\ \E given \in Calls(name) :
       /\ \A i \in DOMAIN given : Accepts(Settings(name)[i], given[i])
       /\ ops' = <<Made(name, given)>>
       /\ meant' = [i \in DOMAIN given |-> Now(Resolve(Settings(name)[i], given[i]))]
  /\ UNCHANGED <<name, array, copies, stale>>

\* The user changes the array in place.
Change ==
  /\ array < MaxChanges
  /\ array' = array + 1
  /\ UNCHANGED <<name, ops, copies, meant, stale>>

\* A raw copy is made: by the op itself, a stream, a Pipeline, a session, or an
\* operator that holds this one.
Copy(o) ==
  /\ Cardinality({c \in copies : c.of = o}) < MaxCopies
  /\ copies' = copies \union {[of |-> o, nth |-> Cardinality({c \in copies : c.of = o}),
                                with |-> [i \in DOMAIN ops[o].with |-> Now(ops[o].with[i])]]}
  /\ UNCHANGED <<name, array, ops, meant, stale>>

\* Bug: what is not given is written with its value.
Written_Null(v) == IF v.is = "undefined" THEN Value("null") ELSE Now(v)

\* settingsOf: the settings given are written, an array as it is now; one that
\* is not given (undefined, null) is left out.
Written(v) == IF v.is \in {"undefined", "null"} THEN Value("undefined") ELSE Now(v)

\* toJSON, and fromJSON of it: makeFunctor calls the factory with an options
\* object.
Rebuild(o) ==
  /\ Len(ops) < MaxOps
  /\ LET text == [i \in DOMAIN ops[o].given |-> Written(ops[o].given[i])]
     IN /\ \A i \in DOMAIN text : Accepts(Settings(name)[i], text[i])
        /\ ops' = Append(ops, Made(name, text))
  /\ stale' = (stale \/ \E i \in DOMAIN ops[o].given :
                 ops[o].given[i] = Users /\ Now(Users) # meant[i])
  /\ UNCHANGED <<name, array, copies, meant>>

\* settings() of the C++ operator, every one of them; what is left out is null.
Text_(s, v) == IF s.default = "NaN" /\ v.is = "NaN" THEN Value("null") ELSE v

\* record(): null is not given.
FromText(v) == IF v.is = "null" THEN Value("undefined") ELSE v

\* loads and fromSettings: the core builds the operator from its own settings.
Load(o) ==
  /\ Len(ops) < MaxOps
  /\ LET text == [i \in DOMAIN ops[o].with |-> Text_(Settings(name)[i], Now(ops[o].with[i]))]
     IN ops' = Append(ops, [given |-> [i \in DOMAIN text |-> FromText(text[i])],
                            with |-> [i \in DOMAIN text |-> Resolve(Settings(name)[i], FromText(text[i]))]])
  /\ UNCHANGED <<name, array, copies, meant, stale>>

SettingsNext == Construct \/ Change \/ \E o \in 1 .. Len(ops) : Copy(o) \/ Rebuild(o) \/ Load(o)

SettingsSpec == SettingsInit /\ [][SettingsNext]_settingsVars
-----------------------------------------------------------------------------
(* Properties *)

\* Every copy of an op works with the settings its factory was called with,
\* whatever the user does to an array afterwards; and so does every copy of an
\* op that comes back from a description or a file, unless the array was changed
\* before it was described. Every op can be built again from what is written of
\* it, a setting left out (undefined, null or NaN) included.
SettingsKept ==
  /\ \A c \in copies : c.of = 1 \/ ~stale => c.with = meant
  /\ \A o \in 1 .. Len(ops) : \A i \in DOMAIN ops[o].given :
       Accepts(Settings(name)[i], Written(ops[o].given[i]))

\* An op that comes back from a file always works as the saved one did.
FilesKeepSettings == \A c \in copies : c.with = meant
=============================================================================
