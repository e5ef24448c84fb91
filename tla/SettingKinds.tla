---------------------------- MODULE SettingKinds ----------------------------
(***************************************************************************)
(* The settings of an operator of the JavaScript package, as its factory   *)
(* checks them (generated/ops.ts), and the wrapper the factory puts around *)
(* the C++ operator (runtime.ts).                                          *)
(***************************************************************************)

Setting(name, kind, default) == [name |-> name, kind |-> kind, default |-> default]

Int(name, default) == Setting(name, "int", default)
Number(name, default) == Setting(name, "number", default)
Text(name, default) == Setting(name, "text", default)
Bool(name, default) == Setting(name, "bool", default)

\* A number, or an array of numbers.
Vector(name, default) == Setting(name, "vector", default)

\* An operator that is a setting of another.
Op(name) == Setting(name, "operator", "none")

\* A number that may be left out: undefined, null and NaN are one.
Maybe(name) == Setting(name, "number", "NaN")

\* A setting without a default.
Needed(setting) == [setting EXCEPT !.default = "needed"]

Takes(settings) == [wrapper |-> "wrapOp", settings |-> settings]
Reducer(settings) == [wrapper |-> "wrapReducerOp", settings |-> settings]
Row(settings) == [wrapper |-> "wrapRowOp", settings |-> settings]
=============================================================================
