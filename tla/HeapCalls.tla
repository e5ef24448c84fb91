----------------------------- MODULE HeapCalls -----------------------------
(***************************************************************************)
(* The calls of the JavaScript package into WASM, and the memory they use: *)
(* the blocks of the WASM heap that a call allocates and frees, the views  *)
(* of the heap it makes, and the WASM stack.                               *)
(*                                                                         *)
(* A function is given by its script: the steps it does with the heap, in  *)
(* the order of the code.  One call runs at a time, but user code that a   *)
(* call runs (a value's conversion, an iterator, a strategy or a metric    *)
(* that C++ calls back) may make calls of its own: "frames" is the stack   *)
(* of the calls in progress.  Three things are easy to get wrong:          *)
(*  - a view is stale once the heap has grown, which any allocation, call  *)
(*    or user code may cause (here: does cause);                           *)
(*  - a call may end in an error at every step, and must free its blocks:  *)
(*    an allocation that fails before the try block leaves those before it *)
(*    on the heap, which three functions do;                               *)
(*  - an error that leaves C++ leaves its frames on the WASM stack, and    *)
(*    with callbacks there are live frames below that must stay.           *)
(* The C++ functions and their blocks are external.                        *)
(***************************************************************************)
EXTENDS Naturals, Sequences, FiniteSets, TLC

CONSTANTS Functions,  \* the functions the user calls
          Nested,     \* those that user code calls within a call
          MaxFrames,  \* bound on the model: the frames on the stack
          MayFail,    \* the functions whose allocations may be out of memory
          MaxLost     \* bound on the model: the blocks lost before an allocation fails

ASSUME BoundAssumption == MaxFrames \in Nat /\ MaxLost \in Nat

VARIABLES frames,   \* the calls in progress, the current one first
          live,     \* the allocated blocks: <<depth of the frame, name>>
          kept,     \* the buffers that operators and streams point to
          sp,       \* the WASM stack pointer: the C++ frames on the stack
          base,     \* stackBase (errors.ts)
          outcome   \* how the last call of the user ended

vars == <<frames, live, kept, sp, base, outcome>>

-----------------------------------------------------------------------------
(* The steps of a script *)

Try == [do |-> "try", of |-> {}]                 \* from here on, a finally frees what is owned
Alloc(b) == [do |-> "alloc", of |-> {b}]         \* M.allocF64, owned from then on
Touch(b) == [do |-> "touch", of |-> {b}]         \* M.viewF64, used in the same expression
View(b) == [do |-> "view", of |-> {b}]           \* M.viewF64 or HEAPF64, kept
Use(b) == [do |-> "use", of |-> {b}]             \* that view is used
User == [do |-> "user", of |-> {}]               \* code of the user runs
Call(ins, out) == [do |-> "call", of |-> ins, out |-> out]   \* out: the blocks C++ returns
Grow(bs) == [do |-> "grow", of |-> bs]           \* buffers of an operator that grow on demand
First(bs) == [do |-> "first", of |-> bs]         \* buffers of a stream, made by its first event
Driver(cbs) == [do |-> "driver", of |-> cbs]     \* C++ runs, and calls these back

\* The buffers an operator or a stream keeps across calls.
Scratch == {"opIn", "opOut", "rowBuf", "priceBuf", "evIn", "evOut", "colIn", "colOut"}
\* Memory that C++ passes to a callback or keeps in the graph.
Cpp == "cpp"

-----------------------------------------------------------------------------
(* The functions *)

heapCopy(b) == <<Alloc(b), Touch(b)>>
heapBlocks == <<Alloc("outs"), Alloc("source")>>

\* "Every buffer first: an allocation may grow the heap."
mergeArrays ==
  <<User, Try, Alloc("data"), Alloc("index"), Alloc("spec"), Touch("data"), Touch("index"), Touch("spec"),
    Call({"data", "index", "spec"}, {"out"}), Touch("out")>>

combineArrays ==
  <<User, Try, Alloc("data"), Alloc("index"), Alloc("spec"), Touch("data"), Touch("index"), Touch("spec"),
    Call({"data", "index", "spec"}, {"out"}), Touch("out")>>

split ==
  <<Try, Alloc("values"), Alloc("sources"), Alloc("index"), Alloc("outV"), Alloc("outK"),
    User, Touch("values"), View("sources"), Use("sources"), View("index"), Use("index"),
    Call({"values", "sources", "index", "outV", "outK"}, {}),
    View("outV"), View("outK"), Use("outV"), Use("outK")>>

\* evalOn: HEAPF64 is read again after the call.
opEvent == <<View("opIn"), Use("opIn"), Call({"opIn", "opOut"}, {}), View("opOut"), Use("opOut")>>

\* runShaped
opBatch ==
  <<Try, Alloc("part"), Touch("part"), Alloc("spec"), Touch("spec"),
    Call({"part", "spec"}, {"out"}), Touch("spec"), Touch("out")>>

\* An event of a stream over arrays of assets: startAssets and assetEvent.
assetEvent ==
  <<User, First({"colIn", "colOut"}), View("colIn"), Use("colIn"),
    Call({"colIn", "colOut"}, {}), Touch("colOut")>>

reducerEvent ==
  <<Grow({"rowBuf"}), Touch("rowBuf"), Grow({"priceBuf"}), Touch("priceBuf"),
    Call({"rowBuf", "priceBuf", "opOut"}, {}), View("opOut"), Use("opOut")>>

reducerBatch ==
  <<Alloc("in"), Alloc("out"), Alloc("prices"), Try, Touch("in"), Touch("prices"),
    Call({"in", "prices", "out"}, {}), Touch("out")>>

rowEvent == <<Grow({"evIn", "evOut"}), View("evIn"), Use("evIn"), Call({"evIn", "evOut"}, {}), Touch("evOut")>>

\* batch and packedBatch
rowBatch == <<Alloc("in"), Alloc("out"), Try, Touch("in"), Call({"in", "out"}, {}), Touch("out")>>

\* call: the feeds and the arrays of pointers and lengths to them (heapU32).
pipelineCall ==
  <<User, Alloc("feeds"), Touch("feeds"), Alloc("pointers"), Touch("pointers"), Try,
    Call({"feeds", "pointers"}, {})>>
\* readStored: copies of the rows, which stay in the graph until clearStored.
readStored == <<Touch(Cpp), Call({}, {})>>

\* A wide event: pushWide of a live session, and an event of a lazy run.
pushWide == <<User, Alloc("buf"), Try, Touch("buf"), Call({"buf"}, {})>>

surrogates == <<Try, Alloc("x"), Alloc("out"), Touch("x"), Call({"x", "out"}, {}), Touch("out")>>

barsBlock ==
  <<Try>> \o heapCopy("prices") \o heapCopy("volume") \o heapBlocks
    \o <<Call({"prices", "volume", "outs", "source"}, {}), Touch("outs"), Touch("source")>>

returnsBlock ==
  <<Try>> \o heapCopy("x") \o heapCopy("volume") \o heapBlocks
    \o <<Call({"x", "volume", "outs", "source"}, {}), Touch("outs"), Touch("source")>>

heapSpecs == heapCopy("data") \o heapCopy("target") \o heapCopy("marks") \o heapCopy("market")

positionTest == <<Try>> \o heapSpecs \o <<Driver({"engineRun", "fetch", "engineMetric", "emit", "done"})>>

strategyTest ==
  <<Try>> \o heapCopy("blocks") \o heapCopy("spec")
    \o <<Driver({"run", "fetch", "metric", "emit", "done"})>>

walkForward ==
  <<Try>> \o heapSpecs \o heapCopy("carry") \o heapCopy("carrySpec")
    \o <<Driver({"engineRun", "fetch", "engineMetric", "done"})>>

probabilisticSharpe == heapCopy("pnl") \o <<Try, Call({"pnl"}, {})>>

deflatedSharpe ==
  <<Try>> \o heapCopy("pnl") \o heapCopy("trials")
    \o <<Alloc("out"), Call({"pnl", "trials", "out"}, {}), View("out"), Use("out")>>

timeSplits == <<User, Try>> \o heapCopy("label") \o <<Call({"label"}, {})>>

\* groupCodes reads the user's labels, after the views of the results.
backtestReport ==
  <<User, Try, Alloc("in"), Alloc("out"), Alloc("sums"), Touch("in"), Alloc("assets"),
    Call({"in", "out", "sums", "assets"}, {}), View("out"), Use("out"), Call({}, {}),
    View("sums"), Use("sums"), View("assets"), Use("assets"), User>>
    \o heapCopy("codes") \o <<Alloc("groups"), Call({"in", "codes", "groups"}, {}), View("groups"), Use("groups")>>

backtestTrades == <<User, Try, Alloc("in"), Touch("in"), Call({"in"}, {}), User>>

(* The callbacks: C++ passes the addresses of its own memory *)
run == <<View(Cpp), Use(Cpp), User, Touch(Cpp)>>            \* the strategy of strategyTest
metric == <<User, Touch(Cpp)>>
engineRun == <<Touch(Cpp), User, Touch(Cpp)>>               \* engineCallbacks
fetch == <<Touch(Cpp)>>
engineMetric == <<Touch(Cpp), User, Touch(Cpp), User, Touch(Cpp)>>   \* two strategies
emit == <<Touch(Cpp)>>                                      \* resultSink
done == <<Touch(Cpp)>>

Callback ==
  "run" :> run @@ "metric" :> metric @@ "engineRun" :> engineRun @@ "fetch" :> fetch
    @@ "engineMetric" :> engineMetric @@ "emit" :> emit @@ "done" :> done

Script ==
  Callback
    @@ "mergeArrays" :> mergeArrays @@ "combineArrays" :> combineArrays @@ "split" :> split
    @@ "opEvent" :> opEvent @@ "opBatch" :> opBatch @@ "assetEvent" :> assetEvent
    @@ "reducerEvent" :> reducerEvent @@ "reducerBatch" :> reducerBatch
    @@ "rowEvent" :> rowEvent @@ "rowBatch" :> rowBatch
    @@ "pipelineCall" :> pipelineCall \o readStored @@ "pushWide" :> pushWide
    @@ "surrogates" :> surrogates @@ "barsBlock" :> barsBlock @@ "returnsBlock" :> returnsBlock
    @@ "positionTest" :> positionTest @@ "strategyTest" :> strategyTest @@ "walkForward" :> walkForward
    @@ "probabilisticSharpe" :> probabilisticSharpe @@ "deflatedSharpe" :> deflatedSharpe
    @@ "timeSplits" :> timeSplits @@ "backtestReport" :> backtestReport @@ "backtestTrades" :> backtestTrades

-----------------------------------------------------------------------------
(* The discipline that the scripts keep. *)

\* The blocks that a step makes for its call.
Makes(step) == CASE step.do = "alloc" -> step.of [] step.do = "call" -> step.out [] OTHER -> {}

\* Before step k of script s: the blocks of the call, the buffers it brought, the
\* views made since the heap last grew, and whether its try block was entered.
Made(s, k) == UNION {Makes(s[j]) : j \in 1 .. k - 1}
Brought(s, k) == UNION {s[j].of : j \in {i \in 1 .. k - 1 : s[i].do \in {"grow", "first"}}}
Fresh(s, k) ==
  UNION {s[j].of : j \in {i \in 1 .. k - 1 :
    s[i].do = "view" /\ \A m \in i .. k - 1 : s[m].do \in {"view", "use", "touch"}}}
InTry(s, k) == \E j \in 1 .. k - 1 : s[j].do = "try"

\* Every step that may raise comes in the try block or before the first block, a
\* view is used before the heap grows, and what is used was made.
Disciplined(s) ==
  \A k \in 1 .. Len(s) :
    /\ s[k].of \subseteq STRING /\ Makes(s[k]) \subseteq STRING \ Scratch
    /\ s[k].do \in {"grow", "first"} => s[k].of \subseteq Scratch
    /\ s[k].do \in {"user", "call", "driver"} => Made(s, k) = {} \/ InTry(s, k)
    /\ s[k].do = "use" => s[k].of \subseteq Fresh(s, k)
    /\ s[k].do \in {"use", "touch", "call"} =>
         s[k].of \subseteq {Cpp, "opIn", "opOut"} \union Made(s, k) \union Brought(s, k)

\* The user calls no callback, and a callback makes no blocks.
ASSUME ScriptAssumption ==
  /\ Functions \union Nested \subseteq DOMAIN Script \ DOMAIN Callback
  /\ DOMAIN Callback \subseteq DOMAIN Script
  /\ \A fn \in DOMAIN Script : Len(Script[fn]) \in Nat /\ Disciplined(Script[fn])
  /\ \A cb \in DOMAIN Callback : Made(Script[cb], Len(Script[cb]) + 1) = {}

-----------------------------------------------------------------------------
(* Running a script *)

Init ==
  /\ frames = <<>>
  /\ kept = {"opIn", "opOut"}     \* made with the operator
  /\ live = {<<0, b>> : b \in kept}
  /\ sp = 0
  /\ base = 0
  /\ outcome = "none"

Depth == Len(frames)
Top == Head(frames)
IsCallback(f) == f.fn \in DOMAIN Callback

\* The block that a frame at depth d calls b.
Block(d, b) == <<IF b \in Scratch THEN 0 ELSE d, b>>
Blocks(d, bs) == {Block(d, b) : b \in bs \ {Cpp}}

\* The blocks that calls, operators and open streams own, and those nobody does.
OwnedBlocks ==
  (UNION {Blocks(Depth - i + 1, frames[i].own) : i \in DOMAIN frames}) \union Blocks(0, kept)
Leaked == live \ OwnedBlocks

\* A frame: its function, the step it is at, what it owns, whether it is in
\* its try block, its views, the error it ends with, the base to go back to,
\* whether C++ runs, and the first error of a callback ("failed" in wasmCallbacks).
Frame(fn, saved) ==
  [fn |-> fn, pc |-> 1, own |-> {}, try |-> FALSE, views |-> {}, error |-> "none",
   saved |-> saved, cpp |-> FALSE, failed |-> "none"]

Running == frames # <<>> /\ Top.error = "none"
Ended == frames # <<>> /\ Top.pc > Len(Script[Top.fn])
Step == Script[Top.fn][Top.pc]
At(do) == Running /\ ~Ended /\ ~Top.cpp /\ Step.do = do

\* The heap has grown: no view of any frame is good any more.
Grown(fs) == [i \in DOMAIN fs |-> [fs[i] EXCEPT !.views = {}]]
SetTop(f) == frames' = [frames EXCEPT ![1] = f]
SetTopGrown(f) == frames' = [Grown(frames) EXCEPT ![1] = [f EXCEPT !.views = {}]]
Advanced == [Top EXCEPT !.pc = @ + 1]
Raised(e) == [Top EXCEPT !.error = e]

\* normalizeError: the stack goes back to stackBase.
Unwound == base

\* A call by the user, or by user code within a call.
Begin(fn) ==
  /\ \/ frames = <<>> /\ fn \in Functions
     \/ At("user") /\ Depth < MaxFrames /\ fn \in Nested
  /\ frames' = <<Frame(fn, base)>> \o frames
  /\ UNCHANGED <<live, kept, sp, base, outcome>>

TryStep == At("try") /\ SetTop([Advanced EXCEPT !.try = TRUE]) /\ UNCHANGED <<live, kept, sp, base, outcome>>

\* allocF64: out of memory is a RangeError, after which the stack is reset.
AllocStep ==
  /\ At("alloc")
  /\ \/ /\ live' = live \union Blocks(Depth, Step.of)
        /\ SetTopGrown([Advanced EXCEPT !.own = @ \union Step.of])
        /\ UNCHANGED sp
     \/ /\ Top.fn \in MayFail /\ Cardinality(Leaked) <= MaxLost
        /\ SetTop(Raised("out of memory"))
        /\ sp' = Unwound
        /\ UNCHANGED live
  /\ UNCHANGED <<kept, base, outcome>>

\* The buffers are freed and made anew when they are too small.
GrowStep ==
  /\ At("grow")
  /\ \/ Step.of \subseteq kept /\ SetTop(Advanced) /\ UNCHANGED <<live, kept, sp>>
     \/ /\ live' = live \union Blocks(Depth, Step.of)
        /\ kept' = kept \union Step.of
        /\ SetTopGrown(Advanced)
        /\ UNCHANGED sp
     \/ /\ Top.fn \in MayFail
        /\ live' = live \ Blocks(Depth, Step.of \intersect kept)
        /\ SetTop(Raised("out of memory"))
        /\ sp' = Unwound
        /\ UNCHANGED kept
  /\ UNCHANGED <<base, outcome>>

\* Bug: both buffers are noted before they are made.
FirstStep_NotesBoth ==
  /\ At("first")
  /\ \/ Step.of \subseteq kept /\ SetTop(Advanced) /\ UNCHANGED <<live, kept, sp>>
     \/ /\ ~(Step.of \subseteq kept)
        /\ live' = live \union Blocks(Depth, Step.of)
        /\ kept' = kept \union Step.of
        /\ SetTopGrown(Advanced)
        /\ UNCHANGED sp
     \/ /\ ~(Step.of \subseteq kept) /\ Top.fn \in MayFail
        /\ \E b \in Step.of :     \* the second of them fails
             live' = live \union Blocks(Depth, {b}) /\ kept' = kept \union Step.of
        /\ SetTop(Raised("out of memory"))
        /\ sp' = Unwound
  /\ UNCHANGED <<base, outcome>>

FirstStep ==
  /\ At("first")
  /\ \/ Step.of \subseteq kept /\ SetTop(Advanced) /\ UNCHANGED <<live, kept, sp>>
     \/ /\ ~(Step.of \subseteq kept)
        /\ live' = live \union Blocks(Depth, Step.of)
        /\ kept' = kept \union Step.of
        /\ SetTopGrown(Advanced)
        /\ UNCHANGED sp
     \/ /\ ~(Step.of \subseteq kept) /\ Top.fn \in MayFail
        /\ \E b \in Step.of :     \* the second of them fails
             live' = live \union Blocks(Depth, {b}) /\ kept' = kept \union {b}
        /\ SetTop(Raised("out of memory"))
        /\ sp' = Unwound
  /\ UNCHANGED <<base, outcome>>

\* The stream is over: its handle frees the buffers.
ReleaseStream ==
  /\ frames = <<>> /\ {"colIn", "colOut"} \intersect kept # {}
  /\ live' = live \ {<<0, "colIn">>, <<0, "colOut">>}
  /\ kept' = kept \ {"colIn", "colOut"}
  /\ UNCHANGED <<frames, sp, base, outcome>>

ViewStep == At("view") /\ SetTop([Advanced EXCEPT !.views = @ \union Step.of]) /\ UNCHANGED <<live, kept, sp, base, outcome>>
UseStep == (At("use") \/ At("touch")) /\ SetTop(Advanced) /\ UNCHANGED <<live, kept, sp, base, outcome>>

\* User code is over, or throws.
UserStep ==
  /\ At("user")
  /\ SetTopGrown(Advanced) \/ SetTop(Raised("user"))
  /\ UNCHANGED <<live, kept, sp, base, outcome>>

\* wasmCall, and the try blocks that do the same.
CallStep ==
  /\ At("call")
  /\ \/ /\ live' = live \union Blocks(Depth, Step.out)
        /\ SetTopGrown([Advanced EXCEPT !.own = @ \union Step.out])
        /\ UNCHANGED sp
     \/ /\ SetTop(Raised("C++"))
        /\ sp' = Unwound
        /\ UNCHANGED live
  /\ UNCHANGED <<kept, base, outcome>>

(* Callbacks *)

\* C++ starts; its frames are on the stack.
DriverStep ==
  /\ At("driver")
  /\ SetTopGrown([Top EXCEPT !.cpp = TRUE])
  /\ sp' = sp + 1
  /\ UNCHANGED <<live, kept, base, outcome>>

InDriver == Running /\ Top.cpp

\* Bug: the base stays where it was when the module loaded.
ScopeBase_Loaded == 0

\* callbackScope: the base for the duration of a callback.
ScopeBase == sp

Enter(cb) ==
  /\ InDriver /\ Top.failed = "none" /\ cb \in Step.of /\ Depth < MaxFrames
  /\ frames' = <<Frame(cb, base)>> \o frames
  /\ base' = ScopeBase
  /\ UNCHANGED <<live, kept, sp, outcome>>

\* The driver returns.
DriverEnds ==
  /\ InDriver /\ Top.failed = "none"
  /\ SetTopGrown([Advanced EXCEPT !.cpp = FALSE])
  /\ sp' = sp - 1
  /\ UNCHANGED <<live, kept, base, outcome>>

\* What call rethrows: the first error of a callback, else the normalized one.
ErrorOf(f) == IF f.failed # "none" THEN f.failed ELSE "C++"

\* C++ throws: an error of its own, or CallbackFailed after a callback's 1.
DriverThrows ==
  /\ InDriver
  /\ SetTop([Top EXCEPT !.error = ErrorOf(Top), !.cpp = FALSE])
  /\ sp' = Unwound
  /\ UNCHANGED <<live, kept, base, outcome>>

(* The end of a call *)

\* Bug: a call that fails does not free its blocks.
Freed_NotOnError(f) == IF f.error = "none" THEN Blocks(Depth, f.own) ELSE {}

\* The finally block: an error before the try block skips it.
Freed(f) == IF f.try \/ f.error = "none" THEN Blocks(Depth, f.own) ELSE {}

\* The frame below gets the error, or does not: user code may catch it.
Leave ==
  /\ Ended \/ (frames # <<>> /\ Top.error # "none")
  /\ ~IsCallback(Top)
  /\ live' = live \ Freed(Top)
  /\ \/ frames' = Tail(frames) /\ outcome' = Top.error
     \/ /\ Depth > 1 /\ Top.error # "none"
        /\ frames' = [Tail(frames) EXCEPT ![1].error = Top.error]
        /\ UNCHANGED outcome
  /\ UNCHANGED <<kept, sp, base>>

\* A callback is over: callbackScope puts the base back, and after an error
\* the stack to its entry; the callback returns 0, or 1 and its error is kept.
LeaveCallback ==
  /\ Ended \/ (frames # <<>> /\ Top.error # "none")
  /\ IsCallback(Top)
  /\ frames' = [Tail(frames) EXCEPT ![1].failed = Top.error]
  /\ sp' = IF Top.error = "none" THEN sp ELSE base
  /\ base' = Top.saved
  /\ UNCHANGED <<live, kept, outcome>>

Next ==
  \/ \E fn \in Functions \union Nested : Begin(fn)
  \/ TryStep \/ AllocStep \/ GrowStep \/ FirstStep \/ ReleaseStream \/ ViewStep \/ UseStep \/ UserStep \/ CallStep
  \/ DriverStep \/ (\E cb \in DOMAIN Callback : Enter(cb)) \/ DriverEnds \/ DriverThrows
  \/ Leave \/ LeaveCallback

Spec == Init /\ [][Next]_vars

-----------------------------------------------------------------------------
(* Properties *)

\* "Never through a stale heap view": a view that is used was made after the
\* heap last grew, and the blocks that are read, written or given to C++ are
\* allocated.
UsesFresh ==
  Running /\ ~Ended /\ ~Top.cpp =>
    /\ Step.do = "use" => Step.of \subseteq Top.views
    /\ Step.do \in {"use", "touch", "call"} => Blocks(Depth, Step.of) \subseteq live

\* What calls, operators and streams point to is allocated: none of it is
\* used or freed after it was freed.
OwnedLive == OwnedBlocks \subseteq live

\* What the current call leaves: it ends because an allocation failed before its
\* try block, so no finally frees the blocks it has made till then.
LeftByAllocation ==
  IF frames # <<>> /\ Top.error = "out of memory" /\ ~Top.try THEN Blocks(Depth, Top.own) ELSE {}

\* A call leaves nothing behind on the heap, however it ends, with one exception:
\* when an allocation fails outside a try block, those made before it are lost
\* (reducerBatch, rowBatch and pipelineCall).
NothingLeaks == [][Leaked' \subseteq Leaked \union LeftByAllocation]_vars

\* The WASM stack holds the frames of the C++ code that runs and no others: a
\* caught error drops those it unwound and none of those below a callback.
Drivers == Cardinality({i \in DOMAIN frames : frames[i].cpp})
StackKept ==
  /\ sp = Drivers
  /\ base = Drivers - (IF frames # <<>> /\ Top.cpp THEN 1 ELSE 0)

=============================================================================
