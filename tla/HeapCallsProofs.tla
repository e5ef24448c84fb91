-------------------------- MODULE HeapCallsProofs --------------------------
(***************************************************************************)
(* Proofs about HeapCalls, for any number of nested calls: whatever the    *)
(* calls, the callbacks and their errors, the WASM stack holds the frames  *)
(* of the C++ code that runs and no others; a call leaves no block behind, *)
(* except those it made before an allocation that failed outside its try   *)
(* block; and none uses a stale view or a freed block, if the buffers of   *)
(* operators can be made anew (GrowsSafely).                               *)
(***************************************************************************)
EXTENDS HeapCalls, FiniteSetTheorems, SequenceTheorems, TLAPS

-----------------------------------------------------------------------------
(* The frames.                                                             *)

Errors == {"none", "out of memory", "user", "C++"}

FrameSet ==
  [fn : DOMAIN Script, pc : Nat, own : SUBSET STRING, try : BOOLEAN, views : SUBSET STRING,
   error : Errors, saved : Nat, cpp : BOOLEAN, failed : Errors]

\* The frames of C++ below frame k.
CppBelow(fs, k) == {i \in DOMAIN fs : i > k /\ fs[i].cpp}
Below(fs, k) == Cardinality(CppBelow(fs, k))

\* Two frames that differ at most in their views.
SameFrame(f, g) ==
  /\ f.fn = g.fn /\ f.pc = g.pc /\ f.own = g.own /\ f.try = g.try
  /\ f.error = g.error /\ f.saved = g.saved /\ f.cpp = g.cpp /\ f.failed = g.failed

\* Frame i of fs, a call in progress: it waits for the user or C++ code it called.
Framed(fs, i) ==
  /\ fs[i].pc \in 1 .. Len(Script[fs[i].fn]) + 1
  /\ IsCallback(fs[i]) <=> i < Len(fs) /\ fs[i + 1].cpp
  /\ i > 1 => fs[i].cpp \/ (fs[i].error = "none" /\ fs[i].pc <= Len(Script[fs[i].fn])
                            /\ Script[fs[i].fn][fs[i].pc].do = "user")
  /\ fs[i].cpp => /\ fs[i].error = "none" /\ fs[i].pc <= Len(Script[fs[i].fn])
                  /\ Script[fs[i].fn][fs[i].pc].do = "driver"
  /\ IsCallback(fs[i]) => fs[i].saved = Below(fs, i + 1)

\* base is the stack without the frames of C++ that the current call runs.
StackInv ==
  /\ frames \in Seq(FrameSet) /\ sp \in Nat /\ base \in Nat
  /\ \A i \in 1 .. Len(frames) : Framed(frames, i)
  /\ sp = Below(frames, 0) /\ base = Below(frames, 1)

-----------------------------------------------------------------------------
(* Counting the frames of C++.                                             *)

LEMMA BelowType ==
  ASSUME NEW fs \in Seq(FrameSet), NEW k \in Nat
  PROVE  IsFiniteSet(CppBelow(fs, k)) /\ Below(fs, k) \in Nat
<1>1. IsFiniteSet(1 .. Len(fs))
  BY FS_Interval
<1>2. CppBelow(fs, k) \subseteq 1 .. Len(fs)
  BY DEF CppBelow
<1>3. IsFiniteSet(CppBelow(fs, k))
  BY <1>1, <1>2, FS_Subset
<1> QED BY <1>3, FS_CardinalityType DEF Below

LEMMA BelowStep ==
  ASSUME NEW fs \in Seq(FrameSet), NEW k \in Nat, k + 1 <= Len(fs)
  PROVE  Below(fs, k) = Below(fs, k + 1) + (IF fs[k + 1].cpp THEN 1 ELSE 0)
<1>1. IsFiniteSet(CppBelow(fs, k + 1)) /\ Below(fs, k + 1) \in Nat
  BY BelowType
<1>2. k + 1 \in DOMAIN fs /\ k + 1 \notin CppBelow(fs, k + 1)
  BY DEF CppBelow
<1>3. CASE fs[k + 1].cpp
  <2>1. CppBelow(fs, k) = CppBelow(fs, k + 1) \cup {k + 1}
    BY <1>2, <1>3 DEF CppBelow
  <2>2. Cardinality(CppBelow(fs, k)) = Cardinality(CppBelow(fs, k + 1)) + 1
    BY <1>1, <1>2, <2>1, FS_AddElement
  <2> QED BY <1>3, <2>2 DEF Below
<1>4. CASE ~fs[k + 1].cpp
  <2>1. CppBelow(fs, k) = CppBelow(fs, k + 1)
    BY <1>4 DEF CppBelow
  <2> QED BY <1>1, <1>4, <2>1 DEF Below
<1> QED BY <1>3, <1>4

\* A frame more at the top moves the others one down.
LEMMA BelowShift ==
  ASSUME NEW s \in Seq(FrameSet), NEW t \in Seq(FrameSet), Len(t) = Len(s) + 1,
         \A i \in 1 .. Len(s) : t[i + 1].cpp = s[i].cpp, NEW k \in Nat
  PROVE  Below(t, k + 1) = Below(s, k)
<1> DEFINE A == CppBelow(s, k)
           B == CppBelow(t, k + 1)
           up == [i \in A |-> i + 1]
<1>1. \A i \in A : i \in Nat /\ i + 1 \in B
  BY DEF CppBelow
<1>2. ASSUME NEW j \in B PROVE j - 1 \in A /\ up[j - 1] = j
  <2>1. j \in 1 .. Len(t) /\ j > k + 1 /\ t[j].cpp
    BY DEF CppBelow
  <2>2. j - 1 \in 1 .. Len(s) /\ j - 1 > k /\ (j - 1) + 1 = j
    BY <2>1
  <2>3. PICK i : i = j - 1
    OBVIOUS
  <2>4. t[i + 1].cpp = s[i].cpp /\ i + 1 = j
    BY <2>2, <2>3
  <2>5. i \in A
    BY <2>1, <2>2, <2>3, <2>4 DEF CppBelow
  <2> QED BY <2>2, <2>3, <2>5
<1>3. up \in Bijection(A, B)
  <2> HIDE DEF A, B
  <2>1. up \in [A -> B]
    BY <1>1
  <2>2. \A x, y \in A : up[x] = up[y] => x = y
    BY <1>1
  <2> QED BY <1>2, <2>1, <2>2 DEF Bijection, Injection, Surjection, IsInjective
<1>4. IsFiniteSet(A)
  BY BelowType
<1>5. Cardinality(A) = Cardinality(B)
  <2> HIDE DEF A, B, up
  <2>1. ExistsBijection(A, B)
    BY <1>3 DEF ExistsBijection
  <2> QED BY <1>4, <2>1, FS_Bijection
<1> QED BY <1>5 DEF Below

LEMMA BelowSame ==
  ASSUME NEW s \in Seq(FrameSet), NEW t \in Seq(FrameSet), Len(t) = Len(s), NEW k \in Nat,
         \A i \in 1 .. Len(s) : i > k => t[i].cpp = s[i].cpp
  PROVE  Below(t, k) = Below(s, k)
<1>1. CppBelow(t, k) = CppBelow(s, k)
  BY DEF CppBelow
<1> QED BY <1>1 DEF Below

-----------------------------------------------------------------------------
(* The steps of the current call.                                          *)

LEMMA TopChange ==
  ASSUME frames \in Seq(FrameSet), frames # <<>>, NEW f \in FrameSet, SetTop(f) \/ SetTopGrown(f)
  PROVE  /\ frames' \in Seq(FrameSet) /\ Len(frames') = Len(frames) /\ Len(frames) \in Nat \ {0}
         /\ SameFrame(frames'[1], f)
         /\ \A i \in 1 .. Len(frames) : i > 1 => SameFrame(frames'[i], frames[i])
<1>1. Len(frames) \in Nat \ {0} /\ 1 \in 1 .. Len(frames) /\ DOMAIN frames = 1 .. Len(frames)
  BY EmptySeq
<1>2. CASE SetTop(f)
  <2>1. frames' = [frames EXCEPT ![1] = f]
    BY <1>2 DEF SetTop
  <2> QED BY <1>1, <2>1 DEF SameFrame
<1>3. CASE SetTopGrown(f)
  <2> DEFINE g == [f EXCEPT !.views = {}]
  <2>1. frames' = [Grown(frames) EXCEPT ![1] = g]
    BY <1>3 DEF SetTopGrown
  <2>2. g \in FrameSet /\ SameFrame(g, f)
    BY DEF FrameSet, SameFrame
  <2>3. Grown(frames) = [i \in 1 .. Len(frames) |-> [frames[i] EXCEPT !.views = {}]]
    BY <1>1 DEF Grown
  <2>4. ASSUME NEW i \in 1 .. Len(frames)
        PROVE  /\ [frames[i] EXCEPT !.views = {}] \in FrameSet
               /\ SameFrame([frames[i] EXCEPT !.views = {}], frames[i])
    <3>1. frames[i] \in FrameSet
      OBVIOUS
    <3> QED BY <3>1 DEF FrameSet, SameFrame
  <2> HIDE DEF g
  <2> DEFINE h == [i \in 1 .. Len(frames) |-> IF i = 1 THEN g ELSE [frames[i] EXCEPT !.views = {}]]
  <2>5. frames' = h
    BY <1>1, <2>1, <2>3
  <2>6. frames' \in Seq(FrameSet) /\ Len(frames') = Len(frames)
    <3>1. \A i \in 1 .. Len(frames) : h[i] \in FrameSet
      BY <2>2, <2>4
    <3>2. h \in Seq(FrameSet) /\ Len(h) = Len(frames)
      <4> HIDE DEF FrameSet
      <4> QED BY <1>1, <3>1
    <3> QED BY <2>5, <3>2
  <2> QED BY <1>1, <2>2, <2>4, <2>5, <2>6
<1> QED BY <1>2, <1>3

\* The frames at the end have no frames below.
LEMMA BelowEnd ==
  ASSUME NEW fs \in Seq(FrameSet), NEW k \in Nat, Len(fs) <= k
  PROVE  Below(fs, k) = 0
<1>1. CppBelow(fs, k) = {}
  BY DEF CppBelow
<1> QED BY <1>1, FS_EmptySet DEF Below

\* The current frame has the fields of a frame, and only C++ that it runs lies
\* above the base.
LEMMA TopType ==
  ASSUME StackInv, frames # <<>>
  PROVE  /\ Len(frames) \in Nat \ {0} /\ Top = frames[1] /\ Top \in FrameSet /\ Framed(frames, 1)
         /\ sp = base + (IF Top.cpp THEN 1 ELSE 0)
<1>1. Len(frames) \in Nat \ {0} /\ 1 \in 1 .. Len(frames)
  BY EmptySeq DEF StackInv
<1>2. Top = frames[1] /\ Top \in FrameSet /\ Framed(frames, 1)
  BY <1>1 DEF StackInv, Top
<1>3. Below(frames, 0) = Below(frames, 0 + 1) + (IF frames[0 + 1].cpp THEN 1 ELSE 0)
  BY <1>1, BelowStep DEF StackInv
<1> QED BY <1>1, <1>2, <1>3 DEF StackInv

\* The current step uses names.
LEMMA StepType ==
  ASSUME StackInv, frames # <<>>, ~Ended
  PROVE  /\ Top.pc \in 1 .. Len(Script[Top.fn]) /\ Len(Script[Top.fn]) \in Nat
         /\ Step.of \subseteq STRING /\ (Step.do = "call" => Step.out \subseteq STRING)
<1>1. Top \in FrameSet /\ Framed(frames, 1) /\ Top = frames[1]
  BY TopType
<1>2. Top.fn \in DOMAIN Script /\ Top.pc \in Nat
  BY <1>1 DEF FrameSet
<1>3. Len(Script[Top.fn]) \in Nat /\ Disciplined(Script[Top.fn])
  BY <1>2, ScriptAssumption
<1>4. Top.pc \in 1 .. Len(Script[Top.fn])
  BY <1>1, <1>2, <1>3 DEF Framed, Ended
<1>5. Step.of \subseteq STRING /\ Makes(Step) \subseteq STRING
  BY <1>3, <1>4 DEF Disciplined, Step
<1>6. Step.do = "call" => Step.out \subseteq STRING
  BY <1>5 DEF Makes
<1> QED BY <1>3, <1>4, <1>5, <1>6

\* A step of the current call.
LEMMA TopStep ==
  ASSUME StackInv, frames # <<>>, NEW f \in FrameSet, SetTop(f) \/ SetTopGrown(f),
         f.fn = Top.fn, f.saved = Top.saved, f.pc \in 1 .. Len(Script[f.fn]) + 1,
         f.cpp => f.error = "none" /\ f.pc <= Len(Script[f.fn]) /\ Script[f.fn][f.pc].do = "driver",
         base' = base, sp' = base + (IF f.cpp THEN 1 ELSE 0)
  PROVE  StackInv'
<1>1. /\ frames' \in Seq(FrameSet) /\ Len(frames') = Len(frames) /\ Len(frames) \in Nat \ {0}
      /\ SameFrame(frames'[1], f)
      /\ \A i \in 1 .. Len(frames) : i > 1 => SameFrame(frames'[i], frames[i])
  BY TopChange DEF StackInv
<1>2. frames \in Seq(FrameSet) /\ Top = frames[1] /\ base \in Nat /\ base = Below(frames, 1)
  BY TopType DEF StackInv
<1>3. \A i \in 1 .. Len(frames) : i > 1 => frames'[i].cpp = frames[i].cpp
  BY <1>1 DEF SameFrame
<1>4. ASSUME NEW k \in Nat, k >= 1 PROVE Below(frames', k) = Below(frames, k)
  BY <1>1, <1>2, <1>3, <1>4, BelowSame
<1>5. base' = Below(frames', 1)
  BY <1>2, <1>4
<1>6. sp' = Below(frames', 0)
  <2>1. Below(frames', 0) = Below(frames', 0 + 1) + (IF frames'[0 + 1].cpp THEN 1 ELSE 0)
    BY <1>1, BelowStep
  <2> QED BY <1>1, <1>2, <1>5, <2>1 DEF SameFrame
<1>7. ASSUME NEW i \in 1 .. Len(frames') PROVE Framed(frames', i)
  <2>1. Framed(frames, i) /\ i \in 1 .. Len(frames) /\ i \in Nat /\ i >= 1
    BY <1>1 DEF StackInv
  <2>2. i < Len(frames') => frames'[i + 1].cpp = frames[i + 1].cpp
    <3> SUFFICES ASSUME i < Len(frames') PROVE frames'[i + 1].cpp = frames[i + 1].cpp
      OBVIOUS
    <3>1. PICK j : j = i + 1
      OBVIOUS
    <3> QED BY <1>1, <1>3, <2>1, <3>1
  <2>3. Below(frames', i + 1) = Below(frames, i + 1)
    <3>1. i + 1 \in Nat /\ i + 1 >= 1
      BY <2>1
    <3> QED BY <1>4, <3>1
  <2>4. CASE i = 1
    BY <1>1, <1>2, <2>1, <2>2, <2>3, <2>4 DEF Framed, SameFrame, IsCallback
  <2>5. CASE i > 1
    BY <1>1, <2>1, <2>2, <2>3, <2>5 DEF Framed, SameFrame, IsCallback
  <2> QED BY <2>1, <2>4, <2>5
<1>8. sp' \in Nat /\ base' \in Nat
  BY <1>2
<1> QED BY <1>1, <1>5, <1>6, <1>7, <1>8 DEF StackInv

LEMMA FrameType ==
  ASSUME NEW fn \in DOMAIN Script, NEW k \in Nat
  PROVE  /\ Frame(fn, k) \in FrameSet /\ Frame(fn, k).fn = fn /\ Frame(fn, k).pc = 1
         /\ Frame(fn, k).saved = k /\ Frame(fn, k).cpp = FALSE
BY DEF Frame, FrameSet, Errors

\* A call begins: of the user, of user code within a call, or back from C++.
LEMMA CallBegins ==
  ASSUME StackInv, NEW fn \in DOMAIN Script, frames' = <<Frame(fn, base)>> \o frames,
         sp' = sp, base' = sp,
         fn \in DOMAIN Callback <=> frames # <<>> /\ Top.cpp,
         frames # <<>> => Running /\ ~Ended /\ (Top.cpp \/ Step.do = "user")
  PROVE  StackInv'
<1> DEFINE f == Frame(fn, base)
<1>1. /\ f \in FrameSet /\ f.fn = fn /\ f.pc = 1 /\ f.saved = base /\ f.cpp = FALSE
  <2>1. base \in Nat
    BY DEF StackInv
  <2> QED BY <2>1, FrameType
<1> HIDE DEF f
<1>2. frames \in Seq(FrameSet) /\ Len(frames) \in Nat
  BY DEF StackInv
<1>3. /\ frames' \in Seq(FrameSet) /\ Len(frames') = Len(frames) + 1 /\ frames'[1] = f
      /\ \A i \in 1 .. Len(frames) : frames'[i + 1] = frames[i]
  <2>1. frames' = <<f>> \o frames
    BY DEF f
  <2>2. <<f>> \in Seq(FrameSet) /\ Len(<<f>>) = 1
    BY <1>1
  <2> HIDE DEF FrameSet
  <2>3. frames' \in Seq(FrameSet) /\ Len(frames') = 1 + Len(frames)
    BY <1>2, <2>1, <2>2, ConcatProperties
  <2> QED BY <1>2, <2>1, <2>2, <2>3, ConcatProperties
<1>4. \A k \in Nat : Below(frames', k + 1) = Below(frames, k)
  BY <1>2, <1>3, BelowShift
<1>5. base' = Below(frames', 1) /\ base = Below(frames', 2)
  <2>1. Below(frames', 0 + 1) = Below(frames, 0) /\ Below(frames', 1 + 1) = Below(frames, 1)
    BY <1>4
  <2> QED BY <2>1 DEF StackInv
<1>6. sp' = Below(frames', 0)
  <2>1. Below(frames', 0) = Below(frames', 0 + 1) + (IF frames'[0 + 1].cpp THEN 1 ELSE 0)
    <3>1. frames' \in Seq(FrameSet) /\ 0 + 1 <= Len(frames')
      BY <1>2, <1>3
    <3> QED BY <3>1, BelowStep
  <2>2. Below(frames', 1) \in Nat
    BY <1>3, BelowType
  <2> QED BY <1>1, <1>3, <1>5, <2>1, <2>2
<1>7. ASSUME NEW i \in 1 .. Len(frames') PROVE Framed(frames', i)
  <2>1. CASE i = 1
    <3>1. frames # <<>> <=> 1 <= Len(frames)
      BY <1>2, EmptySeq
    <3>2. frames # <<>> => frames'[2] = frames[1] /\ Top = frames[1]
      <4>1. PICK j : j = 1
        OBVIOUS
      <4>2. 1 <= Len(frames) => frames'[j + 1] = frames[j]
        BY <1>2, <1>3, <4>1
      <4> QED BY <1>2, <3>1, <4>1, <4>2 DEF Top
    <3>3. Len(Script[fn]) \in Nat
      BY ScriptAssumption
    <3> QED BY <1>1, <1>2, <1>3, <1>5, <2>1, <3>1, <3>2, <3>3 DEF Framed, IsCallback
  <2>2. CASE i > 1
    <3>1. PICK j : j = i - 1
      OBVIOUS
    <3>2. j \in 1 .. Len(frames) /\ j \in Nat /\ i = j + 1
      BY <1>2, <1>3, <2>2, <3>1
    <3>3. frames'[i] = frames[j] /\ Framed(frames, j)
      BY <1>3, <3>2 DEF StackInv
    <3>4. i < Len(frames') <=> j < Len(frames)
      BY <1>2, <1>3, <3>2
    <3>5. j < Len(frames) => frames'[i + 1] = frames[j + 1]
      <4>1. PICK m : m = j + 1
        OBVIOUS
      <4> QED BY <1>2, <1>3, <3>2, <4>1
    <3>6. Below(frames', i + 1) = Below(frames, j + 1)
      <4>1. PICK m : m = j + 1
        OBVIOUS
      <4>2. m \in Nat /\ i = m
        BY <3>2, <4>1
      <4>3. Below(frames', m + 1) = Below(frames, m)
        BY <1>4, <4>2
      <4> QED BY <4>1, <4>2, <4>3
    <3>7. \/ frames[j].cpp
          \/ /\ frames[j].error = "none" /\ frames[j].pc <= Len(Script[frames[j].fn])
             /\ Script[frames[j].fn][frames[j].pc].do = "user"
      <4>1. CASE j = 1
        <5>1. frames # <<>>
          BY <3>2, EmptySeq
        <5>2. Top = frames[1] /\ Top.pc \in 1 .. Len(Script[Top.fn])
          BY <5>1, TopType, StepType
        <5>3. Len(Script[Top.fn]) \in Nat
          BY <5>1, StepType
        <5> QED BY <4>1, <5>1, <5>2, <5>3 DEF Running, Step
      <4>2. CASE j > 1
        BY <3>2, <3>3, <4>2 DEF Framed
      <4> QED BY <3>2, <4>1, <4>2
    <3> QED BY <3>2, <3>3, <3>4, <3>5, <3>6, <3>7 DEF Framed, IsCallback
  <2> QED BY <1>3, <2>1, <2>2
<1>8. sp' \in Nat /\ base' \in Nat
  BY DEF StackInv
<1> QED BY <1>3, <1>5, <1>6, <1>7, <1>8 DEF StackInv

\* A call is over: the one below may take its error, but not C++.
LEMMA CallEnds ==
  ASSUME StackInv, frames # <<>>, Ended \/ Top.error # "none",
         frames' \in Seq(FrameSet), Len(frames') = Len(frames) - 1,
         \A i \in 1 .. Len(frames') :
           /\ frames'[i].fn = frames[i + 1].fn /\ frames'[i].pc = frames[i + 1].pc
           /\ frames'[i].saved = frames[i + 1].saved /\ frames'[i].cpp = frames[i + 1].cpp
           /\ i > 1 \/ frames[i + 1].cpp => frames'[i].error = frames[i + 1].error,
         sp' = base, base' = IF IsCallback(Top) THEN Top.saved ELSE base
  PROVE  StackInv'
<1>1. /\ Len(frames) \in Nat \ {0} /\ Top = frames[1] /\ Top \in FrameSet /\ Framed(frames, 1)
      /\ sp = base + (IF Top.cpp THEN 1 ELSE 0)
  BY TopType
<1>2. ~Top.cpp
  <2>1. Top.fn \in DOMAIN Script /\ Len(Script[Top.fn]) \in Nat /\ Top.pc \in Nat
    BY <1>1, ScriptAssumption DEF FrameSet
  <2> QED BY <1>1, <2>1 DEF Framed, Ended
<1>3. \A k \in Nat : Below(frames', k) = Below(frames, k + 1)
  <2>1. frames \in Seq(FrameSet) /\ Len(frames) = Len(frames') + 1
    BY <1>1 DEF StackInv
  <2> QED BY <2>1, BelowShift
<1>4. sp' = Below(frames', 0)
  <2>1. Below(frames', 0) = Below(frames, 0 + 1)
    BY <1>3
  <2> QED BY <2>1 DEF StackInv
<1>5. base' = Below(frames', 1) /\ base' \in Nat
  <2>1. Below(frames', 1) = Below(frames, 2)
    <3>1. Below(frames', 1) = Below(frames, 1 + 1)
      BY <1>3
    <3> QED BY <3>1
  <2>2. Below(frames, 2) \in Nat
    BY BelowType DEF StackInv
  <2>3. CASE IsCallback(Top)
    BY <1>1, <2>1, <2>2, <2>3 DEF Framed
  <2>4. CASE ~IsCallback(Top)
    <3>1. CASE Len(frames) = 1
      <4>1. frames \in Seq(FrameSet) /\ Len(frames) <= 1 /\ Len(frames) <= 2
        BY <3>1 DEF StackInv
      <4>2. Below(frames, 1) = 0
        BY <4>1, BelowEnd
      <4>3. Below(frames, 2) = 0
        BY <4>1, BelowEnd
      <4> QED BY <2>1, <2>4, <4>2, <4>3 DEF StackInv
    <3>2. CASE Len(frames) > 1
      <4>1. Below(frames, 1) = Below(frames, 1 + 1) + (IF frames[1 + 1].cpp THEN 1 ELSE 0)
        BY <1>1, <3>2, BelowStep DEF StackInv
      <4>2. ~frames[1 + 1].cpp
        BY <1>1, <2>4, <3>2 DEF Framed
      <4> QED BY <2>1, <2>2, <2>4, <4>1, <4>2 DEF StackInv
    <3> QED BY <1>1, <3>1, <3>2
  <2> QED BY <2>3, <2>4
<1>6. ASSUME NEW i \in 1 .. Len(frames') PROVE Framed(frames', i)
  <2>1. PICK j : j = i + 1
    OBVIOUS
  <2>2. i \in Nat /\ i >= 1 /\ j \in 1 .. Len(frames) /\ j > 1 /\ j \in Nat /\ Len(frames') = Len(frames) - 1
    BY <1>1, <2>1
  <2>3. /\ frames'[i].fn = frames[j].fn /\ frames'[i].pc = frames[j].pc
        /\ frames'[i].saved = frames[j].saved /\ frames'[i].cpp = frames[j].cpp
        /\ i > 1 \/ frames[j].cpp => frames'[i].error = frames[j].error
    BY <2>1
  <2>4. Framed(frames, j)
    BY <2>2 DEF StackInv
  <2>5. i < Len(frames') <=> j < Len(frames)
    BY <1>1, <2>1, <2>2
  <2>6. i < Len(frames') => frames'[i + 1].cpp = frames[j + 1].cpp
    <3>1. PICK m : m = i + 1
      OBVIOUS
    <3>2. m \in 1 .. Len(frames') => frames'[m].cpp = frames[m + 1].cpp
      OBVIOUS
    <3> QED BY <1>1, <2>1, <2>2, <3>1, <3>2
  <2>7. Below(frames', i + 1) = Below(frames, j + 1)
    <3>1. PICK m : m = i + 1
      OBVIOUS
    <3> QED BY <1>3, <2>1, <2>2, <3>1
  <2> QED BY <1>1, <2>1, <2>2, <2>3, <2>4, <2>5, <2>6, <2>7 DEF Framed, IsCallback
<1>7. sp' \in Nat
  BY DEF StackInv
<1> QED BY <1>4, <1>5, <1>6, <1>7 DEF StackInv

-----------------------------------------------------------------------------
(* The stack. *)

\* What the steps of the current call set its frame to.
LEMMA NewFrames ==
  ASSUME StackInv, Running, ~Ended
  PROVE  /\ frames # <<>> /\ Top \in FrameSet /\ Top.pc \in 1 .. Len(Script[Top.fn]) + 1
         /\ Advanced \in FrameSet /\ Advanced.fn = Top.fn /\ Advanced.saved = Top.saved
         /\ Advanced.cpp = Top.cpp /\ Advanced.pc \in 1 .. Len(Script[Advanced.fn]) + 1
         /\ \A e \in Errors : /\ Raised(e) \in FrameSet /\ Raised(e).fn = Top.fn /\ Raised(e).saved = Top.saved
                              /\ Raised(e).cpp = Top.cpp /\ Raised(e).pc = Top.pc
<1>1. frames # <<>>
  BY DEF Running
<1>2. Top \in FrameSet /\ Top.pc \in 1 .. Len(Script[Top.fn]) /\ Len(Script[Top.fn]) \in Nat
  BY <1>1, TopType, StepType
<1> QED BY <1>1, <1>2 DEF Advanced, Raised, FrameSet

LEMMA StackStep ==
  ASSUME StackInv, Next
  PROVE  StackInv'
<1>1. ASSUME Running, ~Ended, ~Top.cpp, NEW f \in FrameSet, SetTop(f) \/ SetTopGrown(f),
             f.fn = Top.fn, f.saved = Top.saved, f.cpp = FALSE, f.pc \in 1 .. Len(Script[f.fn]) + 1,
             base' = base, sp' = sp \/ sp' = Unwound
      PROVE  StackInv'
  <2>1. frames # <<>> /\ sp = base + (IF Top.cpp THEN 1 ELSE 0) /\ base \in Nat
    BY <1>1, TopType DEF Running, StackInv
  <2>2. sp' = base + (IF f.cpp THEN 1 ELSE 0)
    BY <1>1, <2>1 DEF Unwound
  <2> QED BY <1>1, <2>1, <2>2, TopStep
<1>2. ASSUME NEW fn \in Functions \union Nested, Begin(fn) PROVE StackInv'
  <2>1. fn \in DOMAIN Script /\ fn \notin DOMAIN Callback
    BY ScriptAssumption
  <2>2. frames # <<>> => Running /\ ~Ended /\ ~Top.cpp /\ Step.do = "user"
    BY <1>2 DEF Begin, At
  <2>3. ASSUME frames = <<>> PROVE sp = base
    <3>1. frames \in Seq(FrameSet) /\ Len(frames) <= 0 /\ Len(frames) <= 1
      BY <2>3 DEF StackInv
    <3>2. Below(frames, 0) = 0
      BY <3>1, BelowEnd
    <3>3. Below(frames, 1) = 0
      BY <3>1, BelowEnd
    <3> QED BY <3>2, <3>3 DEF StackInv
  <2>4. sp = base
    <3>1. frames # <<>> => sp = base + (IF Top.cpp THEN 1 ELSE 0) /\ base \in Nat
      BY TopType DEF StackInv
    <3> QED BY <2>2, <2>3, <3>1
  <2>5. frames' = <<Frame(fn, base)>> \o frames /\ sp' = sp /\ base' = sp
    BY <1>2, <2>4 DEF Begin
  <2> QED BY <2>1, <2>2, <2>5, CallBegins
<1>3. CASE TryStep
  <2> DEFINE f == [Advanced EXCEPT !.try = TRUE]
  <2>1. Running /\ ~Ended /\ ~Top.cpp /\ SetTop(f) /\ base' = base /\ sp' = sp
    BY <1>3 DEF TryStep, At
  <2>2. f \in FrameSet /\ f.fn = Top.fn /\ f.saved = Top.saved /\ f.cpp = FALSE
        /\ f.pc \in 1 .. Len(Script[f.fn]) + 1
    BY <2>1, NewFrames DEF FrameSet
  <2> HIDE DEF f
  <2> QED BY <1>1, <2>1, <2>2
<1>4. CASE AllocStep
  <2> DEFINE f == [Advanced EXCEPT !.own = @ \union Step.of]
             g == Raised("out of memory")
  <2>1. Running /\ ~Ended /\ ~Top.cpp /\ base' = base
        /\ ((SetTopGrown(f) /\ sp' = sp) \/ (SetTop(g) /\ sp' = Unwound))
    BY <1>4 DEF AllocStep, At
  <2>2. Step.of \subseteq STRING
    BY <2>1, StepType DEF Running
  <2>3. f \in FrameSet /\ f.fn = Top.fn /\ f.saved = Top.saved /\ f.cpp = FALSE
        /\ f.pc \in 1 .. Len(Script[f.fn]) + 1
    BY <2>1, <2>2, NewFrames DEF FrameSet
  <2>4. g \in FrameSet /\ g.fn = Top.fn /\ g.saved = Top.saved /\ g.cpp = FALSE
        /\ g.pc \in 1 .. Len(Script[g.fn]) + 1
    BY <2>1, NewFrames DEF Errors, FrameSet
  <2> HIDE DEF f, g
  <2> QED BY <1>1, <2>1, <2>3, <2>4
<1>5. CASE GrowStep
  <2> DEFINE g == Raised("out of memory")
  <2>1. Running /\ ~Ended /\ ~Top.cpp /\ base' = base
        /\ ((SetTop(Advanced) /\ sp' = sp) \/ (SetTopGrown(Advanced) /\ sp' = sp) \/ (SetTop(g) /\ sp' = Unwound))
    BY <1>5 DEF GrowStep, At
  <2>2. Advanced \in FrameSet /\ Advanced.fn = Top.fn /\ Advanced.saved = Top.saved /\ Advanced.cpp = FALSE
        /\ Advanced.pc \in 1 .. Len(Script[Advanced.fn]) + 1
    BY <2>1, NewFrames DEF FrameSet
  <2>3. g \in FrameSet /\ g.fn = Top.fn /\ g.saved = Top.saved /\ g.cpp = FALSE
        /\ g.pc \in 1 .. Len(Script[g.fn]) + 1
    BY <2>1, NewFrames DEF Errors, FrameSet
  <2> HIDE DEF g
  <2> QED BY <1>1, <2>1, <2>2, <2>3
<1>6. CASE FirstStep
  <2> DEFINE g == Raised("out of memory")
  <2>1. Running /\ ~Ended /\ ~Top.cpp /\ base' = base
        /\ ((SetTop(Advanced) /\ sp' = sp) \/ (SetTopGrown(Advanced) /\ sp' = sp) \/ (SetTop(g) /\ sp' = Unwound))
    BY <1>6 DEF FirstStep, At
  <2>2. Advanced \in FrameSet /\ Advanced.fn = Top.fn /\ Advanced.saved = Top.saved /\ Advanced.cpp = FALSE
        /\ Advanced.pc \in 1 .. Len(Script[Advanced.fn]) + 1
    BY <2>1, NewFrames DEF FrameSet
  <2>3. g \in FrameSet /\ g.fn = Top.fn /\ g.saved = Top.saved /\ g.cpp = FALSE
        /\ g.pc \in 1 .. Len(Script[g.fn]) + 1
    BY <2>1, NewFrames DEF Errors, FrameSet
  <2> HIDE DEF g
  <2> QED BY <1>1, <2>1, <2>2, <2>3
<1>7. CASE ViewStep
  <2> DEFINE f == [Advanced EXCEPT !.views = @ \union Step.of]
  <2>1. Running /\ ~Ended /\ ~Top.cpp /\ SetTop(f) /\ base' = base /\ sp' = sp
    BY <1>7 DEF ViewStep, At
  <2>2. Step.of \subseteq STRING
    BY <2>1, StepType DEF Running
  <2>3. f \in FrameSet /\ f.fn = Top.fn /\ f.saved = Top.saved /\ f.cpp = FALSE
        /\ f.pc \in 1 .. Len(Script[f.fn]) + 1
    BY <2>1, <2>2, NewFrames DEF FrameSet
  <2> HIDE DEF f
  <2> QED BY <1>1, <2>1, <2>3
<1>8. CASE UseStep
  <2>1. Running /\ ~Ended /\ ~Top.cpp /\ SetTop(Advanced) /\ base' = base /\ sp' = sp
    BY <1>8 DEF UseStep, At
  <2>2. Advanced \in FrameSet /\ Advanced.fn = Top.fn /\ Advanced.saved = Top.saved /\ Advanced.cpp = FALSE
        /\ Advanced.pc \in 1 .. Len(Script[Advanced.fn]) + 1
    BY <2>1, NewFrames DEF FrameSet
  <2> QED BY <1>1, <2>1, <2>2
<1>9. CASE UserStep
  <2> DEFINE g == Raised("user")
  <2>1. Running /\ ~Ended /\ ~Top.cpp /\ base' = base /\ sp' = sp /\ (SetTopGrown(Advanced) \/ SetTop(g))
    BY <1>9 DEF UserStep, At
  <2>2. Advanced \in FrameSet /\ Advanced.fn = Top.fn /\ Advanced.saved = Top.saved /\ Advanced.cpp = FALSE
        /\ Advanced.pc \in 1 .. Len(Script[Advanced.fn]) + 1
    BY <2>1, NewFrames DEF FrameSet
  <2>3. g \in FrameSet /\ g.fn = Top.fn /\ g.saved = Top.saved /\ g.cpp = FALSE
        /\ g.pc \in 1 .. Len(Script[g.fn]) + 1
    BY <2>1, NewFrames DEF Errors, FrameSet
  <2> HIDE DEF g
  <2> QED BY <1>1, <2>1, <2>2, <2>3
<1>10. CASE CallStep
  <2> DEFINE f == [Advanced EXCEPT !.own = @ \union Step.out]
             g == Raised("C++")
  <2>1. Running /\ ~Ended /\ ~Top.cpp /\ base' = base /\ Step.do = "call"
        /\ ((SetTopGrown(f) /\ sp' = sp) \/ (SetTop(g) /\ sp' = Unwound))
    BY <1>10 DEF CallStep, At
  <2>2. Step.out \subseteq STRING
    BY <2>1, StepType DEF Running
  <2>3. f \in FrameSet /\ f.fn = Top.fn /\ f.saved = Top.saved /\ f.cpp = FALSE
        /\ f.pc \in 1 .. Len(Script[f.fn]) + 1
    BY <2>1, <2>2, NewFrames DEF FrameSet
  <2>4. g \in FrameSet /\ g.fn = Top.fn /\ g.saved = Top.saved /\ g.cpp = FALSE
        /\ g.pc \in 1 .. Len(Script[g.fn]) + 1
    BY <2>1, NewFrames DEF Errors, FrameSet
  <2> HIDE DEF f, g
  <2> QED BY <1>1, <2>1, <2>3, <2>4
<1>11. CASE DriverStep
  <2> DEFINE f == [Top EXCEPT !.cpp = TRUE]
  <2>1. Running /\ ~Ended /\ ~Top.cpp /\ Step.do = "driver" /\ SetTopGrown(f) /\ base' = base /\ sp' = sp + 1
    BY <1>11 DEF DriverStep, At
  <2>2. frames # <<>> /\ Top \in FrameSet /\ Top.pc \in 1 .. Len(Script[Top.fn]) + 1 /\ Top.error = "none"
    BY <2>1, NewFrames DEF Running
  <2>3. f \in FrameSet /\ f.fn = Top.fn /\ f.saved = Top.saved /\ f.cpp = TRUE /\ f.pc = Top.pc
        /\ f.error = "none"
    BY <2>2 DEF FrameSet
  <2>4. Top.pc <= Len(Script[Top.fn]) /\ Script[Top.fn][Top.pc].do = "driver"
    BY <2>1, <2>2, StepType DEF Step
  <2>5. sp = base
    BY <2>1, <2>2, TopType DEF StackInv
  <2> HIDE DEF f
  <2> QED BY <2>1, <2>2, <2>3, <2>4, <2>5, TopStep
<1>12. ASSUME NEW cb \in DOMAIN Callback, Enter(cb) PROVE StackInv'
  <2>1. cb \in DOMAIN Script
    BY ScriptAssumption
  <2>2. frames # <<>> /\ Top.cpp /\ Running
    BY <1>12 DEF Enter, InDriver, Running
  <2>3. ~Ended
    <3>1. Framed(frames, 1) /\ Top = frames[1] /\ Top \in FrameSet
      BY <2>2, TopType
    <3>2. Top.pc \in Nat /\ Len(Script[Top.fn]) \in Nat
      BY <3>1, ScriptAssumption DEF FrameSet
    <3> QED BY <2>2, <3>1, <3>2 DEF Framed, Ended
  <2>4. frames' = <<Frame(cb, base)>> \o frames /\ sp' = sp /\ base' = sp
    BY <1>12 DEF Enter, ScopeBase
  <2> QED BY <2>1, <2>2, <2>3, <2>4, CallBegins
<1>13. ASSUME InDriver PROVE Running /\ ~Ended /\ frames # <<>> /\ Top.cpp /\ sp = base + 1 /\ base \in Nat
  <2>1. frames # <<>> /\ Top.cpp /\ Running
    BY <1>13 DEF InDriver, Running
  <2>2. Framed(frames, 1) /\ Top = frames[1] /\ Top \in FrameSet /\ sp = base + 1 /\ base \in Nat
    BY <2>1, TopType DEF StackInv
  <2>3. Top.pc \in Nat /\ Len(Script[Top.fn]) \in Nat
    BY <2>2, ScriptAssumption DEF FrameSet
  <2> QED BY <2>1, <2>2, <2>3 DEF Framed, Ended
<1>14. CASE DriverEnds
  <2> DEFINE f == [Advanced EXCEPT !.cpp = FALSE]
  <2>1. Running /\ ~Ended /\ frames # <<>> /\ SetTopGrown(f) /\ base' = base /\ sp' = base
    BY <1>13, <1>14 DEF DriverEnds
  <2>2. f \in FrameSet /\ f.fn = Top.fn /\ f.saved = Top.saved /\ f.cpp = FALSE
        /\ f.pc \in 1 .. Len(Script[f.fn]) + 1
    BY <2>1, NewFrames DEF FrameSet
  <2>3. sp' = base + (IF f.cpp THEN 1 ELSE 0)
    BY <2>1, <2>2 DEF StackInv
  <2> HIDE DEF f
  <2> QED BY <2>1, <2>2, <2>3, TopStep
<1>15. CASE DriverThrows
  <2> DEFINE f == [Top EXCEPT !.error = ErrorOf(Top), !.cpp = FALSE]
  <2>1. Running /\ ~Ended /\ frames # <<>> /\ SetTop(f) /\ base' = base /\ sp' = base
    BY <1>13, <1>15 DEF DriverThrows, Unwound
  <2>2. Top \in FrameSet /\ Top.pc \in 1 .. Len(Script[Top.fn]) + 1
    BY <2>1, NewFrames
  <2>3. ErrorOf(Top) \in Errors
    BY <2>2 DEF ErrorOf, Errors, FrameSet
  <2>4. f \in FrameSet /\ f.fn = Top.fn /\ f.saved = Top.saved /\ f.cpp = FALSE
        /\ f.pc \in 1 .. Len(Script[f.fn]) + 1
    BY <2>2, <2>3 DEF FrameSet
  <2>5. sp' = base + (IF f.cpp THEN 1 ELSE 0)
    BY <2>1, <2>4 DEF StackInv
  <2> HIDE DEF f
  <2> QED BY <2>1, <2>4, <2>5, TopStep
<1>16. ASSUME Ended \/ (frames # <<>> /\ Top.error # "none")
       PROVE  /\ frames # <<>> /\ Len(frames) \in Nat \ {0} /\ Top \in FrameSet /\ ~Top.cpp /\ sp = base
              /\ Framed(frames, 1) /\ Top = frames[1]
              /\ Tail(frames) \in Seq(FrameSet) /\ Len(Tail(frames)) = Len(frames) - 1
              /\ \A i \in 1 .. Len(Tail(frames)) : Tail(frames)[i] = frames[i + 1]
  <2>1. frames # <<>>
    BY <1>16 DEF Ended
  <2>2. /\ Len(frames) \in Nat \ {0} /\ Top = frames[1] /\ Top \in FrameSet /\ Framed(frames, 1)
        /\ sp = base + (IF Top.cpp THEN 1 ELSE 0)
    BY <2>1, TopType
  <2>3. Top.pc \in Nat /\ Len(Script[Top.fn]) \in Nat
    BY <2>2, ScriptAssumption DEF FrameSet
  <2>4. ~Top.cpp
    BY <1>16, <2>2, <2>3 DEF Framed, Ended
  <2>5. frames \in Seq(FrameSet) /\ base \in Nat
    BY DEF StackInv
  <2> HIDE DEF FrameSet
  <2>6. /\ Tail(frames) \in Seq(FrameSet) /\ Len(Tail(frames)) = Len(frames) - 1
        /\ \A i \in 1 .. Len(Tail(frames)) : Tail(frames)[i] = frames[i + 1]
    BY <2>1, <2>5
  <2> QED BY <2>1, <2>2, <2>4, <2>5, <2>6
<1>17. CASE Leave
  <2>1. (Ended \/ (frames # <<>> /\ Top.error # "none")) /\ ~IsCallback(Top) /\ sp' = sp /\ base' = base
    BY <1>17 DEF Leave
  <2> DEFINE t == Tail(frames)
  <2>2. frames' = t \/ (Len(frames) > 1 /\ frames' = [t EXCEPT ![1].error = Top.error])
    BY <1>17 DEF Leave, Depth
  <2>3. /\ frames # <<>> /\ Len(frames) \in Nat \ {0} /\ Top \in FrameSet /\ sp = base
        /\ t \in Seq(FrameSet) /\ Len(t) = Len(frames) - 1
        /\ \A i \in 1 .. Len(t) : t[i] = frames[i + 1]
    BY <1>16, <2>1
  <2> HIDE DEF t
  <2>4. /\ frames' \in Seq(FrameSet) /\ Len(frames') = Len(t)
        /\ \A i \in 1 .. Len(t) :
             /\ frames'[i].fn = t[i].fn /\ frames'[i].pc = t[i].pc
             /\ frames'[i].saved = t[i].saved /\ frames'[i].cpp = t[i].cpp
             /\ i > 1 => frames'[i].error = t[i].error
    <3>1. CASE frames' = t
      BY <2>3, <3>1
    <3>2. CASE Len(frames) > 1 /\ frames' = [t EXCEPT ![1].error = Top.error]
      <4>1. 1 \in 1 .. Len(t) /\ t[1] \in FrameSet
        BY <2>3, <3>2
      <4> DEFINE g == [t[1] EXCEPT !.error = Top.error]
      <4>2. g \in FrameSet /\ g.fn = t[1].fn /\ g.pc = t[1].pc /\ g.saved = t[1].saved /\ g.cpp = t[1].cpp
        BY <2>3, <4>1 DEF FrameSet
      <4>3. frames' = [t EXCEPT ![1] = g]
        BY <3>2
      <4> HIDE DEF g, FrameSet
      <4> QED BY <2>3, <4>1, <4>2, <4>3
    <3> QED BY <2>2, <3>1, <3>2
  <2>5. ASSUME NEW i \in 1 .. Len(frames')
        PROVE  /\ frames'[i].fn = frames[i + 1].fn /\ frames'[i].pc = frames[i + 1].pc
               /\ frames'[i].saved = frames[i + 1].saved /\ frames'[i].cpp = frames[i + 1].cpp
               /\ i > 1 \/ frames[i + 1].cpp => frames'[i].error = frames[i + 1].error
    <3>1. i \in 1 .. Len(t) /\ t[i] = frames[i + 1]
      BY <2>3, <2>4
    <3>2. i = 1 => ~frames[2].cpp
      BY <1>16, <2>1, <2>3, <3>1 DEF Framed
    <3>3. i > 1 \/ i = 1
      BY <3>1
    <3> QED BY <2>4, <3>1, <3>2, <3>3
  <2> QED BY <2>1, <2>3, <2>4, <2>5, CallEnds
<1>18. CASE LeaveCallback
  <2>1. /\ (Ended \/ (frames # <<>> /\ Top.error # "none")) /\ IsCallback(Top)
        /\ base' = Top.saved /\ sp' = (IF Top.error = "none" THEN sp ELSE base)
    BY <1>18 DEF LeaveCallback
  <2> DEFINE t == Tail(frames)
  <2>2. frames' = [t EXCEPT ![1].failed = Top.error]
    BY <1>18 DEF LeaveCallback
  <2>3. /\ frames # <<>> /\ Len(frames) \in Nat \ {0} /\ Top \in FrameSet /\ sp = base
        /\ Framed(frames, 1) /\ Top = frames[1]
        /\ t \in Seq(FrameSet) /\ Len(t) = Len(frames) - 1
        /\ \A i \in 1 .. Len(t) : t[i] = frames[i + 1]
    BY <1>16, <2>1
  <2> HIDE DEF t
  <2>4. 1 \in 1 .. Len(t) /\ t[1] \in FrameSet
    BY <2>1, <2>3 DEF Framed
  <2> DEFINE g == [t[1] EXCEPT !.failed = Top.error]
  <2>5. /\ g \in FrameSet /\ g.fn = t[1].fn /\ g.pc = t[1].pc /\ g.saved = t[1].saved /\ g.cpp = t[1].cpp
        /\ g.error = t[1].error
    BY <2>3, <2>4 DEF FrameSet
  <2>6. frames' = [t EXCEPT ![1] = g]
    BY <2>2
  <2> HIDE DEF g, FrameSet
  <2>7. frames' \in Seq(FrameSet) /\ Len(frames') = Len(frames) - 1
    BY <2>3, <2>4, <2>5, <2>6
  <2>8. ASSUME NEW i \in 1 .. Len(frames')
        PROVE  /\ frames'[i].fn = frames[i + 1].fn /\ frames'[i].pc = frames[i + 1].pc
               /\ frames'[i].saved = frames[i + 1].saved /\ frames'[i].cpp = frames[i + 1].cpp
               /\ frames'[i].error = frames[i + 1].error
    <3>1. i \in 1 .. Len(t) /\ t[i] = frames[i + 1]
      BY <2>3, <2>7
    <3> QED BY <2>3, <2>4, <2>5, <2>6, <3>1
  <2>9. sp' = base /\ base' = IF IsCallback(Top) THEN Top.saved ELSE base
    BY <2>1, <2>3
  <2> QED BY <2>1, <2>3, <2>7, <2>8, <2>9, CallEnds
<1>19. CASE ReleaseStream
  BY <1>19 DEF ReleaseStream, StackInv, Framed, Below, CppBelow, IsCallback
<1> QED BY <1>2, <1>3, <1>4, <1>5, <1>6, <1>7, <1>8, <1>9, <1>10, <1>11, <1>12, <1>14, <1>15, <1>17,
           <1>18, <1>19 DEF Next

LEMMA StackInvariant == Spec => []StackInv
<1>1. Init => StackInv
  <2> SUFFICES ASSUME Init PROVE StackInv
    OBVIOUS
  <2>1. frames = <<>> /\ sp = 0 /\ base = 0
    BY DEF Init
  <2>2. frames \in Seq(FrameSet) /\ Len(frames) <= 0 /\ Len(frames) <= 1
    BY <2>1
  <2>3. Below(frames, 0) = 0
    BY <2>2, BelowEnd
  <2>4. Below(frames, 1) = 0
    BY <2>2, BelowEnd
  <2> QED BY <2>1, <2>2, <2>3, <2>4 DEF StackInv
<1>2. StackInv /\ [Next]_vars => StackInv'
  <2> SUFFICES ASSUME StackInv, [Next]_vars PROVE StackInv'
    OBVIOUS
  <2>1. CASE UNCHANGED vars
    <3>1. frames' = frames /\ sp' = sp /\ base' = base
      BY <2>1 DEF vars
    <3>2. Below(frames, 0)' = Below(frames, 0) /\ Below(frames, 1)' = Below(frames, 1)
      BY <3>1 DEF Below, CppBelow
    <3>3. ASSUME NEW i \in 1 .. Len(frames)' PROVE Framed(frames, i)'
      <4>1. Framed(frames, i)
        BY <3>1 DEF StackInv
      <4>2. Below(frames, i + 1)' = Below(frames, i + 1)
        BY <3>1 DEF Below, CppBelow
      <4> QED BY <3>1, <4>1, <4>2 DEF Framed, IsCallback
    <3> QED BY <3>1, <3>2, <3>3 DEF StackInv
  <2> QED BY <2>1, StackStep
<1> QED BY <1>1, <1>2, PTL DEF Spec

\* The WASM stack holds the frames of the C++ code that runs and no others
\* (normalizeError and callbackScope in errors.ts), however deep the calls are.
THEOREM StackHoldsDrivers == Spec => []StackKept
<1>1. StackInv => StackKept
  <2> SUFFICES ASSUME StackInv PROVE StackKept
    OBVIOUS
  <2>1. Drivers = Below(frames, 0) /\ Drivers \in Nat
    <3>1. CppBelow(frames, 0) = {i \in DOMAIN frames : frames[i].cpp}
      BY DEF CppBelow, StackInv
    <3> QED BY <3>1, BelowType DEF Drivers, Below, StackInv
  <2>2. CASE frames = <<>>
    <3>1. frames \in Seq(FrameSet) /\ Len(frames) <= 0 /\ Len(frames) <= 1
      BY <2>2 DEF StackInv
    <3>2. Below(frames, 1) = 0
      BY <3>1, BelowEnd
    <3>3. Below(frames, 0) = 0
      BY <3>1, BelowEnd
    <3> QED BY <2>1, <2>2, <3>2, <3>3 DEF StackInv, StackKept
  <2>3. CASE frames # <<>>
    BY <2>1, <2>3, TopType DEF StackInv, StackKept
  <2> QED BY <2>2, <2>3
<1> QED BY <1>1, StackInvariant, PTL

-----------------------------------------------------------------------------
(* The heap. *)

\* No allocation that may fail makes a buffer of an operator anew: what reducerEvent
\* and rowEvent do when one does is shown by OwnedLive.
GrowsSafely ==
  \A fn \in MayFail \intersect DOMAIN Script : \A k \in 1 .. Len(Script[fn]) : Script[fn][k].do # "grow"

\* Only an allocation that failed may skip the finally block of a call that owns blocks.
ErrorSafe(f) == f.error \notin {"none", "out of memory"} => f.try \/ f.own = {}

\* Frame f is where its script says: it owns what it made and is in its try block
\* once it was entered.
Scripted(f) ==
  /\ f.own = Made(Script[f.fn], f.pc)
  /\ f.try <=> InTry(Script[f.fn], f.pc)
  /\ ErrorSafe(f)
  /\ Brought(Script[f.fn], f.pc) \subseteq kept

\* The current call has the views that its script made, unless user code or C++
\* that it runs may have grown the heap.
ViewsFresh ==
  Running /\ ~Ended /\ Step.do \notin {"user", "driver"} => Fresh(Script[Top.fn], Top.pc) \subseteq Top.views

HeapInv ==
  /\ {"opIn", "opOut"} \subseteq kept /\ kept \subseteq Scratch
  /\ \A i \in 1 .. Len(frames) : Scripted(frames[i])
  /\ ViewsFresh
  /\ GrowsSafely => OwnedLive

\* A step allocates at most the blocks bs, and all of them unless a buffer could not
\* be made anew.
Allocates(bs) == live' \subseteq live \union bs /\ (GrowsSafely => live' = live \union bs)

\* What every step keeps: the invariant, and nothing is lost but by an allocation
\* that failed before a try block.
HeapKept == HeapInv' /\ Leaked' \subseteq Leaked \union LeftByAllocation

(* What a script has made, brought and seen after one more step. *)

LEMMA ScriptStart ==
  ASSUME NEW s
  PROVE  Made(s, 1) = {} /\ Brought(s, 1) = {} /\ Fresh(s, 1) = {} /\ ~InTry(s, 1)
<1>1. 1 .. 1 - 1 = {}
  OBVIOUS
<1> QED BY <1>1 DEF Made, Brought, Fresh, InTry

LEMMA ScriptStep ==
  ASSUME NEW s, NEW k \in Nat \ {0}
  PROVE  /\ Made(s, k + 1) = Made(s, k) \union Makes(s[k])
         /\ InTry(s, k + 1) <=> InTry(s, k) \/ s[k].do = "try"
         /\ Brought(s, k + 1) = Brought(s, k) \union (IF s[k].do \in {"grow", "first"} THEN s[k].of ELSE {})
         /\ s[k].do = "view" => Fresh(s, k + 1) \subseteq Fresh(s, k) \union s[k].of
         /\ s[k].do \in {"use", "touch"} => Fresh(s, k + 1) \subseteq Fresh(s, k)
         /\ s[k].do \notin {"view", "use", "touch"} => Fresh(s, k + 1) = {}
<1>1. 1 .. (k + 1) - 1 = (1 .. k - 1) \union {k} /\ k \notin 1 .. k - 1
  OBVIOUS
<1>2. Made(s, k + 1) = Made(s, k) \union Makes(s[k])
  BY <1>1 DEF Made
<1>3. InTry(s, k + 1) <=> InTry(s, k) \/ s[k].do = "try"
  BY <1>1 DEF InTry
<1>4. Brought(s, k + 1) = Brought(s, k) \union (IF s[k].do \in {"grow", "first"} THEN s[k].of ELSE {})
  BY <1>1 DEF Brought
<1>5. ASSUME NEW b \in Fresh(s, k + 1)
      PROVE  s[k].do \in {"view", "use", "touch"} /\ (b \in Fresh(s, k) \/ (s[k].do = "view" /\ b \in s[k].of))
  <2>1. PICK j \in 1 .. (k + 1) - 1 :
          /\ b \in s[j].of /\ s[j].do = "view"
          /\ \A m \in j .. (k + 1) - 1 : s[m].do \in {"view", "use", "touch"}
    BY DEF Fresh
  <2>2. k \in j .. (k + 1) - 1 /\ j \in Nat /\ \A m \in j .. k - 1 : m \in j .. (k + 1) - 1
    BY <2>1
  <2>3. CASE j = k
    BY <2>1, <2>2, <2>3
  <2>4. CASE j # k
    <3>1. j \in 1 .. k - 1
      BY <1>1, <2>1, <2>4
    <3> QED BY <2>1, <2>2, <3>1 DEF Fresh
  <2> QED BY <2>3, <2>4
<1> QED BY <1>2, <1>3, <1>4, <1>5

\* A call never owns a buffer of an operator, and a callback owns nothing.
LEMMA MadeNames ==
  ASSUME NEW fn \in DOMAIN Script, NEW k \in 1 .. Len(Script[fn]) + 1
  PROVE  /\ Made(Script[fn], k) \subseteq STRING \ Scratch
         /\ fn \in DOMAIN Callback => Made(Script[fn], k) = {}
<1>1. Len(Script[fn]) \in Nat /\ Disciplined(Script[fn])
  BY ScriptAssumption
<1>2. \A j \in 1 .. k - 1 : j \in 1 .. Len(Script[fn]) /\ j \in 1 .. (Len(Script[fn]) + 1) - 1
  BY <1>1
<1>3. Made(Script[fn], k) \subseteq STRING \ Scratch
  BY <1>1, <1>2 DEF Made, Disciplined
<1>4. Made(Script[fn], k) \subseteq Made(Script[fn], Len(Script[fn]) + 1)
  BY <1>2 DEF Made
<1>5. fn \in DOMAIN Callback => Made(Script[fn], Len(Script[fn]) + 1) = {}
  BY ScriptAssumption
<1> QED BY <1>3, <1>4, <1>5

(* The blocks that calls own. *)

\* A call at depth d, or an operator (depth 0), owns the blocks of its names.
OwnedBy(fs, i) == Blocks(Len(fs) - i + 1, fs[i].own)

LEMMA OwnedMembers ==
  \A x : x \in OwnedBlocks <=> x \in Blocks(0, kept) \/ \E i \in DOMAIN frames : x \in OwnedBy(frames, i)
BY DEF OwnedBlocks, OwnedBy, Depth

LEMMA OwnedNext ==
  \A x : x \in OwnedBlocks' <=> x \in Blocks(0, kept)' \/ \E i \in DOMAIN frames' : x \in OwnedBy(frames, i)'
BY DEF OwnedBlocks, OwnedBy, Depth, Blocks, Block

LEMMA BlocksOf ==
  ASSUME NEW d \in Nat, NEW bs
  PROVE  /\ \A x \in Blocks(d, bs) : \E b \in bs : b # Cpp /\ x = (IF b \in Scratch THEN <<0, b>> ELSE <<d, b>>)
         /\ \A b \in bs : b # Cpp => Block(d, b) \in Blocks(d, bs)
         /\ \A bt : Blocks(d, bs \union bt) = Blocks(d, bs) \union Blocks(d, bt)
         /\ Blocks(d, {}) = {}
BY DEF Blocks, Block

\* A step of the current call that makes blocks and buffers, and frees none.
LEMMA HeapTop ==
  ASSUME StackInv, HeapInv, frames # <<>>, NEW f \in FrameSet,
         \/ /\ SetTop(f)
            /\ \/ f.error # "none" \/ f.pc > Len(Script[f.fn])
               \/ Script[f.fn][f.pc].do \in {"user", "driver"}
               \/ Fresh(Script[f.fn], f.pc) \subseteq f.views
         \/ /\ SetTopGrown(f)
            /\ \/ Script[f.fn][f.pc].do \in {"user", "driver"}
               \/ Fresh(Script[f.fn], f.pc) = {},
         f.own = Made(Script[f.fn], f.pc), f.try <=> InTry(Script[f.fn], f.pc),
         ErrorSafe(f), Top.own \subseteq f.own, Brought(Script[f.fn], f.pc) \subseteq kept',
         kept \subseteq kept', kept' \subseteq Scratch,
         Allocates(Blocks(Depth, f.own) \union Blocks(0, kept'))
  PROVE  HeapKept
<1>1. /\ frames' \in Seq(FrameSet) /\ Len(frames') = Len(frames) /\ Len(frames) \in Nat \ {0}
      /\ SameFrame(frames'[1], f)
      /\ \A i \in 1 .. Len(frames) : i > 1 => SameFrame(frames'[i], frames[i])
  BY TopChange DEF StackInv
<1>2. Top = frames[1] /\ Depth = Len(frames) /\ DOMAIN frames = 1 .. Len(frames) /\ DOMAIN frames' = 1 .. Len(frames)
  BY <1>1, TopType DEF Depth, StackInv
<1>3. {"opIn", "opOut"} \subseteq kept'
  BY DEF HeapInv
<1>4. ASSUME NEW i \in 1 .. Len(frames') PROVE Scripted(frames[i])'
  <2>1. CASE i = 1
    BY <1>1, <2>1 DEF Scripted, SameFrame, ErrorSafe
  <2>2. CASE i > 1
    <3>1. Scripted(frames[i]) /\ SameFrame(frames'[i], frames[i])
      BY <1>1, <2>2 DEF HeapInv
    <3> QED BY <3>1 DEF Scripted, SameFrame, ErrorSafe
  <2> QED BY <1>1, <2>1, <2>2
<1>5. ViewsFresh'
  <2>1. Top' = frames'[1] /\ Len(Script[f.fn]) \in Nat /\ f.pc \in Nat
    <3>1. f.fn \in DOMAIN Script /\ f.pc \in Nat
      BY DEF FrameSet
    <3>2. frames' # <<>>
      BY <1>1
    <3> QED BY <1>1, <3>1, <3>2, ScriptAssumption DEF Top
  <2>2. SetTop(f) => Top'.views = f.views
    BY <1>1, <1>2, <2>1 DEF SetTop
  <2> QED BY <1>1, <2>1, <2>2 DEF ViewsFresh, Running, Ended, Step, SameFrame
<1>6. OwnedBy(frames, 1)' = Blocks(Depth, f.own)
  BY <1>1, <1>2 DEF OwnedBy, SameFrame
<1>7. \A i \in 1 .. Len(frames) : i > 1 => OwnedBy(frames, i)' = OwnedBy(frames, i)
  BY <1>1, <1>2 DEF OwnedBy, SameFrame
<1>8. OwnedBy(frames, 1) \subseteq Blocks(Depth, f.own) /\ Blocks(0, kept) \subseteq Blocks(0, kept')
  BY <1>1, <1>2 DEF OwnedBy, Blocks
<1>9. \A x : x \in OwnedBlocks' <=> x \in Blocks(0, kept') \/ \E i \in DOMAIN frames' : x \in OwnedBy(frames, i)'
  <2>1. Blocks(0, kept)' = Blocks(0, kept')
    BY DEF Blocks, Block
  <2> QED BY <2>1, OwnedNext
<1>10. ASSUME NEW x
       PROVE  /\ x \in OwnedBlocks => x \in OwnedBlocks'
              /\ x \in live' => x \in live \/ x \in OwnedBlocks'
              /\ GrowsSafely => (x \in OwnedBlocks' => x \in live')
  <2>1. x \in OwnedBlocks <=> x \in Blocks(0, kept) \/ \E i \in DOMAIN frames : x \in OwnedBy(frames, i)
    BY OwnedMembers
  <2>2. x \in OwnedBlocks' <=> x \in Blocks(0, kept') \/ \E i \in DOMAIN frames' : x \in OwnedBy(frames, i)'
    BY <1>9
  <2>3. 1 \in DOMAIN frames'
    BY <1>1, <1>2
  <2>4. x \in live' => x \in live \/ x \in OwnedBlocks'
    <3>1. x \in live' => x \in live \/ x \in Blocks(Depth, f.own) \/ x \in Blocks(0, kept')
      BY DEF Allocates
    <3> QED BY <1>6, <2>2, <2>3, <3>1
  <2>5. ASSUME x \in OwnedBlocks PROVE x \in OwnedBlocks'
    BY <1>1, <1>2, <1>6, <1>7, <1>8, <2>1, <2>2, <2>3, <2>5
  <2>6. ASSUME GrowsSafely, x \in OwnedBlocks' PROVE x \in live'
    <3>1. x \in OwnedBlocks => x \in live
      BY <2>6 DEF HeapInv, OwnedLive
    <3>2. x \in live \/ x \in Blocks(Depth, f.own) \/ x \in Blocks(0, kept') => x \in live'
      BY <2>6 DEF Allocates
    <3>3. ASSUME NEW i \in 1 .. Len(frames), x \in OwnedBy(frames, i)' PROVE x \in live'
      BY <1>1, <1>2, <1>6, <1>7, <2>1, <3>1, <3>2, <3>3
    <3> QED BY <1>2, <2>2, <2>6, <3>2, <3>3
  <2> QED BY <2>4, <2>5, <2>6
<1>11. Leaked' \subseteq Leaked
  BY <1>10 DEF Leaked
<1>12. HeapInv'
  BY <1>3, <1>4, <1>5, <1>10 DEF HeapInv, OwnedLive, GrowsSafely
<1> QED BY <1>11, <1>12 DEF HeapKept

\* A call that begins owns nothing yet.
LEMMA HeapBegins ==
  ASSUME StackInv, HeapInv, NEW fn \in DOMAIN Script, frames' = <<Frame(fn, base)>> \o frames,
         UNCHANGED <<live, kept>>
  PROVE  HeapKept
<1> DEFINE f == Frame(fn, base)
<1>1. /\ f \in FrameSet /\ f.fn = fn /\ f.pc = 1 /\ f.own = {} /\ f.try = FALSE /\ f.error = "none"
  BY DEF StackInv, FrameSet, Frame, Errors
<1> HIDE DEF f
<1>2. frames \in Seq(FrameSet) /\ Len(frames) \in Nat
  BY DEF StackInv
<1>3. /\ frames' \in Seq(FrameSet) /\ Len(frames') = Len(frames) + 1 /\ frames'[1] = f
      /\ \A i \in 1 .. Len(frames) : frames'[i + 1] = frames[i]
  <2>1. frames' = <<f>> \o frames
    BY DEF f
  <2>2. <<f>> \in Seq(FrameSet) /\ Len(<<f>>) = 1
    BY <1>1
  <2> HIDE DEF FrameSet
  <2>3. frames' \in Seq(FrameSet) /\ Len(frames') = 1 + Len(frames)
    BY <1>2, <2>1, <2>2, ConcatProperties
  <2> QED BY <1>2, <2>1, <2>2, <2>3, ConcatProperties
<1>4. ASSUME NEW i \in 1 .. Len(frames') PROVE Scripted(frames[i])'
  <2>1. CASE i = 1
    BY <1>1, <1>3, <2>1, ScriptStart DEF Scripted, ErrorSafe
  <2>2. CASE i > 1
    <3>1. PICK j : j = i - 1
      OBVIOUS
    <3>2. j \in 1 .. Len(frames) /\ i = j + 1
      BY <1>2, <1>3, <2>2, <3>1
    <3>3. Scripted(frames[j]) /\ frames'[i] = frames[j]
      BY <1>3, <3>2 DEF HeapInv
    <3> QED BY <3>3 DEF Scripted
  <2> QED BY <1>3, <2>1, <2>2
<1>5. ViewsFresh'
  <2>1. frames' # <<>> /\ Top' = f
    BY <1>2, <1>3 DEF Top
  <2> QED BY <1>1, <2>1, ScriptStart DEF ViewsFresh
<1>6. OwnedBlocks' = OwnedBlocks
  <2>1. OwnedBy(frames, 1)' = {}
    BY <1>1, <1>3, BlocksOf DEF OwnedBy
  <2>2. ASSUME NEW j \in 1 .. Len(frames) PROVE \A i : i = j + 1 => OwnedBy(frames, i)' = OwnedBy(frames, j)
    BY <1>2, <1>3 DEF OwnedBy
  <2>3. \A x : x \in OwnedBlocks' <=> x \in Blocks(0, kept)' \/ \E i \in DOMAIN frames' : x \in OwnedBy(frames, i)'
    BY OwnedNext
  <2>4. ASSUME NEW x
        PROVE  (\E i \in 1 .. Len(frames) + 1 : x \in OwnedBy(frames, i)')
                 <=> (\E j \in 1 .. Len(frames) : x \in OwnedBy(frames, j))
    <3>1. ASSUME NEW i \in 1 .. Len(frames) + 1, x \in OwnedBy(frames, i)'
          PROVE  \E j \in 1 .. Len(frames) : x \in OwnedBy(frames, j)
      <4>1. i # 1
        BY <2>1, <3>1
      <4>2. i - 1 \in 1 .. Len(frames) /\ i = (i - 1) + 1
        BY <1>2, <4>1
      <4>3. OwnedBy(frames, i)' = OwnedBy(frames, i - 1)
        BY <2>2, <4>2
      <4> QED BY <3>1, <4>2, <4>3
    <3>2. ASSUME NEW j \in 1 .. Len(frames), x \in OwnedBy(frames, j)
          PROVE  \E i \in 1 .. Len(frames) + 1 : x \in OwnedBy(frames, i)'
      <4>1. PICK i : i = j + 1
        OBVIOUS
      <4>2. i \in 1 .. Len(frames) + 1
        BY <1>2, <4>1
      <4> QED BY <2>2, <3>2, <4>1, <4>2
    <3> QED BY <3>1, <3>2
  <2>5. DOMAIN frames' = 1 .. Len(frames) + 1 /\ DOMAIN frames = 1 .. Len(frames)
    BY <1>2, <1>3
  <2>6. Blocks(0, kept)' = Blocks(0, kept)
    BY DEF Blocks, Block
  <2> QED BY <2>3, <2>4, <2>5, <2>6, OwnedMembers
<1>7. HeapInv'
  BY <1>4, <1>5, <1>6 DEF HeapInv, OwnedLive, GrowsSafely
<1>8. Leaked' = Leaked
  BY <1>6 DEF Leaked
<1> QED BY <1>7, <1>8 DEF HeapKept

\* A call that ends frees what it owns, which no other call and no operator does.
LEMMA HeapEnds ==
  ASSUME StackInv, HeapInv, frames # <<>>,
         frames' \in Seq(FrameSet), Len(frames') = Len(frames) - 1,
         \A i \in 1 .. Len(frames') :
           /\ frames'[i].fn = frames[i + 1].fn /\ frames'[i].pc = frames[i + 1].pc
           /\ frames'[i].own = frames[i + 1].own /\ frames'[i].try = frames[i + 1].try,
         \A i \in 1 .. Len(frames') : ErrorSafe(frames'[i]),
         frames' # <<>> => (Running' => Ended' \/ Step'.do \in {"user", "driver"}),
         live' \subseteq live, live \ live' \subseteq Blocks(Depth, Top.own),
         live' \intersect Blocks(Depth, Top.own) \subseteq LeftByAllocation, UNCHANGED kept
  PROVE  HeapKept
<1>1. /\ Len(frames) \in Nat \ {0} /\ Top = frames[1] /\ Top \in FrameSet /\ Depth = Len(frames)
      /\ DOMAIN frames = 1 .. Len(frames) /\ DOMAIN frames' = 1 .. Len(frames) - 1
  BY TopType DEF Depth, StackInv
<1>2. ASSUME NEW i \in 1 .. Len(frames') PROVE Scripted(frames[i])'
  <2>1. PICK j : j = i + 1
    OBVIOUS
  <2>2. j \in 1 .. Len(frames)
    BY <1>1, <2>1
  <2>3. Scripted(frames[j])
    BY <2>2 DEF HeapInv
  <2>4. /\ frames'[i].fn = frames[j].fn /\ frames'[i].pc = frames[j].pc
        /\ frames'[i].own = frames[j].own /\ frames'[i].try = frames[j].try
    BY <2>1
  <2> QED BY <2>3, <2>4 DEF Scripted
<1>3. ViewsFresh'
  BY DEF ViewsFresh, Running
<1>4. ASSUME NEW i \in 1 .. Len(frames)
      PROVE  frames[i].own \intersect Scratch = {} /\ OwnedBy(frames, i) = {<<Len(frames) - i + 1, b>> : b \in frames[i].own \ {Cpp}}
  <2>1. frames[i] \in FrameSet /\ Framed(frames, i) /\ Scripted(frames[i])
    BY DEF StackInv, HeapInv
  <2>2. frames[i].own \subseteq STRING \ Scratch
    <3>1. frames[i].fn \in DOMAIN Script /\ frames[i].pc \in 1 .. Len(Script[frames[i].fn]) + 1
      BY <2>1 DEF FrameSet, Framed
    <3> QED BY <2>1, <3>1, MadeNames DEF Scripted
  <2> QED BY <2>2 DEF OwnedBy, Blocks, Block
<1>5. ASSUME NEW j \in 1 .. Len(frames) - 1 PROVE \A i : i = j + 1 => OwnedBy(frames, j)' = OwnedBy(frames, i)
  <2>1. Len(frames') - j + 1 = Len(frames) - (j + 1) + 1 /\ j \in 1 .. Len(frames')
    BY <1>1
  <2> QED BY <2>1 DEF OwnedBy
<1>6. ASSUME NEW x, NEW i \in 1 .. Len(frames), x \in OwnedBy(frames, i), i > 1 PROVE x \notin OwnedBy(frames, 1)
  <2>1. x[1] = Len(frames) - i + 1
    BY <1>4, <1>6
  <2>2. ASSUME x \in OwnedBy(frames, 1) PROVE x[1] = Len(frames) - 1 + 1
    BY <1>1, <1>4, <2>2
  <2> QED BY <1>1, <1>6, <2>1, <2>2
<1>7. ASSUME NEW x \in Blocks(0, kept) PROVE x \notin OwnedBy(frames, 1)
  <2>1. x[1] = 0
    BY DEF Blocks, Block
  <2>2. ASSUME x \in OwnedBy(frames, 1) PROVE x[1] = Len(frames) - 1 + 1
    BY <1>1, <1>4, <2>2
  <2> QED BY <1>1, <2>1, <2>2
<1>8. OwnedBy(frames, 1) = Blocks(Depth, Top.own)
  BY <1>1 DEF OwnedBy
<1>9. ASSUME NEW x
      PROVE  /\ x \in OwnedBlocks => x \in OwnedBlocks' \/ x \in Blocks(Depth, Top.own)
             /\ GrowsSafely => (x \in OwnedBlocks' => x \in live')
  <2>1. x \in OwnedBlocks <=> x \in Blocks(0, kept) \/ \E i \in 1 .. Len(frames) : x \in OwnedBy(frames, i)
    BY <1>1, OwnedMembers
  <2>2. x \in OwnedBlocks' <=> x \in Blocks(0, kept) \/ \E i \in 1 .. Len(frames) - 1 : x \in OwnedBy(frames, i)'
    <3>1. Blocks(0, kept)' = Blocks(0, kept)
      BY DEF Blocks, Block
    <3> QED BY <1>1, <3>1, OwnedNext
  <2>3. ASSUME NEW i \in 1 .. Len(frames), x \in OwnedBy(frames, i)
        PROVE  x \in OwnedBlocks' \/ x \in Blocks(Depth, Top.own)
    <3>1. CASE i = 1
      BY <1>8, <2>3, <3>1
    <3>2. CASE i # 1
      <4>1. i - 1 \in 1 .. Len(frames) - 1 /\ i = (i - 1) + 1
        BY <1>1, <3>2
      <4>2. OwnedBy(frames, i - 1)' = OwnedBy(frames, i)
        BY <1>5, <4>1
      <4> QED BY <2>2, <2>3, <4>1, <4>2
    <3> QED BY <3>1, <3>2
  <2>4. ASSUME GrowsSafely, x \in OwnedBlocks' PROVE x \in live'
    <3>1. x \in OwnedBlocks => x \in live
      BY <2>4 DEF HeapInv, OwnedLive
    <3>2. ASSUME NEW j \in 1 .. Len(frames) - 1, x \in OwnedBy(frames, j)' PROVE x \in live'
      <4>1. PICK i : i = j + 1
        OBVIOUS
      <4>2. i \in 1 .. Len(frames) /\ i > 1
        BY <1>1, <4>1
      <4>3. x \in OwnedBy(frames, i)
        BY <1>5, <3>2, <4>1
      <4>4. x \notin OwnedBy(frames, 1)
        BY <1>6, <4>2, <4>3
      <4> QED BY <1>8, <2>1, <3>1, <4>2, <4>3, <4>4
    <3>3. CASE x \in Blocks(0, kept)
      BY <1>7, <1>8, <2>1, <3>1, <3>3
    <3> QED BY <2>2, <2>4, <3>2, <3>3
  <2> QED BY <2>1, <2>2, <2>3, <2>4
<1>10. {"opIn", "opOut"} \subseteq kept' /\ kept' \subseteq Scratch
  BY DEF HeapInv
<1>11. HeapInv'
  BY <1>2, <1>3, <1>9, <1>10 DEF HeapInv, OwnedLive, GrowsSafely
<1>12. Leaked' \subseteq Leaked \union LeftByAllocation
  BY <1>9 DEF Leaked
<1> QED BY <1>11, <1>12 DEF HeapKept

\* The current call, before and after its step.
LEMMA HeapNow ==
  ASSUME StackInv, HeapInv, Running, ~Ended
  PROVE  /\ frames # <<>> /\ Top.fn \in DOMAIN Script /\ Top.error = "none"
         /\ Top.pc \in 1 .. Len(Script[Top.fn]) /\ Step = Script[Top.fn][Top.pc]
         /\ Scripted(Top) /\ Depth \in Nat
         /\ GrowsSafely => Blocks(Depth, Top.own) \subseteq live /\ Blocks(0, kept) \subseteq live
         /\ Disciplined(Script[Top.fn])
         /\ Made(Script[Top.fn], Top.pc + 1) = Top.own \union Makes(Step)
         /\ InTry(Script[Top.fn], Top.pc + 1) <=> Top.try \/ Step.do = "try"
         /\ Brought(Script[Top.fn], Top.pc + 1)
              = Brought(Script[Top.fn], Top.pc) \union (IF Step.do \in {"grow", "first"} THEN Step.of ELSE {})
         /\ Step.do \notin {"view", "use", "touch"} => Fresh(Script[Top.fn], Top.pc + 1) = {}
         /\ Step.do = "view" => Fresh(Script[Top.fn], Top.pc + 1) \subseteq Top.views \union Step.of
         /\ Step.do \in {"use", "touch"} => Fresh(Script[Top.fn], Top.pc + 1) \subseteq Top.views
<1>1. frames # <<>> /\ Top.error = "none"
  BY DEF Running
<1>2. Len(frames) \in Nat \ {0} /\ Top = frames[1] /\ Top \in FrameSet /\ Top.pc \in 1 .. Len(Script[Top.fn])
  BY <1>1, TopType, StepType
<1>3. Top.fn \in DOMAIN Script /\ Top.pc \in Nat \ {0} /\ Disciplined(Script[Top.fn])
  BY <1>2, ScriptAssumption DEF FrameSet
<1>4. Step = Script[Top.fn][Top.pc]
  BY DEF Step
<1>5. Scripted(Top)
  BY <1>2 DEF HeapInv
<1>6. Depth \in Nat /\ (GrowsSafely => Blocks(Depth, Top.own) \subseteq live /\ Blocks(0, kept) \subseteq live)
  <2>1. 1 \in DOMAIN frames /\ OwnedBy(frames, 1) = Blocks(Depth, Top.own) /\ Depth \in Nat
    BY <1>2 DEF OwnedBy, Depth, StackInv
  <2> QED BY <2>1, OwnedMembers DEF HeapInv, OwnedLive
<1>7. Step.do \notin {"user", "driver"} => Fresh(Script[Top.fn], Top.pc) \subseteq Top.views
  BY DEF HeapInv, ViewsFresh
<1>8. /\ Made(Script[Top.fn], Top.pc + 1) = Made(Script[Top.fn], Top.pc) \union Makes(Step)
      /\ InTry(Script[Top.fn], Top.pc + 1) <=> InTry(Script[Top.fn], Top.pc) \/ Step.do = "try"
      /\ Brought(Script[Top.fn], Top.pc + 1)
           = Brought(Script[Top.fn], Top.pc) \union (IF Step.do \in {"grow", "first"} THEN Step.of ELSE {})
      /\ Step.do = "view" => Fresh(Script[Top.fn], Top.pc + 1) \subseteq Fresh(Script[Top.fn], Top.pc) \union Step.of
      /\ Step.do \in {"use", "touch"} => Fresh(Script[Top.fn], Top.pc + 1) \subseteq Fresh(Script[Top.fn], Top.pc)
      /\ Step.do \notin {"view", "use", "touch"} => Fresh(Script[Top.fn], Top.pc + 1) = {}
  BY <1>3, <1>4, ScriptStep
<1> QED BY <1>1, <1>2, <1>3, <1>4, <1>5, <1>6, <1>7, <1>8 DEF Scripted

\* A step that raises another error than out of memory leaves nothing for a finally
\* block that it skips.
LEMMA RaisesSafely ==
  ASSUME StackInv, HeapInv, Running, ~Ended, Step.do \in {"user", "call", "driver"}
  PROVE  Top.try \/ Top.own = {}
<1>1. /\ Top.fn \in DOMAIN Script /\ Top.pc \in 1 .. Len(Script[Top.fn]) /\ Step = Script[Top.fn][Top.pc]
      /\ Scripted(Top) /\ Disciplined(Script[Top.fn])
  BY HeapNow
<1>2. Made(Script[Top.fn], Top.pc) = {} \/ InTry(Script[Top.fn], Top.pc)
  BY <1>1 DEF Disciplined
<1> QED BY <1>1, <1>2 DEF Scripted

\* The current call makes, brings or sees something, or raises an error.
LEMMA HeapStep ==
  ASSUME StackInv, HeapInv,
         \/ TryStep \/ AllocStep \/ GrowStep \/ FirstStep \/ ViewStep \/ UseStep \/ UserStep \/ CallStep
  PROVE  HeapKept
<1> DEFINE s == Script[Top.fn]
<1>1. Running /\ ~Ended /\ ~Top.cpp
  BY DEF TryStep, AllocStep, GrowStep, FirstStep, ViewStep, UseStep, UserStep, CallStep, At
<1>2. /\ frames # <<>> /\ Top.fn \in DOMAIN Script /\ Top.error = "none"
      /\ Top.pc \in 1 .. Len(s) /\ Step = s[Top.pc] /\ Scripted(Top) /\ Depth \in Nat
      /\ GrowsSafely => Blocks(Depth, Top.own) \subseteq live /\ Blocks(0, kept) \subseteq live
      /\ Disciplined(s)
      /\ Made(s, Top.pc + 1) = Top.own \union Makes(Step)
      /\ InTry(s, Top.pc + 1) <=> Top.try \/ Step.do = "try"
      /\ Brought(s, Top.pc + 1) = Brought(s, Top.pc) \union (IF Step.do \in {"grow", "first"} THEN Step.of ELSE {})
      /\ Step.do \notin {"view", "use", "touch"} => Fresh(s, Top.pc + 1) = {}
      /\ Step.do = "view" => Fresh(s, Top.pc + 1) \subseteq Top.views \union Step.of
      /\ Step.do \in {"use", "touch"} => Fresh(s, Top.pc + 1) \subseteq Top.views
  BY <1>1, HeapNow
<1>3. /\ Top \in FrameSet /\ Advanced \in FrameSet /\ \A e \in Errors : Raised(e) \in FrameSet
      /\ Step.of \subseteq STRING /\ (Step.do = "call" => Step.out \subseteq STRING)
  BY <1>1, <1>2, NewFrames, StepType
<1>4. /\ Advanced.fn = Top.fn /\ Advanced.pc = Top.pc + 1 /\ Advanced.own = Top.own /\ Advanced.try = Top.try
      /\ Advanced.views = Top.views /\ Advanced.error = "none"
  BY <1>2, <1>3 DEF Advanced, FrameSet
<1>5. ASSUME NEW e \in Errors
      PROVE  /\ Raised(e).fn = Top.fn /\ Raised(e).pc = Top.pc /\ Raised(e).own = Top.own
             /\ Raised(e).try = Top.try /\ Raised(e).error = e
  BY <1>3 DEF Raised, FrameSet
<1>6. kept \subseteq Scratch /\ Brought(s, Top.pc) \subseteq kept /\ Top.own = Made(s, Top.pc)
      /\ (Top.try <=> InTry(s, Top.pc))
  BY <1>2 DEF HeapInv, Scripted
<1>7. ASSUME NEW e \in Errors \ {"none"}, SetTop(Raised(e)), ErrorSafe(Raised(e)),
             kept \subseteq kept', kept' \subseteq Scratch, Allocates(Blocks(0, kept'))
      PROVE  HeapKept
  <2> DEFINE g == Raised(e)
  <2>1. /\ g \in FrameSet /\ g.fn = Top.fn /\ g.pc = Top.pc /\ g.own = Top.own
        /\ g.try = Top.try /\ g.error = e
    BY <1>3, <1>5
  <2>2. Allocates(Blocks(Depth, g.own) \union Blocks(0, kept'))
    BY <1>2, <1>7, <2>1 DEF Allocates
  <2> HIDE DEF g, s
  <2> QED BY <1>2, <1>6, <1>7, <2>1, <2>2, HeapTop DEF s, g
<1>8. ASSUME NEW f \in FrameSet, f.fn = Top.fn, f.pc = Top.pc + 1, f.error = "none",
             \/ SetTop(f) /\ Fresh(s, Top.pc + 1) \subseteq f.views
             \/ SetTopGrown(f) /\ Step.do \notin {"view", "use", "touch"},
             f.try <=> Top.try \/ Step.do = "try", f.own = Top.own \union Makes(Step),
             Step.do \in {"grow", "first"} => Step.of \subseteq kept',
             kept \subseteq kept', kept' \subseteq Scratch,
             Allocates(Blocks(Depth, Makes(Step)) \union Blocks(0, kept'))
      PROVE  HeapKept
  <2>1. Allocates(Blocks(Depth, f.own) \union Blocks(0, kept'))
    <3>1. Blocks(Depth, f.own) = Blocks(Depth, Top.own) \union Blocks(Depth, Makes(Step))
      <4>0. Depth \in Nat
        BY <1>2
      <4>1. \A bt : Blocks(Depth, Top.own \union bt) = Blocks(Depth, Top.own) \union Blocks(Depth, bt)
        BY ONLY <4>0, BlocksOf
      <4> QED BY <1>8, <4>1
    <3> QED BY <1>2, <1>8, <3>1 DEF Allocates
  <2>2. f.own = Made(s, f.pc) /\ (f.try <=> InTry(s, f.pc)) /\ Top.own \subseteq f.own
    BY <1>2, <1>8
  <2>3. Brought(s, f.pc) \subseteq kept'
    BY <1>2, <1>6, <1>8
  <2>4. \/ SetTop(f) /\ Fresh(s, f.pc) \subseteq f.views
        \/ SetTopGrown(f) /\ Fresh(s, f.pc) = {}
    BY <1>2, <1>8
  <2>5. s = Script[f.fn] /\ ErrorSafe(f)
    BY <1>8 DEF ErrorSafe
  <2> HIDE DEF s
  <2> QED BY <1>2, <1>8, <2>1, <2>2, <2>3, <2>4, <2>5, HeapTop
<1>9. Makes(Step) = CASE Step.do = "alloc" -> Step.of [] Step.do = "call" -> Step.out [] OTHER -> {}
  BY DEF Makes
<1>10. Blocks(Depth, {}) = {} /\ (GrowsSafely => live = live \union Blocks(0, kept))
  BY <1>2, BlocksOf
<1>11. Step.do \in {"grow", "first"} => Step.of \subseteq Scratch /\ Blocks(Depth, Step.of) = Blocks(0, Step.of)
  <2>1. Step.do \in {"grow", "first"} => Step.of \subseteq Scratch
    BY <1>2 DEF Disciplined
  <2> QED BY <2>1 DEF Blocks, Block
<1>12. kept' = kept => Blocks(0, kept') = Blocks(0, kept)
  OBVIOUS
<1>13. ASSUME live' = live, kept' = kept
       PROVE  Allocates(Blocks(0, kept')) /\ Allocates(Blocks(Depth, {}) \union Blocks(0, kept'))
  BY <1>10, <1>12, <1>13 DEF Allocates
<1>14. CASE TryStep
  <2> DEFINE f == [Advanced EXCEPT !.try = TRUE]
  <2>1. Step.do = "try" /\ SetTop(f) /\ live' = live /\ kept' = kept
    BY <1>14 DEF TryStep, At
  <2>2. Makes(Step) = {}
    BY <1>9, <2>1
  <2>3. /\ f \in FrameSet /\ f.fn = Top.fn /\ f.pc = Top.pc + 1 /\ f.error = "none" /\ f.try = TRUE
        /\ f.own = Top.own \union Makes(Step) /\ f.views = Top.views
    BY <1>3, <1>4, <2>2 DEF FrameSet
  <2> HIDE DEF f, s
  <2> QED BY <1>2, <1>6, <1>8, <1>13, <2>1, <2>2, <2>3
<1>15. CASE AllocStep
  <2> DEFINE f == [Advanced EXCEPT !.own = @ \union Step.of]
  <2>1. Step.do = "alloc" /\ kept' = kept /\ Makes(Step) = Step.of
    BY <1>9, <1>15 DEF AllocStep, At
  <2>2. CASE live' = live \union Blocks(Depth, Step.of) /\ SetTopGrown(f)
    <3>1. /\ f \in FrameSet /\ f.fn = Top.fn /\ f.pc = Top.pc + 1 /\ f.error = "none" /\ f.try = Top.try
          /\ f.own = Top.own \union Makes(Step)
      BY <1>3, <1>4, <2>1 DEF FrameSet
    <3>2. Allocates(Blocks(Depth, Makes(Step)) \union Blocks(0, kept'))
      BY <1>10, <1>12, <2>1, <2>2 DEF Allocates
    <3> HIDE DEF f, s
    <3> QED BY <1>6, <1>8, <2>1, <2>2, <3>1, <3>2
  <2>3. CASE Top.fn \in MayFail /\ SetTop(Raised("out of memory")) /\ live' = live
    <3> HIDE DEF s
    <3> QED BY <1>5, <1>6, <1>7, <1>13, <2>1, <2>3 DEF Errors, ErrorSafe
  <2> QED BY <1>15, <2>2, <2>3 DEF AllocStep
<1>16. CASE GrowStep
  <2>1. Step.do = "grow" /\ Makes(Step) = {}
    BY <1>9, <1>16 DEF GrowStep, At
  <2>2. CASE /\ Top.fn \in MayFail /\ SetTop(Raised("out of memory"))
             /\ live' = live \ Blocks(Depth, Step.of \intersect kept) /\ kept' = kept
    <3>1. ~GrowsSafely
      BY <1>2, <2>1, <2>2 DEF GrowsSafely
    <3> HIDE DEF s
    <3> QED BY <1>5, <1>6, <1>7, <2>2, <3>1 DEF Errors, ErrorSafe, Allocates
  <2>3. CASE Step.of \subseteq kept /\ SetTop(Advanced) /\ live' = live /\ kept' = kept
    <3> HIDE DEF s
    <3> QED BY <1>2, <1>3, <1>4, <1>6, <1>8, <1>13, <2>1, <2>3
  <2>4. CASE live' = live \union Blocks(Depth, Step.of) /\ kept' = kept \union Step.of /\ SetTopGrown(Advanced)
    <3>1. kept' \subseteq Scratch /\ kept \subseteq kept'
      BY <1>6, <1>11, <2>1, <2>4
    <3>2. Allocates(Blocks(Depth, Makes(Step)) \union Blocks(0, kept'))
      <4>1. \A bt : Blocks(0, kept \union bt) = Blocks(0, kept) \union Blocks(0, bt)
        BY BlocksOf
      <4>2. live' = live \union Blocks(0, Step.of) /\ Blocks(0, kept') = Blocks(0, kept) \union Blocks(0, Step.of)
        BY <1>11, <2>1, <2>4, <4>1
      <4> QED BY <1>2, <1>10, <2>1, <4>2 DEF Allocates
    <3> HIDE DEF s
    <3> QED BY <1>2, <1>3, <1>4, <1>8, <1>10, <2>1, <2>4, <3>1, <3>2
  <2> QED BY <1>16, <2>2, <2>3, <2>4 DEF GrowStep
<1>17. CASE FirstStep
  <2>1. Step.do = "first" /\ Makes(Step) = {}
    BY <1>9, <1>17 DEF FirstStep, At
  <2>2. CASE Step.of \subseteq kept /\ SetTop(Advanced) /\ live' = live /\ kept' = kept
    <3> HIDE DEF s
    <3> QED BY <1>2, <1>3, <1>4, <1>6, <1>8, <1>13, <2>1, <2>2
  <2>3. CASE live' = live \union Blocks(Depth, Step.of) /\ kept' = kept \union Step.of /\ SetTopGrown(Advanced)
    <3>1. kept' \subseteq Scratch /\ kept \subseteq kept'
      BY <1>6, <1>11, <2>1, <2>3
    <3>2. Allocates(Blocks(Depth, Makes(Step)) \union Blocks(0, kept'))
      <4>1. \A bt : Blocks(0, kept \union bt) = Blocks(0, kept) \union Blocks(0, bt)
        BY BlocksOf
      <4>2. live' = live \union Blocks(0, Step.of) /\ Blocks(0, kept') = Blocks(0, kept) \union Blocks(0, Step.of)
        BY <1>11, <2>1, <2>3, <4>1
      <4> QED BY <1>2, <1>10, <2>1, <4>2 DEF Allocates
    <3> HIDE DEF s
    <3> QED BY <1>2, <1>3, <1>4, <1>8, <1>10, <2>1, <2>3, <3>1, <3>2
  <2>4. ASSUME Top.fn \in MayFail, SetTop(Raised("out of memory")), NEW b \in Step.of,
               live' = live \union Blocks(Depth, {b}), kept' = kept \union {b}
        PROVE  HeapKept
    <3>1. kept' \subseteq Scratch /\ kept \subseteq kept' /\ b \in Scratch
      BY <1>6, <1>11, <2>1, <2>4
    <3>2. Allocates(Blocks(0, kept'))
      <4>1. Blocks(Depth, {b}) = Blocks(0, {b})
        BY <3>1 DEF Blocks, Block
      <4>2. \A bt : Blocks(0, kept \union bt) = Blocks(0, kept) \union Blocks(0, bt)
        BY BlocksOf
      <4> QED BY <1>2, <2>4, <4>1, <4>2 DEF Allocates
    <3> HIDE DEF s
    <3> QED BY <1>5, <1>7, <2>4, <3>1, <3>2 DEF Errors, ErrorSafe
  <2> QED BY <1>17, <2>2, <2>3, <2>4 DEF FirstStep
<1>18. CASE ViewStep
  <2> DEFINE f == [Advanced EXCEPT !.views = @ \union Step.of]
  <2>1. Step.do = "view" /\ SetTop(f) /\ live' = live /\ kept' = kept
    BY <1>18 DEF ViewStep, At
  <2>2. Makes(Step) = {}
    BY <1>9, <2>1
  <2>3. /\ f \in FrameSet /\ f.fn = Top.fn /\ f.pc = Top.pc + 1 /\ f.error = "none" /\ f.try = Top.try
        /\ f.own = Top.own \union Makes(Step) /\ f.views = Top.views \union Step.of
    BY <1>3, <1>4, <2>2 DEF FrameSet
  <2> HIDE DEF f, s
  <2> QED BY <1>2, <1>6, <1>8, <1>13, <2>1, <2>2, <2>3
<1>19. CASE UseStep
  <2>1. Step.do \in {"use", "touch"} /\ SetTop(Advanced) /\ live' = live /\ kept' = kept
    BY <1>19 DEF UseStep, At
  <2>2. Makes(Step) = {}
    BY <1>9, <2>1
  <2> HIDE DEF s
  <2> QED BY <1>2, <1>3, <1>4, <1>6, <1>8, <1>13, <2>1, <2>2
<1>20. CASE UserStep
  <2>1. Step.do = "user" /\ live' = live /\ kept' = kept
    BY <1>20 DEF UserStep, At
  <2>2. Makes(Step) = {}
    BY <1>9, <2>1
  <2>3. CASE SetTopGrown(Advanced)
    <3> HIDE DEF s
    <3> QED BY <1>2, <1>3, <1>4, <1>6, <1>8, <1>13, <2>1, <2>2, <2>3
  <2>4. CASE SetTop(Raised("user"))
    <3>1. Top.try \/ Top.own = {}
      BY <1>1, <2>1, RaisesSafely
    <3> HIDE DEF s
    <3> QED BY <1>5, <1>6, <1>7, <1>13, <2>1, <2>4, <3>1 DEF Errors, ErrorSafe
  <2> QED BY <1>20, <2>3, <2>4 DEF UserStep
<1>21. CASE CallStep
  <2> DEFINE f == [Advanced EXCEPT !.own = @ \union Step.out]
  <2>1. Step.do = "call" /\ kept' = kept /\ Makes(Step) = Step.out
    BY <1>9, <1>21 DEF CallStep, At
  <2>2. CASE live' = live \union Blocks(Depth, Step.out) /\ SetTopGrown(f)
    <3>1. /\ f \in FrameSet /\ f.fn = Top.fn /\ f.pc = Top.pc + 1 /\ f.error = "none" /\ f.try = Top.try
          /\ f.own = Top.own \union Makes(Step)
      BY <1>3, <1>4, <2>1 DEF FrameSet
    <3>2. Allocates(Blocks(Depth, Makes(Step)) \union Blocks(0, kept'))
      BY <1>10, <1>12, <2>1, <2>2 DEF Allocates
    <3> HIDE DEF f, s
    <3> QED BY <1>6, <1>8, <2>1, <2>2, <3>1, <3>2
  <2>3. CASE SetTop(Raised("C++")) /\ live' = live
    <3>1. Top.try \/ Top.own = {}
      BY <1>1, <2>1, RaisesSafely
    <3> HIDE DEF s
    <3> QED BY <1>5, <1>6, <1>7, <1>13, <2>1, <2>3, <3>1 DEF Errors, ErrorSafe
  <2> QED BY <1>21, <2>2, <2>3 DEF CallStep
<1> QED BY <1>14, <1>15, <1>16, <1>17, <1>18, <1>19, <1>20, <1>21

LEMMA HeapNext ==
  ASSUME StackInv, HeapInv, Next
  PROVE  HeapKept
<1>1. ASSUME NEW fn \in Functions \union Nested, Begin(fn) PROVE HeapKept
  <2>1. fn \in DOMAIN Script /\ frames' = <<Frame(fn, base)>> \o frames /\ UNCHANGED <<live, kept>>
    BY <1>1, ScriptAssumption DEF Begin
  <2> QED BY <2>1, HeapBegins
<1>2. ASSUME NEW cb \in DOMAIN Callback, Enter(cb) PROVE HeapKept
  <2>1. cb \in DOMAIN Script /\ frames' = <<Frame(cb, base)>> \o frames /\ UNCHANGED <<live, kept>>
    BY <1>2, ScriptAssumption DEF Enter
  <2> QED BY <2>1, HeapBegins
<1>3. CASE ReleaseStream
  <2>1. frames = <<>> /\ frames' = <<>> /\ kept' = kept \ {"colIn", "colOut"}
        /\ live' = live \ {<<0, "colIn">>, <<0, "colOut">>}
    BY <1>3 DEF ReleaseStream
  <2>2. DOMAIN frames = {} /\ DOMAIN frames' = {} /\ Len(frames') = 0
    BY <2>1
  <2>3. OwnedBlocks = Blocks(0, kept) /\ OwnedBlocks' = Blocks(0, kept \ {"colIn", "colOut"})
    <3>1. Blocks(0, kept)' = Blocks(0, kept \ {"colIn", "colOut"})
      BY <2>1 DEF Blocks, Block
    <3> QED BY <2>2, <3>1, OwnedMembers, OwnedNext
  <2>4. Blocks(0, kept) = {<<0, b>> : b \in kept \ {Cpp}} /\ Blocks(0, kept \ {"colIn", "colOut"})
          = {<<0, b>> : b \in (kept \ {"colIn", "colOut"}) \ {Cpp}}
    BY DEF Blocks, Block
  <2>5. OwnedBlocks' = OwnedBlocks \ {<<0, "colIn">>, <<0, "colOut">>}
    <3>1. ASSUME NEW x
          PROVE  x \in {<<0, b>> : b \in kept \ {Cpp}} \ {<<0, "colIn">>, <<0, "colOut">>}
                   <=> x \in {<<0, b>> : b \in (kept \ {"colIn", "colOut"}) \ {Cpp}}
      <4>1. ASSUME NEW b, x = <<0, b>> PROVE x[2] = b
        BY <4>1
      <4> QED BY <4>1
    <3> QED BY <2>3, <2>4, <3>1
  <2>6. {"opIn", "opOut"} \subseteq kept' /\ kept' \subseteq Scratch
    BY <2>1 DEF HeapInv
  <2>7. ViewsFresh'
    BY <2>1 DEF ViewsFresh, Running
  <2>8. HeapInv'
    BY <2>1, <2>2, <2>5, <2>6, <2>7 DEF HeapInv, OwnedLive, GrowsSafely
  <2>9. Leaked' \subseteq Leaked
    BY <2>1, <2>5 DEF Leaked
  <2> QED BY <2>8, <2>9 DEF HeapKept
<1>4. ASSUME Running, ~Ended, kept' = kept, live' = live, NEW f \in FrameSet, f.fn = Top.fn,
             f.own = Top.own, f.try = Top.try, ErrorSafe(f),
             \/ f.pc = Top.pc /\ SetTopGrown(f) /\ Step.do = "driver"
             \/ f.pc = Top.pc /\ SetTop(f) /\ f.error # "none"
             \/ f.pc = Top.pc + 1 /\ SetTopGrown(f) /\ Step.do = "driver"
      PROVE  HeapKept
  <2>1. /\ frames # <<>> /\ Step = Script[Top.fn][Top.pc] /\ Scripted(Top)
        /\ GrowsSafely => Blocks(Depth, Top.own) \subseteq live /\ Blocks(0, kept) \subseteq live
        /\ Made(Script[Top.fn], Top.pc + 1) = Top.own \union Makes(Step)
        /\ InTry(Script[Top.fn], Top.pc + 1) <=> Top.try \/ Step.do = "try"
        /\ Brought(Script[Top.fn], Top.pc + 1)
             = Brought(Script[Top.fn], Top.pc) \union (IF Step.do \in {"grow", "first"} THEN Step.of ELSE {})
        /\ Step.do \notin {"view", "use", "touch"} => Fresh(Script[Top.fn], Top.pc + 1) = {}
    BY <1>4, HeapNow
  <2>2. Allocates(Blocks(Depth, f.own) \union Blocks(0, kept'))
    BY <1>4, <2>1 DEF Allocates
  <2>3. Step.do = "driver" => Makes(Step) = {}
    BY DEF Makes
  <2>4. f.own = Made(Script[f.fn], f.pc) /\ (f.try <=> InTry(Script[f.fn], f.pc))
        /\ Brought(Script[f.fn], f.pc) \subseteq kept'
    BY <1>4, <2>1, <2>3 DEF Scripted
  <2>5. kept' \subseteq Scratch /\ kept \subseteq kept'
    BY <1>4 DEF HeapInv
  <2>6. \/ SetTop(f) /\ f.error # "none"
        \/ SetTopGrown(f) /\ (Script[f.fn][f.pc].do \in {"user", "driver"} \/ Fresh(Script[f.fn], f.pc) = {})
    BY <1>4, <2>1
  <2> QED BY <1>4, <2>1, <2>2, <2>4, <2>5, <2>6, HeapTop
<1>5. CASE DriverStep
  <2> DEFINE f == [Top EXCEPT !.cpp = TRUE]
  <2>1. Running /\ ~Ended /\ Step.do = "driver" /\ SetTopGrown(f) /\ live' = live /\ kept' = kept
    BY <1>5 DEF DriverStep, At
  <2>2. Top \in FrameSet /\ Top.error = "none"
    BY <2>1, NewFrames DEF Running
  <2>3. f \in FrameSet /\ f.fn = Top.fn /\ f.pc = Top.pc /\ f.own = Top.own /\ f.try = Top.try /\ f.error = "none"
    BY <2>2 DEF FrameSet
  <2> HIDE DEF f
  <2> QED BY <1>4, <2>1, <2>3 DEF ErrorSafe
<1>6. ASSUME InDriver PROVE Running /\ ~Ended /\ Step.do = "driver" /\ Top \in FrameSet /\ Top.error = "none"
  <2>1. frames # <<>> /\ Top.cpp /\ Running /\ Top.error = "none"
    BY <1>6 DEF InDriver, Running
  <2>2. Framed(frames, 1) /\ Top = frames[1] /\ Top \in FrameSet
    BY <2>1, TopType
  <2>3. Top.pc \in Nat /\ Len(Script[Top.fn]) \in Nat
    BY <2>2, ScriptAssumption DEF FrameSet
  <2> QED BY <2>1, <2>2, <2>3 DEF Framed, Ended, Step
<1>7. CASE DriverEnds
  <2> DEFINE f == [Advanced EXCEPT !.cpp = FALSE]
  <2>1. Running /\ ~Ended /\ Step.do = "driver" /\ SetTopGrown(f) /\ live' = live /\ kept' = kept
    BY <1>6, <1>7 DEF DriverEnds
  <2>2. Top \in FrameSet /\ Top.error = "none" /\ Advanced \in FrameSet
    BY <1>6, <1>7, NewFrames DEF DriverEnds
  <2>3. /\ f \in FrameSet /\ f.fn = Top.fn /\ f.pc = Top.pc + 1 /\ f.own = Top.own /\ f.try = Top.try
        /\ f.error = "none"
    BY <2>2 DEF FrameSet, Advanced
  <2> HIDE DEF f
  <2> QED BY <1>4, <2>1, <2>3 DEF ErrorSafe
<1>8. CASE DriverThrows
  <2> DEFINE f == [Top EXCEPT !.error = ErrorOf(Top), !.cpp = FALSE]
  <2>1. Running /\ ~Ended /\ Step.do = "driver" /\ SetTop(f) /\ live' = live /\ kept' = kept
    BY <1>6, <1>8 DEF DriverThrows
  <2>2. Top \in FrameSet
    BY <1>6, <1>8 DEF DriverThrows
  <2>3. ErrorOf(Top) \in Errors /\ ErrorOf(Top) # "none"
    BY <2>2 DEF ErrorOf, Errors, FrameSet
  <2>4. /\ f \in FrameSet /\ f.fn = Top.fn /\ f.pc = Top.pc /\ f.own = Top.own /\ f.try = Top.try
        /\ f.error # "none"
    BY <2>2, <2>3 DEF FrameSet
  <2>5. Top.try \/ Top.own = {}
    BY <2>1, RaisesSafely
  <2> HIDE DEF f
  <2> QED BY <1>4, <2>1, <2>4, <2>5 DEF ErrorSafe
<1>9. ASSUME Ended \/ (frames # <<>> /\ Top.error # "none")
      PROVE  /\ frames # <<>> /\ Len(frames) \in Nat \ {0} /\ Top \in FrameSet /\ Scripted(Top)
             /\ Framed(frames, 1) /\ Top = frames[1] /\ Top.fn \in DOMAIN Script
             /\ Tail(frames) \in Seq(FrameSet) /\ Len(Tail(frames)) = Len(frames) - 1
             /\ \A i \in 1 .. Len(Tail(frames)) : Tail(frames)[i] = frames[i + 1]
  <2>1. frames # <<>>
    BY <1>9 DEF Ended
  <2>2. Len(frames) \in Nat \ {0} /\ Top = frames[1] /\ Top \in FrameSet /\ Framed(frames, 1)
    BY <2>1, TopType
  <2>3. Scripted(Top) /\ Top.fn \in DOMAIN Script
    BY <2>2 DEF HeapInv, FrameSet
  <2>4. frames \in Seq(FrameSet)
    BY DEF StackInv
  <2> HIDE DEF FrameSet
  <2>5. /\ Tail(frames) \in Seq(FrameSet) /\ Len(Tail(frames)) = Len(frames) - 1
        /\ \A i \in 1 .. Len(Tail(frames)) : Tail(frames)[i] = frames[i + 1]
    BY <2>1, <2>4
  <2> QED BY <2>1, <2>2, <2>3, <2>5
<1>10. ASSUME Len(frames) > 1, frames # <<>>
       PROVE  /\ frames[2] \in FrameSet /\ Scripted(frames[2]) /\ frames[2].error = "none"
              /\ frames[2].pc \in 1 .. Len(Script[frames[2].fn])
              /\ Script[frames[2].fn][frames[2].pc].do \in {"user", "driver"}
              /\ frames[2].try \/ frames[2].own = {}
  <2>1. PICK j : j = 2
    OBVIOUS
  <2>2. j \in 1 .. Len(frames) /\ j > 1
    BY <1>10, <2>1, TopType
  <2>3. frames[j] \in FrameSet /\ Scripted(frames[j]) /\ Framed(frames, j)
    BY <2>2 DEF StackInv, HeapInv
  <2>4. frames[j].fn \in DOMAIN Script
    BY <2>3 DEF FrameSet
  <2>5. /\ frames[j].error = "none" /\ frames[j].pc \in 1 .. Len(Script[frames[j].fn])
        /\ Script[frames[j].fn][frames[j].pc].do \in {"user", "driver"}
    <3>1. Len(Script[frames[j].fn]) \in Nat
      BY <2>4, ScriptAssumption
    <3> QED BY <2>2, <2>3, <3>1 DEF Framed
  <2>6. frames[j].try \/ frames[j].own = {}
    <3>1. Disciplined(Script[frames[j].fn])
      BY <2>4, ScriptAssumption
    <3>2. Made(Script[frames[j].fn], frames[j].pc) = {} \/ InTry(Script[frames[j].fn], frames[j].pc)
      BY <2>5, <3>1 DEF Disciplined
    <3> QED BY <2>3, <3>2 DEF Scripted
  <2> QED BY <2>1, <2>3, <2>5, <2>6
<1>11. ASSUME Ended \/ (frames # <<>> /\ Top.error # "none"),
              frames' \in Seq(FrameSet), Len(frames') = Len(frames) - 1,
              \A i \in 1 .. Len(frames') :
                /\ frames'[i].fn = frames[i + 1].fn /\ frames'[i].pc = frames[i + 1].pc
                /\ frames'[i].own = frames[i + 1].own /\ frames'[i].try = frames[i + 1].try
                /\ i > 1 => frames'[i].error = frames[i + 1].error,
              live' \subseteq live, live \ live' \subseteq Blocks(Depth, Top.own),
              live' \intersect Blocks(Depth, Top.own) \subseteq LeftByAllocation, UNCHANGED kept
       PROVE  HeapKept
  <2>1. frames # <<>> /\ Len(frames) \in Nat \ {0}
    BY <1>9, <1>11
  <2>2. ASSUME NEW i \in 1 .. Len(frames') PROVE ErrorSafe(frames'[i])
    <3>1. CASE i = 1
      <4>1. Len(frames) > 1
        BY <1>11, <2>1, <3>1
      <4>2. 1 \in 1 .. Len(frames') /\ 1 + 1 = 2
        BY <3>1
      <4>3. frames'[1].own = frames[2].own /\ frames'[1].try = frames[2].try
        BY <1>11, <4>2
      <4>4. frames[2].try \/ frames[2].own = {}
        BY <1>10, <2>1, <4>1
      <4> QED BY <3>1, <4>3, <4>4 DEF ErrorSafe
    <3>2. CASE i > 1
      <4>1. PICK j : j = i + 1
        OBVIOUS
      <4>2. j \in 1 .. Len(frames)
        BY <1>11, <2>1, <4>1
      <4>3. Scripted(frames[j])
        BY <4>2 DEF HeapInv
      <4> QED BY <1>11, <2>1, <3>2, <4>1, <4>3 DEF Scripted, ErrorSafe
    <3> QED BY <1>11, <2>1, <3>1, <3>2
  <2>3. ASSUME frames' # <<>> PROVE Step'.do \in {"user", "driver"}
    <3>1. Len(frames') # 0 /\ Top' = frames'[1]
      BY <1>11, <2>3, EmptySeq DEF Top
    <3>2. Len(frames) > 1 /\ 1 \in 1 .. Len(frames')
      BY <1>11, <2>1, <3>1
    <3>3. Top'.fn = frames[2].fn /\ Top'.pc = frames[2].pc
      BY <1>11, <3>1, <3>2
    <3> QED BY <1>10, <2>1, <3>2, <3>3 DEF Step
  <2>4. \A i \in 1 .. Len(frames') :
          /\ frames'[i].fn = frames[i + 1].fn /\ frames'[i].pc = frames[i + 1].pc
          /\ frames'[i].own = frames[i + 1].own /\ frames'[i].try = frames[i + 1].try
    BY <1>11
  <2> QED BY <1>11, <2>1, <2>2, <2>3, <2>4, HeapEnds
<1>12. CASE Leave
  <2>1. (Ended \/ (frames # <<>> /\ Top.error # "none")) /\ kept' = kept /\ live' = live \ Freed(Top)
    BY <1>12 DEF Leave
  <2> DEFINE t == Tail(frames)
  <2>2. frames' = t \/ (Len(frames) > 1 /\ frames' = [t EXCEPT ![1].error = Top.error])
    BY <1>12 DEF Leave, Depth
  <2>3. /\ frames # <<>> /\ Len(frames) \in Nat \ {0} /\ Top \in FrameSet /\ Scripted(Top)
        /\ t \in Seq(FrameSet) /\ Len(t) = Len(frames) - 1
        /\ \A i \in 1 .. Len(t) : t[i] = frames[i + 1]
    BY <1>9, <2>1
  <2> HIDE DEF t
  <2>4. /\ frames' \in Seq(FrameSet) /\ Len(frames') = Len(t)
        /\ \A i \in 1 .. Len(t) :
             /\ frames'[i].fn = t[i].fn /\ frames'[i].pc = t[i].pc
             /\ frames'[i].own = t[i].own /\ frames'[i].try = t[i].try
             /\ i > 1 => frames'[i].error = t[i].error
    <3>1. CASE frames' = t
      BY <2>3, <3>1
    <3>2. CASE Len(frames) > 1 /\ frames' = [t EXCEPT ![1].error = Top.error]
      <4>1. 1 \in 1 .. Len(t) /\ t[1] \in FrameSet
        BY <2>3, <3>2
      <4> DEFINE g == [t[1] EXCEPT !.error = Top.error]
      <4>2. g \in FrameSet /\ g.fn = t[1].fn /\ g.pc = t[1].pc /\ g.own = t[1].own /\ g.try = t[1].try
        BY <2>3, <4>1 DEF FrameSet
      <4>3. frames' = [t EXCEPT ![1] = g]
        BY <3>2
      <4> HIDE DEF g, FrameSet
      <4> QED BY <2>3, <4>1, <4>2, <4>3
    <3> QED BY <2>2, <3>1, <3>2
  <2>5. /\ Freed(Top) \subseteq Blocks(Depth, Top.own)
        /\ Blocks(Depth, Top.own) \ Freed(Top) \subseteq LeftByAllocation
    <3>1. CASE Top.error = "none" \/ Top.try
      BY <3>1 DEF Freed
    <3>2. CASE Top.error = "out of memory" /\ ~Top.try
      BY <2>3, <3>2 DEF Freed, LeftByAllocation
    <3>3. CASE Top.own = {}
      BY <3>3 DEF Freed, Blocks
    <3> QED BY <2>3, <3>1, <3>2, <3>3 DEF Scripted, ErrorSafe
  <2>6. /\ live' \subseteq live /\ live \ live' \subseteq Blocks(Depth, Top.own)
        /\ live' \intersect Blocks(Depth, Top.own) \subseteq LeftByAllocation
    BY <2>1, <2>5
  <2> HIDE DEF FrameSet
  <2> QED BY <1>11, <2>1, <2>3, <2>4, <2>6
<1>13. CASE LeaveCallback
  <2>1. /\ (Ended \/ (frames # <<>> /\ Top.error # "none")) /\ IsCallback(Top)
        /\ kept' = kept /\ live' = live
    BY <1>13 DEF LeaveCallback
  <2> DEFINE t == Tail(frames)
  <2>2. frames' = [t EXCEPT ![1].failed = Top.error]
    BY <1>13 DEF LeaveCallback
  <2>3. /\ frames # <<>> /\ Len(frames) \in Nat \ {0} /\ Top \in FrameSet /\ Scripted(Top)
        /\ Framed(frames, 1) /\ Top = frames[1] /\ Top.fn \in DOMAIN Script
        /\ t \in Seq(FrameSet) /\ Len(t) = Len(frames) - 1
        /\ \A i \in 1 .. Len(t) : t[i] = frames[i + 1]
    BY <1>9, <2>1
  <2> HIDE DEF t
  <2>4. 1 \in 1 .. Len(t) /\ t[1] \in FrameSet
    BY <2>1, <2>3 DEF Framed
  <2> DEFINE g == [t[1] EXCEPT !.failed = Top.error]
  <2>5. /\ g \in FrameSet /\ g.fn = t[1].fn /\ g.pc = t[1].pc /\ g.own = t[1].own /\ g.try = t[1].try
        /\ g.error = t[1].error
    BY <2>3, <2>4 DEF FrameSet
  <2>6. frames' = [t EXCEPT ![1] = g]
    BY <2>2
  <2> HIDE DEF g, FrameSet
  <2>7. Top.own = {}
    <3>1. Top.fn \in DOMAIN Callback /\ Top.pc \in 1 .. Len(Script[Top.fn]) + 1
      BY <2>1, <2>3 DEF IsCallback, Framed
    <3>2. Made(Script[Top.fn], Top.pc) = {}
      BY <2>3, <3>1, MadeNames
    <3> QED BY <2>3, <3>2 DEF Scripted
  <2>8. frames' \in Seq(FrameSet) /\ Len(frames') = Len(frames) - 1
    BY <2>3, <2>4, <2>5, <2>6
  <2>9. ASSUME NEW i \in 1 .. Len(frames')
        PROVE  /\ frames'[i].fn = frames[i + 1].fn /\ frames'[i].pc = frames[i + 1].pc
               /\ frames'[i].own = frames[i + 1].own /\ frames'[i].try = frames[i + 1].try
               /\ frames'[i].error = frames[i + 1].error
    <3>1. i \in 1 .. Len(t) /\ t[i] = frames[i + 1]
      BY <2>3, <2>8
    <3> QED BY <2>3, <2>4, <2>5, <2>6, <3>1
  <2>10. Blocks(Depth, Top.own) = {}
    BY <2>7 DEF Blocks
  <2> QED BY <1>11, <2>1, <2>8, <2>9, <2>10
<1> QED BY <1>1, <1>2, <1>3, <1>5, <1>7, <1>8, <1>12, <1>13, HeapStep DEF Next

LEMMA HeapInvariant == Spec => [](StackInv /\ HeapInv)
<1>1. Init => HeapInv
  <2> SUFFICES ASSUME Init PROVE HeapInv
    OBVIOUS
  <2>1. frames = <<>> /\ kept = {"opIn", "opOut"} /\ live = {<<0, b>> : b \in kept}
    BY DEF Init
  <2>2. DOMAIN frames = {} /\ Len(frames) = 0
    BY <2>1
  <2>3. Blocks(0, kept) = {<<0, b>> : b \in kept}
    BY <2>1 DEF Blocks, Block, Cpp
  <2>4. live = OwnedBlocks
    BY <2>1, <2>2, <2>3, OwnedMembers
  <2>5. kept \subseteq Scratch
    BY <2>1 DEF Scratch
  <2> QED BY <2>1, <2>2, <2>4, <2>5 DEF HeapInv, ViewsFresh, Running, OwnedLive
<1>2. StackInv /\ HeapInv /\ [Next]_vars => HeapInv'
  <2> SUFFICES ASSUME StackInv, HeapInv, [Next]_vars PROVE HeapInv'
    OBVIOUS
  <2>1. CASE Next
    BY <2>1, HeapNext DEF HeapKept
  <2>2. CASE UNCHANGED vars
    <3>1. frames' = frames /\ live' = live /\ kept' = kept
      BY <2>2 DEF vars
    <3>2. OwnedBlocks' = OwnedBlocks
      BY <3>1 DEF OwnedBlocks, Depth, Blocks, Block
    <3>3. ASSUME NEW i \in 1 .. Len(frames)' PROVE Scripted(frames[i])'
      BY <3>1 DEF HeapInv, Scripted
    <3>4. ViewsFresh'
      BY <3>1 DEF HeapInv, ViewsFresh, Running, Ended, Step, Top
    <3> QED BY <3>1, <3>2, <3>3, <3>4 DEF HeapInv, OwnedLive, GrowsSafely
  <2> QED BY <2>1, <2>2
<1> QED BY <1>1, <1>2, StackInvariant, PTL DEF Spec

\* A call leaves nothing behind on the heap, however it ends and whatever fails in
\* it, but for the blocks it made before an allocation that failed outside a try
\* block: no step of any call, callback or stream loses another block.
THEOREM CallsLeaveNothing == Spec => NothingLeaks
<1>1. ASSUME StackInv, HeapInv, [Next]_vars
      PROVE  [Leaked' \subseteq Leaked \union LeftByAllocation]_vars
  BY <1>1, HeapNext DEF HeapKept
<1> QED BY <1>1, HeapInvariant, PTL DEF Spec, NothingLeaks

\* What an operator or a call points to stays allocated, unless a larger buffer
\* of an operator cannot be made.
THEOREM BuffersStay == ASSUME GrowsSafely PROVE Spec => []OwnedLive
<1>1. HeapInv => OwnedLive
  BY DEF HeapInv
<1> QED BY <1>1, HeapInvariant, PTL

\* No call reads or writes through a view made before the heap grew, nor gives
\* C++ a block that is not allocated.
THEOREM ViewsStayFresh == ASSUME GrowsSafely PROVE Spec => []UsesFresh
<1>1. StackInv /\ HeapInv => UsesFresh
  <2> SUFFICES ASSUME StackInv, HeapInv, Running, ~Ended
               PROVE  /\ Step.do = "use" => Step.of \subseteq Top.views
                      /\ Step.do \in {"use", "touch", "call"} => Blocks(Depth, Step.of) \subseteq live
    BY DEF UsesFresh
  <2>1. /\ Top.fn \in DOMAIN Script /\ Top.pc \in 1 .. Len(Script[Top.fn]) /\ Step = Script[Top.fn][Top.pc]
        /\ Scripted(Top) /\ Depth \in Nat /\ Disciplined(Script[Top.fn])
        /\ Blocks(Depth, Top.own) \subseteq live /\ Blocks(0, kept) \subseteq live
    BY HeapNow
  <2>2. Step.do = "use" => Step.of \subseteq Top.views
    <3>1. Step.do = "use" => Step.of \subseteq Fresh(Script[Top.fn], Top.pc)
      BY <2>1 DEF Disciplined
    <3> QED BY <3>1 DEF HeapInv, ViewsFresh
  <2>3. ASSUME Step.do \in {"use", "touch", "call"}, NEW b \in Step.of, b # Cpp PROVE Block(Depth, b) \in live
    <3>1. b \in {"opIn", "opOut"} \union Made(Script[Top.fn], Top.pc) \union Brought(Script[Top.fn], Top.pc)
      BY <2>1, <2>3 DEF Disciplined
    <3>2. b \in kept \/ b \in Top.own
      BY <2>1, <3>1 DEF HeapInv, Scripted
    <3>3. CASE b \in kept
      <4>1. b \in Scratch
        BY <3>3 DEF HeapInv
      <4>2. Block(Depth, b) = Block(0, b)
        BY <4>1 DEF Block
      <4> QED BY <2>1, <2>3, <3>3, <4>2 DEF Blocks
    <3>4. CASE b \in Top.own
      BY <2>1, <2>3, <3>4 DEF Blocks
    <3> QED BY <3>2, <3>3, <3>4
  <2>4. Step.do \in {"use", "touch", "call"} => Blocks(Depth, Step.of) \subseteq live
    BY <2>3 DEF Blocks
  <2> QED BY <2>2, <2>4
<1> QED BY <1>1, HeapInvariant, PTL

=============================================================================
