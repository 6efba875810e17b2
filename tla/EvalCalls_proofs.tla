-------------------------- MODULE EvalCalls_proofs --------------------------
(***************************************************************************)
(* Theorems about the calls of the evaluator, for every program, depth and *)
(* nesting: what is saved and restored around a call, wherever it is kept, *)
(* always brings back the state of the caller.                             *)
(***************************************************************************)
EXTENDS EvalCalls, Integers, FiniteSetTheorems, SequenceTheorems, TLAPS

Names == DOMAIN FileOf
Bindings == Functions \cup {None}
Files == {FileOf[n] : n \in Names} \cup {None}
\* A saved binding; NoSave is the empty sequence.
Saves == Seq(Bindings)

HostAct == [kind : {"invoke", "init"}, what : Names, file : Files, exec : Nat,
            saved : Saves, bound : Bindings]
MirActivation == [kind : {"mir"}, what : Names, ctx : Nat, direct : BOOLEAN,
                  framed : BOOLEAN, bound : Bindings]
Activation == HostAct \cup MirActivation
Frame == [ctx : Nat, file : Files, pushed : BOOLEAN, template : Saves]
Context == [root : Names, saved : Seq(Frame), frames : Int]
Modes == {"start", "enter", "entered", "run", "value", "nonconst", "fail", "done"}

TypeOK ==
    /\ callStack \in Seq(Functions)
    /\ currentFile \in Files
    /\ currentExecCtx \in Nat /\ currentMirExecCtx \in Nat
    /\ template \in Bindings
    /\ ctxs \in Seq(Context)
    /\ acts \in Seq(Activation)
    /\ topState \in [Globals -> {"unseen", "visiting", "ready", "failed"}]
    /\ mode \in Modes
    /\ failed \in BOOLEAN

-----------------------------------------------------------------------------
(* The shared state that belongs to the n oldest activations.              *)
IsHost(i) == acts[i].kind \in {"invoke", "init"}
IsMir(i) == acts[i].kind = "mir"

FileAt(n) == IF n = 0 THEN None ELSE FileOf[acts[n].what]

\* MIR contexts are numbered in the order they are made; a function the evaluator
\* invokes goes on in the context of its caller until its own code runs.
CtxAt(n) == CASE n = 0 -> 0
              [] n > 0 /\ IsMir(n) -> acts[n].ctx
              [] n = 1 /\ ~IsMir(n) -> 0
              [] OTHER -> acts[n - 1].ctx

\* h is the youngest of them that is no MIR function.
HostAt(n, h) ==
    IF n = 0 THEN h = 0
    ELSE h \in 1 .. n /\ IsHost(h) /\ \A j \in h + 1 .. n : IsMir(j)

\* v is the binding the youngest of them made that made one.
BindingAt(n, v) ==
    \E m \in 0 .. n :
        /\ \A j \in m + 1 .. n : acts[j].bound = None
        /\ IF m = 0 THEN v = None ELSE acts[m].bound # None /\ v = acts[m].bound

-----------------------------------------------------------------------------
(* The inductive invariant, activation by activation.                      *)

\* Which state of the control the youngest activation is found in.
ModeFits ==
    /\ mode \in {"start", "done"} => Depth = 0
    /\ mode = "enter" => Depth > 0 /\ IsHost(Depth)
    /\ mode \in {"entered", "run"} => Depth > 0 /\ IsMir(Depth)

\* What the evaluator invokes or initialises stands on a MIR function, whose
\* context holds a frame for each MIR function above the host below; what it saved
\* in its own C frame is the state of the activations below.
HostFits(i) ==
    /\ i = 1 => acts[i].kind = "invoke"
    /\ i > 1 => /\ IsMir(i - 1)
                /\ Len(ctxs[acts[i - 1].ctx].saved) = i - 1 - acts[i].exec
    /\ acts[i].file = FileAt(i - 1)
    /\ HostAt(i - 1, acts[i].exec)
    /\ acts[i].kind = "init" => acts[i].saved = NoSave

\* MIR functions that stand on each other share a context, and a host opens the
\* next one; their frame in it holds the state of the activations below.
MirFits(i) ==
    /\ i > 1 /\ acts[i].ctx \in 1 .. Len(ctxs)
    /\ acts[i].ctx = IF IsMir(i - 1) THEN CtxAt(i - 1) ELSE CtxAt(i - 1) + 1
    /\ IsHost(i - 1) => acts[i].what = ctxs[acts[i].ctx].root
    /\ \A g, h \in 1 .. i - 1 : g < h /\ IsMir(g) /\ IsHost(h) => acts[g].ctx < acts[i].ctx
    /\ \A h \in 1 .. i - 1 : HostAt(i, h) =>
         LET frames == ctxs[acts[i].ctx].saved
         IN  /\ i - h \in 1 .. Len(frames)
             /\ frames[i - h].ctx = CtxAt(i - 1)
             /\ frames[i - h].file = FileAt(i - 1)
             /\ frames[i - h].pushed <=> Recorded(acts[i])

ActFits(i) == (IsHost(i) => HostFits(i)) /\ (IsMir(i) => MirFits(i))

\* The state in force is the one of all the activations.
StateInForce ==
    /\ currentFile = FileAt(Depth)
    /\ HostAt(Depth, currentExecCtx)
    /\ currentMirExecCtx = CtxAt(Depth) /\ Len(ctxs) = CtxAt(Depth)
    /\ Depth > 0 /\ IsMir(Depth) => Len(ctxs[acts[Depth].ctx].saved) = Depth - currentExecCtx

StackListsCalls ==
    /\ Len(callStack) = Cardinality(RecordedActs)
    /\ \A i \in RecordedActs : callStack[Rank(i)] = acts[i].what

CallInv ==
    /\ TypeOK /\ ModeFits
    /\ \A i \in 1 .. Depth : ActFits(i)
    /\ StateInForce /\ StackListsCalls

\* The bindings: the one in force, and each saved one.  Only an activation that
\* saved the binding may have made one.
BindingSaved(i, saved) ==
    IF saved = NoSave THEN acts[i].bound = None ELSE BindingAt(i - 1, saved[1])

BindingFits(i) ==
    /\ IsHost(i) => BindingSaved(i, acts[i].saved)
    /\ IsMir(i) => \A h \in 1 .. i - 1 : HostAt(i, h) =>
         BindingSaved(i, ctxs[acts[i].ctx].saved[i - h].template)

TemplateInv ==
    ~failed =>
        /\ BindingAt(Depth, template)
        /\ \A i \in 1 .. Depth : BindingFits(i)

-----------------------------------------------------------------------------
(* Lemmas about the data.                                                  *)

\* A sequence one longer, and one shorter.
LEMMA Appended ==
    ASSUME NEW S, NEW s \in Seq(S), NEW e \in S
    PROVE  /\ Append(s, e) \in Seq(S) /\ Len(Append(s, e)) = Len(s) + 1
           /\ \A i \in 1 .. Len(s) : Append(s, e)[i] = s[i]
           /\ Append(s, e)[Len(s) + 1] = e
OBVIOUS

\* A sequence without its last element.
LEMMA Shortened ==
    ASSUME NEW S, NEW s \in Seq(S), s # <<>>
    PROVE  /\ SubSeq(s, 1, Len(s) - 1) \in Seq(S)
           /\ Len(SubSeq(s, 1, Len(s) - 1)) = Len(s) - 1
           /\ \A i \in 1 .. Len(s) - 1 : SubSeq(s, 1, Len(s) - 1)[i] = s[i]
<1> DEFINE n == Len(s) - 1
<1>1. n \in Nat /\ n \in Int /\ 1 \in Int
  OBVIOUS
<1>2. \A i \in 1 .. n : s[i] \in S
  OBVIOUS
<1> HIDE DEF n
<1>3. /\ SubSeq(s, 1, n) \in Seq(S)
      /\ Len(SubSeq(s, 1, n)) = IF 1 <= n THEN n - 1 + 1 ELSE 0
      /\ \A i \in 1 .. n - 1 + 1 : SubSeq(s, 1, n)[i] = s[1 + i - 1]
  BY <1>1, <1>2, SubSeqProperties
<1>4. /\ n - 1 + 1 = n
      /\ \A i \in 1 .. n : 1 + i - 1 = i
      /\ (IF 1 <= n THEN n - 1 + 1 ELSE 0) = n
  BY <1>1
<1>5. \A i \in 1 .. n : SubSeq(s, 1, n)[i] = s[i]
  BY <1>3, <1>4
<1> QED BY <1>3, <1>4, <1>5 DEF n

\* The members of a set of numbers up to one of them, when the set gets a larger
\* number or loses its largest.
LEMMA Ranks ==
    ASSUME NEW n \in Nat, NEW R \in SUBSET (1 .. n)
    PROVE  /\ Cardinality(R) \in Nat
           /\ \A i \in R : Cardinality({j \in R : j <= i}) \in 1 .. Cardinality(R)
           /\ Cardinality(R \cup {n + 1}) = Cardinality(R) + 1
<1>1. IsFiniteSet(R) /\ Cardinality(R) \in Nat
  <2>1. 1 \in Int /\ n \in Int
    OBVIOUS
  <2>2. IsFiniteSet(1 .. n)
    BY <2>1, FS_Interval
  <2>3. IsFiniteSet(R)
    BY <2>2, FS_Subset
  <2> QED BY <2>3, FS_CardinalityType
<1>2. n + 1 \notin R
  OBVIOUS
<1>3. Cardinality(R \cup {n + 1}) = Cardinality(R) + 1
  BY <1>1, <1>2, FS_AddElement
<1>4. ASSUME NEW i \in R
      PROVE  Cardinality({j \in R : j <= i}) \in 1 .. Cardinality(R)
  <2> DEFINE T == {j \in R : j <= i}
  <2>1. T \in SUBSET R /\ i \in T
    OBVIOUS
  <2>2. IsFiniteSet(T) /\ Cardinality(T) <= Cardinality(R) /\ Cardinality(T) \in Nat
    BY <1>1, <2>1, FS_Subset, FS_CardinalityType
  <2>3. Cardinality(T) # 0
    BY <2>1, <2>2, FS_EmptySet
  <2> HIDE DEF T
  <2>4. Cardinality(T) \in 1 .. Cardinality(R)
    BY <1>1, <2>2, <2>3
  <2> QED BY <2>4 DEF T
<1> QED BY <1>1, <1>3, <1>4

\* An activation is as before in everything the others depend on.
Alike(i) ==
    /\ acts'[i].kind = acts[i].kind /\ acts'[i].what = acts[i].what
    /\ acts'[i].ctx = acts[i].ctx /\ acts'[i].bound = acts[i].bound
    /\ IsHost(i) => acts'[i] = acts[i]

\* What the oldest activations say does not depend on the younger ones.
LEMMA PrefixKept ==
    ASSUME NEW n \in Nat, \A i \in 1 .. n : Alike(i)
    PROVE  \A m \in 0 .. n :
             /\ FileAt(m)' = FileAt(m)
             /\ CtxAt(m)' = CtxAt(m)
             /\ \A h : HostAt(m, h)' <=> HostAt(m, h)
             /\ \A v : BindingAt(m, v)' <=> BindingAt(m, v)
<1> TAKE m \in 0 .. n
<1>1. FileAt(m)' = FileAt(m)
  BY DEF Alike, FileAt
<1>2. CtxAt(m)' = CtxAt(m)
  BY DEF Alike, CtxAt, IsMir
<1>3. \A h : HostAt(m, h)' <=> HostAt(m, h)
  BY DEF Alike, HostAt, IsHost, IsMir
<1>4. \A v : BindingAt(m, v)' <=> BindingAt(m, v)
  BY DEF Alike, BindingAt
<1> QED BY <1>1, <1>2, <1>3, <1>4

\* There is one youngest activation that is no MIR function.
LEMMA OneHost ==
    ASSUME TypeOK, NEW n \in 0 .. Depth, NEW g, NEW h, HostAt(n, g), HostAt(n, h)
    PROVE  g = h
BY DEF HostAt, IsHost, IsMir, Depth, TypeOK

-----------------------------------------------------------------------------
(* The steps of the evaluator reduce to four effects on the activations.   *)

\* What does not depend on the activations and their contexts.
RestTyped ==
    /\ template' \in Bindings
    /\ topState' \in [Globals -> {"unseen", "visiting", "ready", "failed"}]
    /\ mode' \in Modes
    /\ failed' \in BOOLEAN

\* A call that is recorded, or ends, changes the call stack accordingly.
LEMMA StackPushed ==
    ASSUME TypeOK, StackListsCalls, NEW n \in Nat, Depth = n, Depth' = n + 1,
           \A i \in 1 .. n : Recorded(acts[i])' <=> Recorded(acts[i]),
           \A i \in 1 .. n : acts'[i] = acts[i],
           NEW f, acts'[n + 1].what = f,
           Recorded(acts[n + 1])' => f \in Functions,
           callStack' = IF Recorded(acts[n + 1])' THEN Append(callStack, f) ELSE callStack
    PROVE  StackListsCalls'
<1> DEFINE R == RecordedActs
<1>1. R \in SUBSET (1 .. n)
  BY DEF RecordedActs
<1>2. /\ Cardinality(R) \in Nat
      /\ \A i \in R : Cardinality({j \in R : j <= i}) \in 1 .. Cardinality(R)
      /\ Cardinality(R \cup {n + 1}) = Cardinality(R) + 1
  BY <1>1, Ranks
<1>3. Len(callStack) = Cardinality(R)
  BY DEF StackListsCalls
<1>4. RecordedActs' = IF Recorded(acts[n + 1])' THEN R \cup {n + 1} ELSE R
  <2>1. RecordedActs' = {i \in 1 .. n + 1 : Recorded(acts[i])'}
    BY DEF RecordedActs
  <2>2. \A i \in 1 .. n : i \in RecordedActs' <=> i \in R
    BY <2>1 DEF RecordedActs
  <2> QED BY <1>1, <2>1, <2>2
<1>5. CASE Recorded(acts[n + 1])'
  <2>1. RecordedActs' = R \cup {n + 1}
    BY <1>4, <1>5
  <2>2. \A i \in R : {j \in RecordedActs' : j <= i} = {j \in R : j <= i}
    BY <1>1, <2>1
  <2>3. {j \in RecordedActs' : j <= n + 1} = R \cup {n + 1}
    <3>1. \A j \in RecordedActs' : j <= n + 1
      BY <1>1, <2>1
    <3> QED BY <2>1, <3>1
  <2>4. callStack' = Append(callStack, f)
    BY <1>5
  <2>5. /\ Len(callStack') = Len(callStack) + 1
        /\ \A i \in 1 .. Len(callStack) : callStack'[i] = callStack[i]
        /\ callStack'[Len(callStack) + 1] = f
    BY <1>5, <2>4, Appended DEF TypeOK
  <2>6. ASSUME NEW i \in RecordedActs' PROVE callStack'[Rank(i)'] = acts'[i].what
    <3>1. CASE i \in R
      <4>1. Rank(i)' = Rank(i) /\ Rank(i) \in 1 .. Len(callStack)
        BY <3>1, <2>2, <1>2, <1>3 DEF Rank
      <4>2. callStack[Rank(i)] = acts[i].what
        BY <3>1 DEF StackListsCalls
      <4> QED BY <4>1, <4>2, <2>5, <3>1, <1>1
    <3>2. CASE i = n + 1
      <4>1. Rank(i)' = Cardinality(R) + 1
        BY <3>2, <2>3, <1>2 DEF Rank
      <4> QED BY <3>2, <4>1, <2>5, <1>3
    <3> QED BY <2>1, <2>6, <3>1, <3>2
  <2> QED BY <2>1, <2>5, <2>6, <1>2, <1>3 DEF StackListsCalls
<1>6. CASE ~Recorded(acts[n + 1])'
  <2>1. RecordedActs' = R
    BY <1>4, <1>6
  <2>2. callStack' = callStack
    BY <1>6
  <2>3. ASSUME NEW i \in R PROVE Rank(i)' = Rank(i) /\ acts'[i] = acts[i]
    BY <2>1, <1>1 DEF Rank
  <2> QED BY <2>1, <2>2, <2>3 DEF StackListsCalls
<1> QED BY <1>5, <1>6

\* The end of a call takes what it recorded off the call stack.
LEMMA StackPopped ==
    ASSUME TypeOK, StackListsCalls, Depth > 0, Depth' = Depth - 1,
           \A i \in 1 .. Depth - 1 : Recorded(acts[i])' <=> Recorded(acts[i]),
           \A i \in 1 .. Depth - 1 : acts'[i] = acts[i],
           callStack' = IF Recorded(acts[Depth]) THEN SubSeq(callStack, 1, Len(callStack) - 1)
                        ELSE callStack
    PROVE  StackListsCalls'
<1> DEFINE R == RecordedActs'
<1>1. Depth - 1 \in Nat /\ Depth \in Nat /\ R \in SUBSET (1 .. (Depth - 1))
  BY DEF TypeOK, Depth, RecordedActs
<1>2. /\ Cardinality(R) \in Nat
      /\ \A i \in R : Cardinality({j \in R : j <= i}) \in 1 .. Cardinality(R)
      /\ Cardinality(R \cup {(Depth - 1) + 1}) = Cardinality(R) + 1
  BY <1>1, Ranks
<1>3. CASE Recorded(acts[Depth])
  <2>1. RecordedActs = R \cup {(Depth - 1) + 1}
    BY <1>1, <1>3 DEF RecordedActs
  <2>2. \A i \in R : {j \in RecordedActs : j <= i} = {j \in R : j <= i}
    BY <1>1, <2>1
  <2>3. Len(callStack) = Cardinality(R) + 1
    BY <1>2, <2>1 DEF StackListsCalls
  <2>4. callStack' = SubSeq(callStack, 1, Len(callStack) - 1)
    BY <1>3
  <2>5. /\ Len(callStack') = Cardinality(R)
        /\ \A i \in 1 .. Cardinality(R) : callStack'[i] = callStack[i]
    BY <1>2, <2>3, <2>4, Shortened DEF TypeOK
  <2>6. ASSUME NEW i \in R PROVE callStack'[Rank(i)'] = acts'[i].what
    <3>1. Rank(i)' = Rank(i) /\ Rank(i) \in 1 .. Cardinality(R)
      BY <2>2, <1>2 DEF Rank
    <3>2. callStack[Rank(i)] = acts[i].what
      BY <2>1 DEF StackListsCalls
    <3> QED BY <3>1, <3>2, <2>5, <1>1
  <2> QED BY <2>5, <2>6 DEF StackListsCalls
<1>4. CASE ~Recorded(acts[Depth])
  <2>1. RecordedActs = R
    BY <1>1, <1>4 DEF RecordedActs
  <2>2. callStack' = callStack
    BY <1>4
  <2>3. ASSUME NEW i \in R PROVE Rank(i)' = Rank(i) /\ acts'[i] = acts[i]
    BY <2>1, <1>1 DEF Rank
  <2> QED BY <2>1, <2>2, <2>3 DEF StackListsCalls
<1> QED BY <1>3, <1>4

\* The n oldest activations, and what their contexts hold for them, are as before.
Kept(n) ==
    /\ \A i \in 1 .. n : Alike(i)
    /\ \A i \in 1 .. n : IsMir(i) =>
         LET old == ctxs[acts[i].ctx]
             new == ctxs'[acts[i].ctx]
         IN  /\ acts[i].ctx \in 1 .. Len(ctxs') /\ new.root = old.root
             /\ \A h \in 1 .. i - 1 : HostAt(i, h) =>
                  i - h \in 1 .. Len(new.saved) /\ new.saved[i - h] = old.saved[i - h]
             /\ i < n /\ IsHost(i + 1) => Len(new.saved) = Len(old.saved)

\* When they are, so is the state they stand for.
LEMMA KeptState ==
    ASSUME NEW n \in Nat, Kept(n)
    PROVE  /\ FileAt(n)' = FileAt(n) /\ CtxAt(n)' = CtxAt(n)
           /\ \A h : HostAt(n, h)' <=> HostAt(n, h)
           /\ \A v : BindingAt(n, v)' <=> BindingAt(n, v)
<1>1. n \in 0 .. n /\ \A i \in 1 .. n : Alike(i)
  BY DEF Kept
<1> QED BY <1>1, PrefixKept

\* What is kept still fits.
LEMMA KeptFits ==
    ASSUME NEW n \in Nat, Kept(n), NEW i \in 1 .. n, ActFits(i)
    PROVE  /\ ActFits(i)'
           /\ BindingFits(i) => BindingFits(i)'
           /\ Recorded(acts[i])' <=> Recorded(acts[i])
<1>1. /\ \A j \in 1 .. n : Alike(j)
      /\ \A j \in 1 .. n : (IsHost(j)' <=> IsHost(j)) /\ (IsMir(j)' <=> IsMir(j))
      /\ \A m \in 0 .. n :
             /\ FileAt(m)' = FileAt(m)
             /\ CtxAt(m)' = CtxAt(m)
             /\ \A h : HostAt(m, h)' <=> HostAt(m, h)
             /\ \A v : BindingAt(m, v)' <=> BindingAt(m, v)
  <2>1. \A j \in 1 .. n : Alike(j)
    BY DEF Kept
  <2>2. \A j \in 1 .. n : (IsHost(j)' <=> IsHost(j)) /\ (IsMir(j)' <=> IsMir(j))
    BY <2>1 DEF IsHost, IsMir, Alike
  <2> QED BY <2>1, <2>2, PrefixKept
<1>2. i \in 0 .. n /\ i - 1 \in 0 .. n /\ i \in Nat
  OBVIOUS
<1>3. CASE IsHost(i)
  <2>1. ~IsMir(i) /\ ~IsMir(i)' /\ IsHost(i)'
    BY <1>1, <1>3 DEF IsHost, IsMir
  <2>2. HostFits(i)
    BY <1>3 DEF ActFits
  <2>3. i > 1 => Len(ctxs'[acts'[i - 1].ctx].saved) = i - 1 - acts'[i].exec
    <3>1. SUFFICES ASSUME i > 1
                   PROVE  Len(ctxs'[acts'[i - 1].ctx].saved) = i - 1 - acts'[i].exec
      OBVIOUS
    <3>2. i - 1 \in 1 .. n /\ IsMir(i - 1) /\ i - 1 < n /\ (i - 1) + 1 = i
      BY <2>2, <3>1 DEF HostFits
    <3>3. Len(ctxs'[acts[i - 1].ctx].saved) = Len(ctxs[acts[i - 1].ctx].saved)
      BY <3>2, <1>3 DEF Kept
    <3> QED BY <3>1, <3>2, <3>3, <2>2, <1>1, <1>3 DEF HostFits, Alike
  <2>4. HostFits(i)'
    <3>1. acts'[i] = acts[i]
      BY <1>1, <1>3 DEF Alike
    <3>2. i > 1 => IsMir(i - 1)'
      BY <1>1, <2>2 DEF HostFits
    <3>3. FileAt(i - 1)' = FileAt(i - 1) /\ \A h : HostAt(i - 1, h)' <=> HostAt(i - 1, h)
      BY <1>1, <1>2
    <3> QED BY <2>2, <2>3, <3>1, <3>2, <3>3 DEF HostFits
  <2>5. BindingFits(i) => BindingFits(i)'
    BY <2>1, <1>1, <1>2, <1>3 DEF BindingFits, BindingSaved, Alike
  <2>6. Recorded(acts[i])' <=> Recorded(acts[i])
    BY <1>1, <1>3 DEF Recorded, IsHost, Alike
  <2> QED BY <2>1, <2>4, <2>5, <2>6 DEF ActFits
<1>4. CASE IsMir(i)
  <2>1. ~IsHost(i) /\ ~IsHost(i)' /\ IsMir(i)'
    BY <1>1, <1>4 DEF IsHost, IsMir
  <2>2. MirFits(i)
    BY <1>4 DEF ActFits
  <2> DEFINE c == acts[i].ctx
  <2>3. /\ c \in 1 .. Len(ctxs') /\ ctxs'[c].root = ctxs[c].root /\ Alike(i)
        /\ \A h \in 1 .. i - 1 : HostAt(i, h) =>
             i - h \in 1 .. Len(ctxs'[c].saved) /\ ctxs'[c].saved[i - h] = ctxs[c].saved[i - h]
    BY <1>4 DEF Kept
  <2>4. Recorded(acts[i])' <=> Recorded(acts[i])
    BY <2>3 DEF Recorded, Alike
  <2>5. i - 1 \in 1 .. n
    BY <2>2, <1>2 DEF MirFits
  <2>6. /\ IsMir(i - 1)' <=> IsMir(i - 1)
        /\ IsHost(i - 1)' <=> IsHost(i - 1)
        /\ CtxAt(i - 1)' = CtxAt(i - 1) /\ FileAt(i - 1)' = FileAt(i - 1)
        /\ \A h : HostAt(i, h)' <=> HostAt(i, h)
        /\ \A v : BindingAt(i - 1, v)' <=> BindingAt(i - 1, v)
    BY <1>1, <1>2, <2>5
  <2>7. \A g, h \in 1 .. i - 1 : g < h /\ IsMir(g)' /\ IsHost(h)' => acts'[g].ctx < acts'[i].ctx
    <3>1. \A g \in 1 .. i - 1 : g \in 1 .. n /\ acts'[g].ctx = acts[g].ctx
      BY <1>1 DEF Alike
    <3> QED BY <3>1, <1>1, <2>2, <2>3 DEF MirFits, Alike
  <2>8. MirFits(i)'
    <3>1. /\ i > 1 /\ acts'[i].ctx \in 1 .. Len(ctxs')
          /\ acts'[i].ctx = IF IsMir(i - 1)' THEN CtxAt(i - 1)' ELSE CtxAt(i - 1)' + 1
          /\ IsHost(i - 1)' => acts'[i].what = ctxs'[acts'[i].ctx].root
      BY <2>2, <2>3, <2>6 DEF MirFits, Alike
    <3>2. ASSUME NEW h \in 1 .. i - 1, HostAt(i, h)'
          PROVE  LET frames == ctxs'[acts'[i].ctx].saved
                 IN  /\ i - h \in 1 .. Len(frames)
                     /\ frames[i - h].ctx = CtxAt(i - 1)'
                     /\ frames[i - h].file = FileAt(i - 1)'
                     /\ frames[i - h].pushed <=> Recorded(acts[i])'
      <4>1. HostAt(i, h)
        BY <3>2, <2>6
      <4>2. /\ ctxs[c].saved[i - h].ctx = CtxAt(i - 1)
            /\ ctxs[c].saved[i - h].file = FileAt(i - 1)
            /\ ctxs[c].saved[i - h].pushed <=> Recorded(acts[i])
        BY <4>1, <2>2 DEF MirFits
      <4> QED BY <4>1, <4>2, <2>3, <2>4, <2>6 DEF Alike
    <3> QED BY <3>1, <3>2, <2>7 DEF MirFits
  <2>9. BindingFits(i) => BindingFits(i)'
    BY <2>1, <2>3, <2>6, <1>4 DEF BindingFits, BindingSaved, Alike
  <2> QED BY <2>1, <2>4, <2>8, <2>9 DEF ActFits
<1>5. CASE ~IsHost(i) /\ ~IsMir(i)
  BY <1>1, <1>5 DEF ActFits, BindingFits, Recorded, IsHost, IsMir, Alike
<1> QED BY <1>3, <1>4, <1>5

\* The stack of activations, one larger and one smaller.
LEMMA ActPushed ==
    ASSUME TypeOK, NEW n, n = Depth, NEW a \in Activation, Push(a)
    PROVE  /\ n \in Nat /\ Depth' = n + 1 /\ acts' \in Seq(Activation)
           /\ \A i \in 1 .. n : acts'[i] = acts[i]
           /\ acts'[n + 1] = a
BY Appended DEF TypeOK, Depth, Push

\* One activation ends.
LEMMA ActPopped ==
    ASSUME TypeOK, NEW n, n = Depth, n > 0, Pop
    PROVE  /\ n \in Nat /\ Depth' = n - 1 /\ acts' \in Seq(Activation)
           /\ \A i \in 1 .. n - 1 : acts'[i] = acts[i]
<1>1. acts \in Seq(Activation) /\ acts # <<>> /\ acts' = SubSeq(acts, 1, Len(acts) - 1)
  BY DEF TypeOK, Depth, Pop
<1> QED BY <1>1, Shortened DEF Depth

\* As long as the contexts of the activations that stay are not touched, they are kept.
LEMMA KeptSame ==
    ASSUME CallInv, NEW n \in Nat, n <= Depth, \A i \in 1 .. n : acts'[i] = acts[i],
           \A i \in 1 .. n : IsMir(i) => /\ acts[i].ctx \in 1 .. Len(ctxs')
                                         /\ ctxs'[acts[i].ctx] = ctxs[acts[i].ctx]
    PROVE  Kept(n)
<1>1. Depth \in Nat
  BY DEF CallInv, TypeOK, Depth
<1>2. ASSUME NEW i \in 1 .. n, IsMir(i)
      PROVE  /\ acts[i].ctx \in 1 .. Len(ctxs')
             /\ ctxs'[acts[i].ctx] = ctxs[acts[i].ctx]
             /\ \A h \in 1 .. i - 1 : HostAt(i, h) =>
                  i - h \in 1 .. Len(ctxs[acts[i].ctx].saved)
  <2>1. i \in 1 .. Depth
    BY <1>1
  <2>2. MirFits(i)
    BY <1>2, <2>1 DEF CallInv, ActFits
  <2> QED BY <1>2, <2>2 DEF MirFits
<1> QED BY <1>2 DEF Kept, Alike

\* The fields of the three kinds of record.
LEMMA Fields ==
    /\ \A a \in Activation : /\ a.what \in Names /\ a.bound \in Bindings
                             /\ a.kind \in {"invoke", "init", "mir"}
    /\ \A a \in Activation : a.kind # "mir" =>
         a.file \in Files /\ a.exec \in Nat /\ a.saved \in Saves
    /\ \A a \in Activation : a.kind = "mir" => a.ctx \in Nat /\ a.framed \in BOOLEAN
    /\ \A c \in Context : c.root \in Names /\ c.saved \in Seq(Frame) /\ c.frames \in Int
    /\ \A s \in Frame : /\ s.ctx \in Nat /\ s.file \in Files
                        /\ s.pushed \in BOOLEAN /\ s.template \in Saves
BY DEF Activation, HostAct, MirActivation, Context, Frame

\* A function is invoked or an initialiser is started.
LEMMA HostPushed ==
    ASSUME CallInv, NEW n, n = Depth,
           NEW kind \in {"invoke", "init"}, NEW f \in Names, NEW saved \in Saves,
           NEW bound \in Bindings, Push(Act(kind, f, saved, bound)),
           n = 0 => kind = "invoke", n > 0 => IsMir(n),
           kind = "invoke" => f \in Functions, kind = "init" => saved = NoSave,
           callStack' = IF kind = "invoke" THEN Append(callStack, f) ELSE callStack,
           currentFile' = FileOf[f], currentExecCtx' = n + 1,
           UNCHANGED <<currentMirExecCtx, ctxs>>, RestTyped, mode' = "enter"
    PROVE  /\ CallInv' /\ Kept(n) /\ n \in Nat /\ Depth' = n + 1
           /\ acts'[n + 1] = Act(kind, f, saved, bound)
<1> DEFINE a == Act(kind, f, saved, bound)
<1>1. a \in Activation
  BY DEF CallInv, TypeOK, Act, Activation, HostAct
<1>2. /\ n \in Nat /\ Depth' = n + 1 /\ acts' \in Seq(Activation)
      /\ \A i \in 1 .. n : acts'[i] = acts[i]
      /\ acts'[n + 1] = a
  BY <1>1, ActPushed DEF CallInv
<1>3. Kept(n)
  <2>1. ASSUME NEW i \in 1 .. n, IsMir(i) PROVE acts[i].ctx \in 1 .. Len(ctxs)
    BY <2>1 DEF CallInv, ActFits, MirFits
  <2> QED BY <1>2, <2>1, KeptSame
<1>4. \A i \in 1 .. n : ActFits(i)' /\ (Recorded(acts[i])' <=> Recorded(acts[i]))
  BY <1>2, <1>3, KeptFits DEF CallInv
<1>5. /\ FileAt(n)' = FileAt(n) /\ CtxAt(n)' = CtxAt(n)
      /\ \A h : HostAt(n, h)' <=> HostAt(n, h)
  BY <1>2, <1>3, KeptState
<1>6. IsHost(n + 1)' /\ ~IsMir(n + 1)' /\ (Recorded(acts[n + 1])' <=> kind = "invoke")
  BY <1>2 DEF Act, IsHost, IsMir, Recorded
<1>7. TypeOK'
  <2>1. callStack' \in Seq(Functions)
    BY DEF CallInv, TypeOK
  <2>2. currentFile' \in Files /\ currentExecCtx' \in Nat
    BY <1>2 DEF Files
  <2> QED BY <1>2, <2>1, <2>2 DEF CallInv, TypeOK, RestTyped
<1>8. ModeFits'
  BY <1>2, <1>6 DEF ModeFits
<1>9. ActFits(n + 1)'
  <2>1. /\ n + 1 = 1 => acts'[n + 1].kind = "invoke"
        /\ acts'[n + 1].kind = "init" => acts'[n + 1].saved = NoSave
        /\ acts'[n + 1].file = currentFile /\ acts'[n + 1].exec = currentExecCtx
    BY <1>2 DEF Act
  <2>2. ASSUME n + 1 > 1
        PROVE  IsMir(n)' /\ Len(ctxs'[acts'[n].ctx].saved) = n - acts'[n + 1].exec
    <3>1. n > 0 /\ IsMir(n) /\ acts'[n] = acts[n]
      BY <1>2, <2>2
    <3> QED BY <3>1, <1>2 DEF Act, CallInv, StateInForce, IsMir
  <2>3. (n + 1) - 1 = n
    BY <1>2
  <2>4. currentFile = FileAt(n)' /\ HostAt(n, acts[n + 1].exec)'
    BY <2>1, <1>5 DEF CallInv, StateInForce
  <2>5. HostFits(n + 1)'
    BY <2>1, <2>2, <2>3, <2>4 DEF HostFits
  <2> QED BY <2>5, <1>6 DEF ActFits
<1>10. StateInForce'
  <2>1. FileAt(n + 1)' = FileOf[f]
    BY <1>2 DEF FileAt, Act
  <2>2. HostAt(n + 1, n + 1)'
    BY <1>2, <1>6 DEF HostAt
  <2>3. CtxAt(n + 1)' = CtxAt(n)
    <3>1. CASE n = 0
      BY <3>1, <1>6 DEF CtxAt
    <3>2. CASE n > 0
      <4>1. IsMir(n) /\ acts'[n] = acts[n] /\ (n + 1) - 1 = n /\ n + 1 # 0 /\ n + 1 # 1
        BY <1>2, <3>2
      <4>2. CtxAt(n + 1)' = acts'[n].ctx
        BY <4>1, <1>2, <1>6 DEF CtxAt
      <4>3. CtxAt(n) = acts[n].ctx
        BY <4>1, <3>2 DEF CtxAt
      <4> QED BY <4>1, <4>2, <4>3
    <3> QED BY <1>2, <3>1, <3>2
  <2> QED BY <1>2, <1>6, <2>1, <2>2, <2>3 DEF StateInForce, CallInv
<1>11. StackListsCalls'
  <2>1. acts'[n + 1].what = f
    BY <1>2 DEF Act
  <2> QED BY <1>2, <1>4, <1>6, <2>1, StackPushed DEF CallInv
<1>12. \A i \in 1 .. Depth' : ActFits(i)'
  BY <1>2, <1>4, <1>9
<1> QED BY <1>2, <1>3, <1>7, <1>8, <1>10, <1>11, <1>12 DEF CallInv

\* What HOPEvalMirEnterFunction does to the tables.
LEMMA Entered ==
    ASSUME TypeOK, NEW cs \in Seq(Context), NEW k \in 1 .. Len(cs), NEW f \in Names,
           NEW pending \in Saves, EnterFunction(cs, k, f, pending)
    PROVE  LET frame == [ctx |-> currentMirExecCtx, file |-> currentFile,
                         pushed |-> Pushes(cs[k], f), template |-> pending]
           IN  /\ ctxs' \in Seq(Context) /\ Len(ctxs') = Len(cs)
               /\ \A j \in 1 .. Len(cs) : ctxs'[j].root = cs[j].root
               /\ \A j \in 1 .. Len(cs) : j # k => ctxs'[j] = cs[j]
               /\ ctxs'[k].saved = Append(cs[k].saved, frame)
               /\ cs[k].saved \in Seq(Frame) /\ frame \in Frame
               /\ callStack' \in Seq(Functions) /\ currentFile' \in Files
<1> DEFINE frame == [ctx |-> currentMirExecCtx, file |-> currentFile,
                     pushed |-> Pushes(cs[k], f), template |-> pending]
<1>1. frame \in Frame
  BY DEF TypeOK, Frame, Pushes
<1>2. cs[k] \in Context
  OBVIOUS
<1>3. cs[k].saved \in Seq(Frame)
  BY <1>2 DEF Context
<1>4. Append(cs[k].saved, frame) \in Seq(Frame)
  BY <1>1, <1>3, Appended
<1> DEFINE new == [cs[k] EXCEPT !.saved = Append(@, frame)]
<1>5. new \in Context /\ new.root = cs[k].root /\ new.saved = Append(cs[k].saved, frame)
  BY <1>2, <1>4 DEF Context
<1>6. ctxs' = [cs EXCEPT ![k] = new]
  BY DEF EnterFunction
<1> HIDE DEF new
<1>7. /\ ctxs' \in Seq(Context) /\ Len(ctxs') = Len(cs)
      /\ \A j \in 1 .. Len(cs) : ctxs'[j] = IF j = k THEN new ELSE cs[j]
  BY <1>5, <1>6
<1>8. callStack' \in Seq(Functions)
  <2>1. callStack' = IF Pushes(cs[k], f) THEN Append(callStack, f) ELSE callStack
    BY DEF EnterFunction
  <2> QED BY <2>1, Appended DEF Pushes, TypeOK
<1>9. currentFile' \in Files
  BY DEF EnterFunction, Files
<1> QED BY <1>1, <1>3, <1>5, <1>7, <1>8, <1>9

\* A MIR function is entered: on another one in the same context, or as the root of
\* a new context.
LEMMA MirPushed ==
    ASSUME CallInv, NEW n, n = Depth, n > 0,
           NEW cs, NEW k, k = Len(cs), NEW f \in Names, NEW pending \in Saves,
           NEW direct \in BOOLEAN, NEW bound \in Bindings,
           \/ IsMir(n) /\ cs = ctxs
           \/ /\ IsHost(n) /\ f = acts[n].what
              /\ cs = Append(ctxs, [root |-> f, saved |-> <<>>, frames |-> 0]),
           EnterFunction(cs, k, f, pending), Push(MirAct(f, k, direct, bound)),
           currentExecCtx' = currentExecCtx, RestTyped, mode' = "entered"
    PROVE  /\ CallInv' /\ Kept(n) /\ n \in Nat /\ Depth' = n + 1
           /\ acts'[n + 1] = MirAct(f, k, direct, bound)
           /\ \A h \in 1 .. n : HostAt(n + 1, h)' =>
                ctxs'[k].saved[n + 1 - h].template = pending
<1> DEFINE a == MirAct(f, k, direct, bound)
           exec == currentExecCtx
           new == [root |-> f, saved |-> <<>>, frames |-> 0]
           frame == [ctx |-> currentMirExecCtx, file |-> currentFile,
                     pushed |-> Pushes(cs[k], f), template |-> pending]
<1>1. ctxs \in Seq(Context) /\ Len(ctxs) = CtxAt(n) /\ n \in Nat /\ n \in 1 .. n
  BY DEF CallInv, TypeOK, StateInForce, Depth
<1>2. new \in Context /\ new.root = f /\ new.saved = <<>>
  BY DEF Context
<1>3. /\ cs \in Seq(Context) /\ k \in 1 .. Len(cs)
      /\ \A j \in 1 .. Len(ctxs) : j \in 1 .. Len(cs) /\ cs[j] = ctxs[j]
      /\ \/ IsMir(n) /\ ~IsHost(n) /\ k = Len(ctxs) /\ k = acts[n].ctx
         \/ IsHost(n) /\ ~IsMir(n) /\ k = Len(ctxs) + 1 /\ cs[k] = new
  <2>1. CASE IsMir(n) /\ cs = ctxs
    <3>1. acts[n].ctx \in 1 .. Len(ctxs)
      BY <1>1, <2>1 DEF CallInv, ActFits, MirFits
    <3>2. CtxAt(n) = acts[n].ctx
      BY <1>1, <2>1 DEF CtxAt
    <3>3. ~IsHost(n)
      BY <2>1 DEF IsMir, IsHost
    <3> QED BY <1>1, <2>1, <3>1, <3>2, <3>3
  <2>2. CASE IsHost(n) /\ cs = Append(ctxs, new)
    <3>1. ~IsMir(n)
      BY <2>2 DEF IsMir, IsHost
    <3> HIDE DEF new
    <3> QED BY <1>1, <1>2, <2>2, <3>1, Appended
  <2> QED BY <2>1, <2>2
<1>4. a \in Activation
  BY <1>1, <1>3 DEF MirAct, Activation, MirActivation
<1>5. /\ Depth' = n + 1 /\ acts' \in Seq(Activation)
      /\ \A i \in 1 .. n : acts'[i] = acts[i]
      /\ acts'[n + 1] = a
  BY <1>4, ActPushed DEF CallInv
<1>6. a.kind = "mir" /\ a.what = f /\ a.ctx = k
  BY DEF MirAct
<1>7. /\ ctxs' \in Seq(Context) /\ Len(ctxs') = Len(cs)
      /\ \A j \in 1 .. Len(cs) : ctxs'[j].root = cs[j].root
      /\ \A j \in 1 .. Len(cs) : j # k => ctxs'[j] = cs[j]
      /\ ctxs'[k].saved = Append(cs[k].saved, frame)
      /\ cs[k].saved \in Seq(Frame) /\ frame \in Frame
      /\ callStack' \in Seq(Functions) /\ currentFile' \in Files
  BY <1>3, Entered DEF CallInv
<1>8. /\ Len(ctxs'[k].saved) = Len(cs[k].saved) + 1
      /\ \A j \in 1 .. Len(cs[k].saved) : ctxs'[k].saved[j] = cs[k].saved[j]
      /\ ctxs'[k].saved[Len(cs[k].saved) + 1] = frame
  <2> HIDE DEF frame
  <2> QED BY <1>7, Appended
\* Below the host of the new function every context is an older one.
<1>9. \A g, h \in 1 .. n : g < h /\ IsMir(g) /\ IsHost(h) => acts[g].ctx < k
  <2> SUFFICES ASSUME NEW g \in 1 .. n, NEW h \in 1 .. n, g < h, IsMir(g), IsHost(h)
               PROVE  acts[g].ctx < k
    OBVIOUS
  <2>1. CASE IsMir(n) /\ ~IsHost(n) /\ k = acts[n].ctx
    <3>1. g \in 1 .. n - 1 /\ h \in 1 .. n - 1
      BY <1>1, <2>1
    <3>2. MirFits(n)
      BY <1>1, <2>1 DEF CallInv, ActFits
    <3> QED BY <3>1, <3>2, <2>1 DEF MirFits
  <2>2. CASE k = Len(ctxs) + 1
    <3>1. acts[g].ctx \in 1 .. Len(ctxs)
      BY DEF CallInv, ActFits, MirFits
    <3> QED BY <3>1, <2>2, <1>1
  <2> QED BY <1>3, <2>1, <2>2
<1>10. Kept(n)
  <2> SUFFICES ASSUME NEW i \in 1 .. n, IsMir(i)
      PROVE  LET old == ctxs[acts[i].ctx]
                 c == ctxs'[acts[i].ctx]
             IN  /\ acts[i].ctx \in 1 .. Len(ctxs') /\ c.root = old.root
                 /\ \A h \in 1 .. i - 1 : HostAt(i, h) =>
                      i - h \in 1 .. Len(c.saved) /\ c.saved[i - h] = old.saved[i - h]
                 /\ i < n /\ IsHost(i + 1) => Len(c.saved) = Len(old.saved)
    BY <1>5 DEF Kept, Alike
  <2> DEFINE x == acts[i].ctx
  <2>1. MirFits(i)
    BY DEF CallInv, ActFits
  <2>2. /\ x \in 1 .. Len(ctxs)
        /\ \A h \in 1 .. i - 1 : HostAt(i, h) => i - h \in 1 .. Len(ctxs[x].saved)
    BY <2>1 DEF MirFits
  <2>3. x \in 1 .. Len(ctxs') /\ ctxs'[x].root = ctxs[x].root /\ cs[x] = ctxs[x]
    BY <2>2, <1>3, <1>7
  <2>4. CASE x # k
    <3>1. ctxs'[x] = ctxs[x]
      BY <2>2, <2>3, <2>4, <1>3, <1>7
    <3> QED BY <2>2, <2>3, <3>1
  <2>5. CASE x = k
    <3>1. ~(i < n /\ IsHost(i + 1))
      <4>1. ASSUME i < n, IsHost(i + 1) PROVE FALSE
        <5>1. i + 1 \in 1 .. n /\ i < i + 1
          BY <4>1, <1>1
        <5>2. x < k
          BY <5>1, <4>1, <1>9
        <5> QED BY <5>2, <2>5, <2>2
      <4> QED BY <4>1
    <3>2. \A h \in 1 .. i - 1 : HostAt(i, h) =>
            i - h \in 1 .. Len(ctxs'[x].saved) /\ ctxs'[x].saved[i - h] = ctxs[x].saved[i - h]
      BY <2>2, <2>3, <2>5, <1>7, <1>8
    <3> QED BY <2>3, <3>1, <3>2
  <2> QED BY <2>4, <2>5
<1>11. \A i \in 1 .. n : ActFits(i)' /\ (Recorded(acts[i])' <=> Recorded(acts[i]))
  BY <1>1, <1>10, KeptFits DEF CallInv
<1>12. /\ FileAt(n)' = FileAt(n) /\ CtxAt(n)' = CtxAt(n)
       /\ \A h : HostAt(n, h)' <=> HostAt(n, h)
       /\ IsMir(n)' <=> IsMir(n)
       /\ IsHost(n)' <=> IsHost(n)
  <2>1. /\ FileAt(n)' = FileAt(n) /\ CtxAt(n)' = CtxAt(n)
        /\ \A h : HostAt(n, h)' <=> HostAt(n, h)
    BY <1>1, <1>10, KeptState
  <2>2. (IsMir(n)' <=> IsMir(n)) /\ (IsHost(n)' <=> IsHost(n))
    BY <1>1, <1>5 DEF IsMir, IsHost
  <2> QED BY <2>1, <2>2
<1>13. IsMir(n + 1)' /\ ~IsHost(n + 1)'
  BY <1>5, <1>6 DEF IsMir, IsHost
<1>14. HostAt(n, exec) /\ exec \in Nat /\ HostAt(n + 1, currentExecCtx)'
  <2>1. HostAt(n, exec) /\ exec \in Nat
    BY DEF CallInv, StateInForce, TypeOK
  <2>2. \A j \in exec + 1 .. n + 1 : IsMir(j)'
    <3>1. \A j \in exec + 1 .. n : IsMir(j)
      BY <1>1, <2>1 DEF HostAt
    <3>2. \A j \in exec + 1 .. n : IsMir(j)'
      BY <1>1, <1>5, <2>1, <3>1 DEF IsMir
    <3> QED BY <1>1, <1>13, <2>1, <3>2
  <2>3. exec \in 1 .. n + 1 /\ IsHost(exec)'
    BY <1>1, <1>5, <2>1 DEF HostAt, IsHost
  <2> QED BY <1>1, <2>1, <2>2, <2>3 DEF HostAt
<1>15. ASSUME NEW h \in 1 .. n, HostAt(n + 1, h)' PROVE h = exec
  <2>1. IsHost(h)' /\ \A j \in h + 1 .. n + 1 : IsMir(j)'
    BY <1>1, <1>15 DEF HostAt
  <2>2. IsHost(h) /\ \A j \in h + 1 .. n : IsMir(j)
    BY <1>1, <1>5, <2>1 DEF IsHost, IsMir
  <2>3. HostAt(n, h)
    BY <1>1, <2>2 DEF HostAt
  <2> QED BY <1>1, <1>14, <2>3, OneHost DEF CallInv
\* The frame of the new function is the last one of its context.
<1>16. Len(cs[k].saved) + 1 = n + 1 - exec
  <2>1. CASE IsMir(n) /\ k = Len(ctxs) /\ k = acts[n].ctx
    <3>1. cs[k] = ctxs[k]
      BY <1>1, <1>3, <2>1
    <3>2. Len(ctxs[k].saved) = n - exec
      BY <1>1, <2>1 DEF CallInv, StateInForce
    <3> QED BY <3>1, <3>2, <1>1, <1>14
  <2>2. CASE IsHost(n) /\ ~IsMir(n) /\ cs[k] = new
    <3>1. exec = n
      BY <1>1, <1>14, <2>2 DEF HostAt
    <3>2. Len(cs[k].saved) = 0
      BY <2>2
    <3> QED BY <3>1, <3>2, <1>1
  <2> QED BY <1>3, <2>1, <2>2
<1>17. Pushes(cs[k], f) <=> Recorded(acts[n + 1])'
  BY <1>3, <1>5, <1>6, <1>7 DEF Recorded, Pushes
<1>18. TypeOK'
  BY <1>3, <1>5, <1>7 DEF CallInv, TypeOK, RestTyped, EnterFunction
<1>19. ModeFits'
  BY <1>1, <1>5, <1>13 DEF ModeFits
<1>20. ActFits(n + 1)'
  <2>1. (n + 1) - 1 = n /\ n + 1 > 1
    BY <1>1
  <2>2. acts'[n + 1].ctx \in 1 .. Len(ctxs')
    BY <1>3, <1>5, <1>6, <1>7
  <2>3. acts'[n + 1].ctx = IF IsMir(n)' THEN CtxAt(n)' ELSE CtxAt(n)' + 1
    BY <1>1, <1>3, <1>5, <1>6, <1>12
  <2>4. IsHost(n)' => acts'[n + 1].what = ctxs'[acts'[n + 1].ctx].root
    BY <1>2, <1>3, <1>5, <1>6, <1>7, <1>12
  <2>5. \A g, h \in 1 .. n : g < h /\ IsMir(g)' /\ IsHost(h)' => acts'[g].ctx < acts'[n + 1].ctx
    BY <1>5, <1>6, <1>9 DEF IsMir, IsHost
  <2>6. ASSUME NEW h \in 1 .. n, HostAt(n + 1, h)'
        PROVE  LET frames == ctxs'[acts'[n + 1].ctx].saved
               IN  /\ n + 1 - h \in 1 .. Len(frames)
                   /\ frames[n + 1 - h].ctx = CtxAt(n)'
                   /\ frames[n + 1 - h].file = FileAt(n)'
                   /\ frames[n + 1 - h].pushed <=> Recorded(acts[n + 1])'
    <3>1. h = exec
      BY <2>6, <1>15
    <3>2. ctxs'[acts'[n + 1].ctx].saved = ctxs'[k].saved
      BY <1>5, <1>6
    <3>3. n + 1 - h = Len(ctxs'[k].saved) /\ ctxs'[k].saved[n + 1 - h] = frame
      BY <3>1, <1>8, <1>16
    <3>4. /\ frame.ctx = CtxAt(n) /\ frame.file = FileAt(n)
          /\ frame.pushed <=> Recorded(acts[n + 1])'
      BY <1>17 DEF CallInv, StateInForce
    <3>5. n + 1 - h \in 1 .. Len(ctxs'[k].saved)
      BY <3>3, <1>1
    <3> QED BY <3>2, <3>3, <3>4, <3>5, <1>12
  <2> HIDE DEF a, new, frame, exec
  <2>7. ASSUME NEW i, i = n + 1 PROVE MirFits(i)'
    <3>1. i - 1 = n
      BY <2>1, <2>7
    <3>2. \A h \in 1 .. i - 1 : HostAt(i, h)' =>
            LET frames == ctxs'[acts'[i].ctx].saved
            IN  /\ i - h \in 1 .. Len(frames)
                /\ frames[i - h].ctx = CtxAt(i - 1)'
                /\ frames[i - h].file = FileAt(i - 1)'
                /\ frames[i - h].pushed <=> Recorded(acts[i])'
      <4>0. SUFFICES ASSUME NEW h \in 1 .. i - 1, HostAt(i, h)'
                   PROVE  LET frames == ctxs'[acts'[i].ctx].saved
                          IN  /\ i - h \in 1 .. Len(frames)
                              /\ frames[i - h].ctx = CtxAt(i - 1)'
                              /\ frames[i - h].file = FileAt(i - 1)'
                              /\ frames[i - h].pushed <=> Recorded(acts[i])'
        OBVIOUS
      <4>1. h \in 1 .. n /\ HostAt(n + 1, h)'
        BY <2>7, <3>1, <4>0
      <4>2. LET frames == ctxs'[acts'[n + 1].ctx].saved
            IN  /\ n + 1 - h \in 1 .. Len(frames)
                /\ frames[n + 1 - h].ctx = CtxAt(n)'
                /\ frames[n + 1 - h].file = FileAt(n)'
                /\ frames[n + 1 - h].pushed <=> Recorded(acts[n + 1])'
        BY ONLY <2>6, <4>1
      <4>3. n \in Nat /\ h \in Nat
        BY <1>1, <4>1
      <4>4. i - h = n + 1 - h
        BY ONLY <2>7, <4>3
      <4> QED BY ONLY <2>7, <3>1, <4>2, <4>4
    <3>3. \A g, h \in 1 .. i - 1 : g < h /\ IsMir(g)' /\ IsHost(h)' => acts'[g].ctx < acts'[i].ctx
      BY <2>5, <2>7, <3>1
    <3>4. /\ i > 1 /\ acts'[i].ctx \in 1 .. Len(ctxs')
          /\ acts'[i].ctx = IF IsMir(i - 1)' THEN CtxAt(i - 1)' ELSE CtxAt(i - 1)' + 1
          /\ IsHost(i - 1)' => acts'[i].what = ctxs'[acts'[i].ctx].root
      BY <2>1, <2>2, <2>3, <2>4, <2>7, <3>1
    <3> QED BY <3>2, <3>3, <3>4 DEF MirFits
  <2> QED BY <2>7, <1>13 DEF ActFits
<1>21. StateInForce'
  <2>1. FileAt(n + 1)' = FileOf[f] /\ currentFile' = FileOf[f]
    BY <1>1, <1>5, <1>6 DEF FileAt, EnterFunction
  <2>2. CtxAt(n + 1)' = k /\ currentMirExecCtx' = k
    BY <1>1, <1>5, <1>6, <1>13 DEF CtxAt, EnterFunction
  <2>3. Len(ctxs'[acts'[n + 1].ctx].saved) = n + 1 - exec
    BY <1>5, <1>6, <1>8, <1>16
  <2> HIDE DEF a, new, frame
  <2>4. Depth' = n + 1 /\ Len(ctxs') = k
    BY <1>5, <1>7
  <2>5. /\ currentFile' = FileAt(Depth)'
        /\ currentMirExecCtx' = CtxAt(Depth)' /\ Len(ctxs') = CtxAt(Depth)'
    BY <2>1, <2>2, <2>4
  <2>6. HostAt(Depth, currentExecCtx)'
    BY <1>14, <2>4
  <2>7. Len(ctxs'[acts'[Depth'].ctx].saved) = Depth' - currentExecCtx'
    BY <1>1, <1>14, <2>3, <2>4
  <2> QED BY <2>4, <2>5, <2>6, <2>7 DEF StateInForce
<1>22. StackListsCalls'
  <2>1. callStack' = IF Recorded(acts[n + 1])' THEN Append(callStack, f) ELSE callStack
    BY <1>17 DEF EnterFunction
  <2>2. Recorded(acts[n + 1])' => f \in Functions
    BY <1>17 DEF Pushes
  <2> QED BY <1>1, <1>5, <1>6, <1>11, <2>1, <2>2, StackPushed DEF CallInv
<1>23. \A i \in 1 .. Depth' : ActFits(i)'
  BY <1>1, <1>5, <1>11, <1>20
<1>24. \A h \in 1 .. n : HostAt(n + 1, h)' => ctxs'[k].saved[n + 1 - h].template = pending
  BY <1>1, <1>8, <1>15, <1>16
<1> QED BY <1>1, <1>5, <1>10, <1>18, <1>19, <1>21, <1>22, <1>23, <1>24 DEF CallInv

\* HOPEvalMirLeaveFunction takes one frame off a context.
LEMMA Left ==
    ASSUME NEW c \in Context, c.saved # <<>>, NEW framed \in BOOLEAN
    PROVE  LET d == Leave(Unbind(c, framed))
           IN  /\ d \in Context /\ d.root = c.root
               /\ Len(d.saved) = Len(c.saved) - 1
               /\ \A i \in 1 .. Len(c.saved) - 1 : d.saved[i] = c.saved[i]
<1> DEFINE u == Unbind(c, framed)
           s == SubSeq(c.saved, 1, Len(c.saved) - 1)
<1>1. u \in Context /\ u.root = c.root /\ u.saved = c.saved
  BY DEF Unbind, Context
<1>2. c.saved \in Seq(Frame)
  BY DEF Context
<1>3. /\ s \in Seq(Frame) /\ Len(s) = Len(c.saved) - 1
      /\ \A i \in 1 .. Len(c.saved) - 1 : s[i] = c.saved[i]
  BY <1>2, Shortened
<1>4. Leave(u) = [u EXCEPT !.saved = s]
  BY <1>1 DEF Leave
<1> HIDE DEF s, u
<1>5. [u EXCEPT !.saved = s] \in Context
  BY <1>1, <1>3 DEF Context
<1>6. [u EXCEPT !.saved = s].root = u.root /\ [u EXCEPT !.saved = s].saved = s
  BY <1>1 DEF Context
<1> QED BY <1>1, <1>3, <1>4, <1>5, <1>6 DEF u

\* What a saved binding gives back is a binding.
LEMMA RestoredType ==
    ASSUME NEW saved \in Saves, NEW now \in Bindings
    PROVE  Restored(saved, now) \in Bindings
BY DEF Restored, NoSave, Saves

\* A MIR function ends, and with the root its context.
LEMMA MirPopped ==
    ASSUME CallInv, LeaveFunction, NEW n, n = Depth
    PROVE  /\ CallInv' /\ n \in Nat /\ n > 1 /\ Depth' = n - 1 /\ IsMir(n) /\ Kept(n - 1)
           /\ HostAt(n, currentExecCtx) /\ currentExecCtx \in 1 .. n - 1
           /\ template' = Restored(ctxs[acts[n].ctx].saved[n - currentExecCtx].template, template)
<1> DEFINE k == acts[n].ctx
           exec == currentExecCtx
           frame == ctxs[k].saved[n - exec]
<1>1. /\ n \in Nat /\ n > 0 /\ n \in 1 .. n /\ n - 1 \in Nat
      /\ ctxs \in Seq(Context) /\ exec \in Nat /\ acts[n] \in Activation
  BY DEF CallInv, TypeOK, Depth, LeaveFunction, InMir
<1>2. IsMir(n) /\ ~IsHost(n)
  BY DEF LeaveFunction, InMir, TopAct, IsMir, IsHost
<1>3. MirFits(n)
  BY <1>1, <1>2 DEF CallInv, ActFits
<1>4. n > 1 /\ k \in 1 .. Len(ctxs) /\ n - 1 \in 1 .. n - 1
  BY <1>1, <1>3 DEF MirFits
<1>5. HostAt(n, exec) /\ k = Len(ctxs) /\ Len(ctxs[k].saved) = n - exec
  <2>1. CtxAt(n) = k
    BY <1>1, <1>2 DEF CtxAt
  <2> QED BY <1>1, <1>2, <2>1 DEF CallInv, StateInForce
<1>6. exec \in 1 .. n - 1 /\ IsHost(exec) /\ \A j \in exec + 1 .. n : IsMir(j)
  BY <1>1, <1>2, <1>5 DEF HostAt
<1>7. /\ frame.ctx = CtxAt(n - 1) /\ frame.file = FileAt(n - 1)
      /\ frame.pushed <=> Recorded(acts[n])
  BY <1>3, <1>5, <1>6 DEF MirFits
<1>8. ctxs[k] \in Context /\ ctxs[k].saved \in Seq(Frame) /\ ctxs[k].saved # <<>>
  <2>1. ctxs[k] \in Context
    BY <1>1, <1>4
  <2>2. ctxs[k].saved \in Seq(Frame)
    BY <2>1, Fields
  <2>3. Len(ctxs[k].saved) # 0
    BY <1>1, <1>5, <1>6
  <2> QED BY <2>1, <2>2, <2>3
<1>9. frame \in Frame
  BY <1>1, <1>5, <1>6, <1>8
<1>10. TopAct = acts[n] /\ BelowAct = acts[n - 1] /\ ctxs[k].saved[Len(ctxs[k].saved)] = frame
  BY <1>5 DEF TopAct, BelowAct
<1>11. /\ Pop /\ currentExecCtx' = exec /\ topState' = topState /\ failed' = failed
       /\ callStack' = IF frame.pushed THEN SubSeq(callStack, 1, Len(callStack) - 1) ELSE callStack
       /\ currentFile' = frame.file /\ currentMirExecCtx' = frame.ctx
       /\ template' = Restored(frame.template, template)
  BY <1>10 DEF LeaveFunction
<1>12. /\ Depth' = n - 1 /\ acts' \in Seq(Activation)
       /\ \A i \in 1 .. n - 1 : acts'[i] = acts[i]
  BY <1>1, <1>11, ActPopped DEF CallInv
<1>13. \/ IsMir(n - 1) /\ ~IsHost(n - 1) /\ acts[n - 1].kind = "mir"
       \/ IsHost(n - 1) /\ ~IsMir(n - 1) /\ acts[n - 1].kind # "mir"
  <2>1. acts[n - 1] \in Activation
    BY <1>1, <1>4 DEF CallInv, TypeOK, Depth
  <2> QED BY <2>1, Fields DEF IsMir, IsHost
\* The contexts: the root takes its own with it, another function only its frame.
<1>14. /\ ctxs' \in Seq(Context) /\ Len(ctxs') = CtxAt(n - 1)
       /\ \A x \in 1 .. Len(ctxs) : x < k => x \in 1 .. Len(ctxs') /\ ctxs'[x] = ctxs[x]
       /\ IsMir(n - 1) => /\ k \in 1 .. Len(ctxs') /\ ctxs'[k].root = ctxs[k].root
                          /\ Len(ctxs'[k].saved) = n - 1 - exec /\ acts[n - 1].ctx = k
                          /\ \A i \in 1 .. n - 1 - exec : ctxs'[k].saved[i] = ctxs[k].saved[i]
  <2>1. CASE IsHost(n - 1) /\ ~IsMir(n - 1) /\ acts[n - 1].kind # "mir"
    <3>1. ctxs' = SubSeq(ctxs, 1, Len(ctxs) - 1)
      BY <2>1, <1>10 DEF LeaveFunction
    <3>2. ctxs # <<>>
      BY <1>1, <1>4
    <3>3. /\ ctxs' \in Seq(Context) /\ Len(ctxs') = Len(ctxs) - 1
          /\ \A x \in 1 .. Len(ctxs) - 1 : ctxs'[x] = ctxs[x]
      BY <1>1, <3>1, <3>2, Shortened
    <3>4. k = CtxAt(n - 1) + 1
      BY <2>1, <1>3 DEF MirFits
    <3>5. CtxAt(n - 1) = Len(ctxs) - 1
      <4>1. CtxAt(n - 1) \in Int
        <5>1. CtxAt(n - 1) = currentMirExecCtx'
          BY <1>7, <1>11
        <5> QED BY <5>1, <1>7, <1>9, Fields
      <4> QED BY <4>1, <3>4, <1>5, <1>1
    <3> QED BY <2>1, <3>3, <3>5, <1>1, <1>5
  <2>2. CASE IsMir(n - 1) /\ ~IsHost(n - 1) /\ acts[n - 1].kind = "mir"
    <3> DEFINE d == Leave(Unbind(ctxs[k], acts[n].framed))
    <3>1. ctxs' = [ctxs EXCEPT ![k] = d]
      BY <2>2, <1>10 DEF LeaveFunction
    <3>2. acts[n].framed \in BOOLEAN
      BY <1>1, <1>2, Fields DEF IsMir
    <3>3. /\ d \in Context /\ d.root = ctxs[k].root
          /\ Len(d.saved) = Len(ctxs[k].saved) - 1
          /\ \A i \in 1 .. Len(ctxs[k].saved) - 1 : d.saved[i] = ctxs[k].saved[i]
      BY <1>8, <3>2, Left
    <3> HIDE DEF d
    <3>4. /\ ctxs' \in Seq(Context) /\ Len(ctxs') = Len(ctxs)
          /\ \A x \in 1 .. Len(ctxs) : ctxs'[x] = IF x = k THEN d ELSE ctxs[x]
      BY <1>1, <1>4, <3>1, <3>3
    <3>5. k = CtxAt(n - 1) /\ CtxAt(n - 1) = acts[n - 1].ctx
      <4>1. k = CtxAt(n - 1)
        BY <2>2, <1>3 DEF MirFits
      <4>2. CtxAt(n - 1) = acts[n - 1].ctx
        BY <2>2, <1>1, <1>4 DEF CtxAt
      <4> QED BY <4>1, <4>2
    <3>6. Len(ctxs[k].saved) - 1 = n - 1 - exec
      BY <1>1, <1>5
    <3>7. ctxs'[k] = d /\ k \in 1 .. Len(ctxs')
      BY <1>4, <3>4
    <3>8. /\ ctxs'[k].root = ctxs[k].root /\ Len(ctxs'[k].saved) = n - 1 - exec
          /\ \A i \in 1 .. n - 1 - exec : ctxs'[k].saved[i] = ctxs[k].saved[i]
      BY <3>3, <3>6, <3>7
    <3>9. /\ Len(ctxs') = CtxAt(n - 1)
          /\ \A x \in 1 .. Len(ctxs) : x < k => x \in 1 .. Len(ctxs') /\ ctxs'[x] = ctxs[x]
      BY <1>1, <1>4, <1>5, <3>4, <3>5
    <3> QED BY <3>4, <3>5, <3>7, <3>8, <3>9
  <2> QED BY <1>13, <2>1, <2>2
<1>15. Kept(n - 1)
  <2> SUFFICES ASSUME NEW i \in 1 .. n - 1, IsMir(i)
      PROVE  LET old == ctxs[acts[i].ctx]
                 c == ctxs'[acts[i].ctx]
             IN  /\ acts[i].ctx \in 1 .. Len(ctxs') /\ c.root = old.root
                 /\ \A h \in 1 .. i - 1 : HostAt(i, h) =>
                      i - h \in 1 .. Len(c.saved) /\ c.saved[i - h] = old.saved[i - h]
                 /\ i < n - 1 /\ IsHost(i + 1) => Len(c.saved) = Len(old.saved)
    BY <1>12 DEF Kept, Alike
  <2> DEFINE x == acts[i].ctx
  <2>1. i \in 1 .. n /\ i \in 1 .. Depth
    BY <1>1
  <2>2. /\ x \in 1 .. Len(ctxs)
        /\ \A h \in 1 .. i - 1 : HostAt(i, h) => i - h \in 1 .. Len(ctxs[x].saved)
    BY <2>1 DEF CallInv, ActFits, MirFits
  <2>3. \A h \in 1 .. n - 1 : i < h /\ IsHost(h) => x < k
    BY <1>3 DEF MirFits
  <2>4. CASE x < k
    BY <2>2, <2>4, <1>14
  <2>5. CASE ~(x < k)
    <3>1. IsMir(n - 1) /\ x = k
      <4>1. ~IsHost(n - 1)
        <5>1. ASSUME IsHost(n - 1) PROVE FALSE
          <6>1. i # n - 1
            BY <5>1 DEF IsHost, IsMir
          <6>2. i < n - 1
            BY <6>1, <1>1
          <6> QED BY <6>2, <5>1, <2>3, <2>5, <1>4
        <5> QED BY <5>1
      <4> QED BY <4>1, <1>13, <2>2, <2>5, <1>5, <1>1
    <3>2. ~(i < n - 1 /\ IsHost(i + 1))
      <4>1. ASSUME i < n - 1, IsHost(i + 1) PROVE FALSE
        <5>1. i + 1 \in 1 .. n - 1 /\ i < i + 1
          BY <4>1, <1>1
        <5> QED BY <5>1, <4>1, <2>3, <2>5
      <4> QED BY <4>1
    <3>3. ASSUME NEW h \in 1 .. i - 1, HostAt(i, h) PROVE h = exec
      <4>1. IsHost(h) /\ \A j \in h + 1 .. i : IsMir(j)
        BY <2>1, <3>3 DEF HostAt
      <4>2. ~(exec > i)
        BY <1>6, <2>3, <2>5
      <4>3. ~(exec > h)
        <5>1. ASSUME exec > h PROVE FALSE
          <6>1. exec \in h + 1 .. i
            BY <5>1, <4>2, <1>1
          <6>2. IsMir(exec)
            BY <6>1, <4>1
          <6> QED BY <6>2, <1>6 DEF IsMir, IsHost
        <5> QED BY <5>1
      <4>4. ~(h > exec)
        <5>1. ASSUME h > exec PROVE FALSE
          <6>1. h \in exec + 1 .. n
            BY <5>1, <2>1, <1>1
          <6>2. IsMir(h)
            BY <6>1, <1>6
          <6> QED BY <6>2, <4>1 DEF IsMir, IsHost
        <5> QED BY <5>1
      <4> QED BY <4>3, <4>4, <1>1
    <3>4. ASSUME NEW h \in 1 .. i - 1, HostAt(i, h)
          PROVE  i - h \in 1 .. Len(ctxs'[x].saved) /\ ctxs'[x].saved[i - h] = ctxs[x].saved[i - h]
      <4>1. h = exec
        BY <3>3, <3>4
      <4>2. i - h \in 1 .. n - 1 - exec
        BY <4>1, <2>1, <1>1
      <4> QED BY <4>2, <3>1, <1>14
    <3> QED BY <3>1, <3>2, <3>4, <1>14
  <2> QED BY <2>4, <2>5
<1>16. \A i \in 1 .. n - 1 : ActFits(i)' /\ (Recorded(acts[i])' <=> Recorded(acts[i]))
  <2>1. \A i \in 1 .. n - 1 : ActFits(i)
    BY <1>1 DEF CallInv
  <2> QED BY <1>1, <1>15, <2>1, KeptFits
<1>17. /\ FileAt(n - 1)' = FileAt(n - 1) /\ CtxAt(n - 1)' = CtxAt(n - 1)
       /\ IsMir(n - 1)' <=> IsMir(n - 1)
  <2>1. FileAt(n - 1)' = FileAt(n - 1) /\ CtxAt(n - 1)' = CtxAt(n - 1)
    BY <1>1, <1>15, KeptState
  <2> QED BY <2>1, <1>4, <1>12 DEF IsMir
<1>18. HostAt(n - 1, currentExecCtx)'
  <2>1. IsHost(exec)' /\ exec # 0
    <3>1. exec \in 1 .. n - 1 /\ acts'[exec] = acts[exec] /\ exec # 0
      BY <1>6, <1>12
    <3>2. IsHost(exec) /\ currentExecCtx' = currentExecCtx
      BY <1>6, <1>11
    <3> QED BY ONLY <3>1, <3>2 DEF IsHost
  <2>2. ASSUME NEW j \in exec + 1 .. n - 1 PROVE IsMir(j)'
    <3>1. j \in exec + 1 .. n /\ j \in 1 .. n - 1
      <4>1. n \in Nat /\ exec \in Nat /\ j \in exec + 1 .. n - 1
        BY <1>1
      <4> QED BY ONLY <4>1
    <3>2. IsMir(j) /\ acts'[j] = acts[j]
      BY <1>6, <1>12, <3>1
    <3> QED BY ONLY <3>2 DEF IsMir
  <2>3. n - 1 # 0 /\ exec \in 1 .. n - 1
    BY <1>4, <1>6
  <2> QED BY ONLY <1>11, <2>1, <2>2, <2>3 DEF HostAt
<1>19. TypeOK'
  <2>1. callStack' \in Seq(Functions)
    <3>1. callStack # <<>> => SubSeq(callStack, 1, Len(callStack) - 1) \in Seq(Functions)
      BY Shortened DEF CallInv, TypeOK
    <3>2. callStack = <<>> => SubSeq(callStack, 1, Len(callStack) - 1) \in Seq(Functions)
      BY DEF CallInv, TypeOK
    <3> QED BY <3>1, <3>2, <1>11 DEF CallInv, TypeOK
  <2>2. currentFile' \in Files /\ currentMirExecCtx' \in Nat /\ template' \in Bindings
    <3>1. frame.file \in Files /\ frame.ctx \in Nat /\ frame.template \in Saves
      BY <1>9, Fields
    <3>2. template \in Bindings
      BY DEF CallInv, TypeOK
    <3> HIDE DEF frame
    <3> QED BY <3>1, <3>2, <1>11, RestoredType
  <2>3. mode' \in Modes
    BY DEF LeaveFunction, Modes, Unwinding
  <2> QED BY <1>1, <1>11, <1>12, <1>14, <2>1, <2>2, <2>3 DEF CallInv, TypeOK
<1>20. ModeFits'
  <2>1. mode' \in {"value", "nonconst", "fail"} \/ (mode' = "run" /\ acts[n - 1].kind = "mir")
    BY <1>10 DEF LeaveFunction, Unwinding
  <2>2. CASE mode' \in {"value", "nonconst", "fail"}
    BY <2>2 DEF ModeFits
  <2>3. CASE mode' = "run" /\ acts[n - 1].kind = "mir"
    <3>1. Depth' > 0 /\ IsMir(Depth)'
      BY <2>3, <1>4, <1>12, <1>13, <1>17 DEF IsMir
    <3> QED BY <2>3, <3>1 DEF ModeFits
  <2> QED BY <2>1, <2>2, <2>3
<1>21. StateInForce'
  <2>1. currentFile' = FileAt(Depth)' /\ HostAt(Depth, currentExecCtx)'
    BY <1>7, <1>11, <1>12, <1>17, <1>18
  <2>2. currentMirExecCtx' = CtxAt(Depth)' /\ Len(ctxs') = CtxAt(Depth)'
    BY <1>7, <1>11, <1>12, <1>14, <1>17
  <2>3. IsMir(Depth)' => Len(ctxs'[acts'[Depth'].ctx].saved) = Depth' - currentExecCtx'
    BY <1>1, <1>4, <1>11, <1>12, <1>14, <1>17
  <2> QED BY <2>1, <2>2, <2>3 DEF StateInForce
<1>22. StackListsCalls'
  <2>1. callStack' = IF Recorded(acts[n]) THEN SubSeq(callStack, 1, Len(callStack) - 1)
                     ELSE callStack
    BY <1>7, <1>11
  <2> QED BY <1>1, <1>12, <1>16, <2>1, StackPopped DEF CallInv
<1>23. \A i \in 1 .. Depth' : ActFits(i)'
  BY <1>12, <1>16
<1>24. CallInv'
  BY <1>19, <1>20, <1>21, <1>22, <1>23 DEF CallInv
<1> QED BY <1>1, <1>2, <1>4, <1>5, <1>6, <1>11, <1>12, <1>15, <1>24

\* A call from the evaluator, or the initialisation of a global, ends.
LEMMA HostPopped ==
    ASSUME CallInv, NEW n, n = Depth, n > 0, IsHost(n), Pop,
           callStack' = IF acts[n].kind = "invoke" THEN SubSeq(callStack, 1, Len(callStack) - 1)
                        ELSE callStack,
           currentFile' = acts[n].file, currentExecCtx' = acts[n].exec,
           UNCHANGED <<currentMirExecCtx, ctxs>>, RestTyped,
           mode' \in {"done", "run", "nonconst", "fail"},
           mode' = "done" => n = 1, mode' = "run" => n > 1
    PROVE  CallInv' /\ n \in Nat /\ Depth' = n - 1 /\ Kept(n - 1)
<1>1. /\ n \in Nat /\ n \in 1 .. n /\ n - 1 \in Nat /\ n \in 1 .. Depth
      /\ acts[n] \in Activation /\ HostFits(n)
  <2>1. n \in Nat /\ n \in 1 .. n /\ n - 1 \in Nat /\ acts[n] \in Activation
    BY DEF CallInv, TypeOK, Depth
  <2> QED BY <2>1 DEF CallInv, ActFits
<1>2. /\ Depth' = n - 1 /\ acts' \in Seq(Activation)
      /\ \A i \in 1 .. n - 1 : acts'[i] = acts[i]
  BY <1>1, ActPopped DEF CallInv
<1>3. Kept(n - 1)
  <2>1. ASSUME NEW i \in 1 .. n - 1, IsMir(i) PROVE acts[i].ctx \in 1 .. Len(ctxs')
    BY <1>1, <2>1 DEF CallInv, ActFits, MirFits
  <2> QED BY <1>1, <1>2, <2>1, KeptSame
<1>4. \A i \in 1 .. n - 1 : ActFits(i)' /\ (Recorded(acts[i])' <=> Recorded(acts[i]))
  <2>1. \A i \in 1 .. n - 1 : ActFits(i)
    BY <1>1 DEF CallInv
  <2> QED BY <1>1, <1>3, <2>1, KeptFits
<1>5. /\ FileAt(n - 1)' = FileAt(n - 1) /\ CtxAt(n - 1)' = CtxAt(n - 1)
      /\ \A h : HostAt(n - 1, h)' <=> HostAt(n - 1, h)
      /\ n > 1 => (IsMir(n - 1)' <=> IsMir(n - 1)) /\ acts'[n - 1] = acts[n - 1]
  <2>1. /\ FileAt(n - 1)' = FileAt(n - 1) /\ CtxAt(n - 1)' = CtxAt(n - 1)
        /\ \A h : HostAt(n - 1, h)' <=> HostAt(n - 1, h)
    BY <1>1, <1>3, KeptState
  <2>2. n > 1 => n - 1 \in 1 .. n - 1
    BY <1>1
  <2> QED BY <2>1, <2>2, <1>2 DEF IsMir
<1>6. ~IsMir(n)
  BY DEF IsMir, IsHost
<1>7. TypeOK'
  <2>1. callStack' \in Seq(Functions)
    <3>1. callStack # <<>> => SubSeq(callStack, 1, Len(callStack) - 1) \in Seq(Functions)
      BY Shortened DEF CallInv, TypeOK
    <3>2. callStack = <<>> => SubSeq(callStack, 1, Len(callStack) - 1) \in Seq(Functions)
      BY DEF CallInv, TypeOK
    <3> QED BY <3>1, <3>2 DEF CallInv, TypeOK
  <2>2. currentFile' \in Files /\ currentExecCtx' \in Nat
    BY <1>1, <1>6, Fields DEF IsMir
  <2> QED BY <1>2, <2>1, <2>2 DEF CallInv, TypeOK, RestTyped
<1>8. ModeFits'
  <2>1. mode' = "run" => Depth' > 0 /\ IsMir(Depth)'
    BY <1>1, <1>2, <1>5 DEF HostFits
  <2>2. mode' = "done" => Depth' = 0
    BY <1>2
  <2> QED BY <2>1, <2>2 DEF ModeFits
<1>9. CtxAt(n) = CtxAt(n - 1)
  <2>1. CASE n = 1
    BY <2>1, <1>6 DEF CtxAt
  <2>2. CASE n > 1
    <3>1. CtxAt(n) = acts[n - 1].ctx
      BY <2>2, <1>1, <1>6 DEF CtxAt
    <3>2. IsMir(n - 1) /\ n - 1 > 0 /\ n - 1 # 0
      BY <2>2, <1>1 DEF HostFits
    <3>3. CtxAt(n - 1) = acts[n - 1].ctx
      BY <3>2 DEF CtxAt
    <3> QED BY <3>1, <3>3
  <2> QED BY <1>1, <2>1, <2>2
<1>10. StateInForce'
  <2>1. currentFile' = FileAt(Depth)' /\ HostAt(Depth, currentExecCtx)'
    <3>1. currentFile' = FileAt(n - 1)
      BY <1>1 DEF HostFits
    <3>2. HostAt(n - 1, acts[n].exec)
      BY <1>1 DEF HostFits
    <3>3. HostAt(n - 1, currentExecCtx)'
      <4>1. PICK e : e = acts[n].exec
        OBVIOUS
      <4>2. HostAt(n - 1, e)' /\ currentExecCtx' = e
        BY <4>1, <3>2, <1>5
      <4> QED BY <4>2
    <3> QED BY <3>1, <3>3, <1>2, <1>5
  <2>2. currentMirExecCtx' = CtxAt(Depth)' /\ Len(ctxs') = CtxAt(Depth)'
    BY <1>2, <1>5, <1>9 DEF CallInv, StateInForce
  <2>3. Depth' > 0 => Len(ctxs'[acts'[Depth'].ctx].saved) = Depth' - currentExecCtx'
    <3>1. SUFFICES ASSUME Depth' > 0
                   PROVE  Len(ctxs'[acts'[Depth'].ctx].saved) = Depth' - currentExecCtx'
      OBVIOUS
    <3>2. n > 1
      BY <3>1, <1>1, <1>2
    <3>3. Len(ctxs[acts[n - 1].ctx].saved) = n - 1 - acts[n].exec
      BY <3>2, <1>1 DEF HostFits
    <3> QED BY <3>2, <3>3, <1>2, <1>5
  <2> QED BY <2>1, <2>2, <2>3 DEF StateInForce
<1>11. StackListsCalls'
  <2>1. Recorded(acts[n]) <=> acts[n].kind = "invoke"
    BY <1>6 DEF Recorded, IsMir
  <2> QED BY <1>1, <1>2, <1>4, <2>1, StackPopped DEF CallInv
<1>12. \A i \in 1 .. Depth' : ActFits(i)'
  BY <1>2, <1>4
<1> QED BY <1>1, <1>2, <1>3, <1>7, <1>8, <1>10, <1>11, <1>12 DEF CallInv

\* Nothing is called and nothing ends.
LEMMA NoCall ==
    ASSUME CallInv, UNCHANGED <<callStack, currentFile, currentExecCtx, currentMirExecCtx,
                                ctxs, acts>>,
           RestTyped, ModeFits'
    PROVE  CallInv' /\ Kept(Depth)
<1>1. /\ Depth \in Nat /\ Depth' = Depth /\ \A i \in 1 .. Depth : Alike(i)
  BY DEF CallInv, TypeOK, Depth, Alike
<1>2. Kept(Depth)
  <2>1. ASSUME NEW i \in 1 .. Depth, IsMir(i) PROVE acts[i].ctx \in 1 .. Len(ctxs)
    BY <2>1 DEF CallInv, ActFits, MirFits
  <2> QED BY <1>1, <2>1, KeptSame
<1>3. \A i \in 1 .. Depth : ActFits(i)' /\ (Recorded(acts[i])' <=> Recorded(acts[i]))
  BY <1>1, <1>2, KeptFits DEF CallInv
<1>4. TypeOK'
  BY DEF CallInv, TypeOK, RestTyped
<1>5. StateInForce'
  <2>1. /\ FileAt(Depth)' = FileAt(Depth) /\ CtxAt(Depth)' = CtxAt(Depth)
        /\ HostAt(Depth, currentExecCtx)' <=> HostAt(Depth, currentExecCtx)
        /\ IsMir(Depth)' <=> IsMir(Depth)
    BY <1>1 DEF FileAt, CtxAt, HostAt, IsMir, IsHost
  <2> QED BY <1>1, <2>1 DEF CallInv, StateInForce
<1>6. StackListsCalls'
  <2>1. RecordedActs' = RecordedActs
    BY <1>1, <1>3 DEF RecordedActs
  <2>2. \A i : Rank(i)' = Rank(i)
    BY <2>1 DEF Rank
  <2> QED BY <2>1, <2>2 DEF CallInv, StackListsCalls
<1> QED BY <1>1, <1>2, <1>3, <1>4, <1>5, <1>6 DEF CallInv

\* The frame of a function that was entered is bound: only what its context and its
\* activation count changes.
LEMMA FrameBound ==
    ASSUME CallInv, BindFrame
    PROVE  CallInv' /\ Kept(Depth) /\ Depth' = Depth /\ Depth \in Nat
<1> DEFINE n == Depth
           k == acts[n].ctx
<1>1. n \in Nat /\ n > 0 /\ n \in 1 .. n /\ IsMir(n) /\ acts[n] \in MirActivation
  <2>1. n \in Nat /\ n > 0 /\ IsMir(n)
    BY DEF BindFrame, CallInv, ModeFits, TypeOK, Depth
  <2>2. acts[n] \in Activation
    BY <2>1 DEF CallInv, TypeOK, Depth
  <2> QED BY <2>1, <2>2 DEF IsMir, Activation, HostAct
<1>2. k \in 1 .. Len(ctxs) /\ ctxs \in Seq(Context) /\ ctxs[k] \in Context
  BY <1>1 DEF CallInv, TypeOK, ActFits, MirFits
<1>3. PICK binds \in BOOLEAN :
        /\ mode' = IF binds THEN "run" ELSE "fail"
        /\ acts' = [acts EXCEPT ![n].framed = binds]
        /\ ctxs' = [ctxs EXCEPT ![k].frames = IF binds THEN @ + 1 ELSE @]
        /\ UNCHANGED <<callStack, currentFile, currentExecCtx, currentMirExecCtx,
                       template, topState>>
        /\ failed' \in BOOLEAN
  <2>1. PICK ok \in BOOLEAN :
          LET kk == TopAct.ctx
              binds == ok /\ ctxs[kk].frames < MaxDepth
          IN /\ mode' = IF binds THEN "run" ELSE "fail"
             /\ acts' = [acts EXCEPT ![Depth].framed = binds]
             /\ ctxs' = [ctxs EXCEPT ![kk].frames = IF binds THEN @ + 1 ELSE @]
             /\ Fails(mode')
    BY DEF BindFrame
  <2>2. TopAct.ctx = k
    BY DEF TopAct
  <2>3. failed' \in BOOLEAN
    BY <2>1 DEF Fails
  <2>4. (ok /\ ctxs[k].frames < MaxDepth) \in BOOLEAN
    OBVIOUS
  <2> QED BY <2>1, <2>2, <2>3, <2>4 DEF BindFrame, host
<1> DEFINE a == [acts[n] EXCEPT !.framed = binds]
           c == [ctxs[k] EXCEPT !.frames = IF binds THEN @ + 1 ELSE @]
<1>4. /\ a \in Activation /\ a.kind = acts[n].kind /\ a.what = acts[n].what
      /\ a.ctx = acts[n].ctx /\ a.bound = acts[n].bound
  BY <1>1 DEF Activation, MirActivation
<1>5. c \in Context /\ c.root = ctxs[k].root /\ c.saved = ctxs[k].saved
  <2> DEFINE v == IF binds THEN ctxs[k].frames + 1 ELSE ctxs[k].frames
  <2>1. v \in Int
    BY <1>2, Fields
  <2>2. c = [ctxs[k] EXCEPT !.frames = v]
    OBVIOUS
  <2> HIDE DEF v, c
  <2> QED BY <1>2, <2>1, <2>2 DEF Context
<1>6. acts' = [acts EXCEPT ![n] = a] /\ ctxs' = [ctxs EXCEPT ![k] = c]
  BY <1>3
<1> HIDE DEF a, c
<1>7. /\ acts' \in Seq(Activation) /\ Depth' = n
      /\ \A i \in 1 .. n : acts'[i] = IF i = n THEN a ELSE acts[i]
  BY <1>1, <1>4, <1>6 DEF CallInv, TypeOK, Depth
<1>8. /\ ctxs' \in Seq(Context) /\ Len(ctxs') = Len(ctxs)
      /\ \A x \in 1 .. Len(ctxs) : ctxs'[x].root = ctxs[x].root /\ ctxs'[x].saved = ctxs[x].saved
  <2>1. /\ ctxs' \in Seq(Context) /\ Len(ctxs') = Len(ctxs)
        /\ \A x \in 1 .. Len(ctxs) : ctxs'[x] = IF x = k THEN c ELSE ctxs[x]
    BY <1>2, <1>5, <1>6
  <2> QED BY <2>1, <1>5
<1>9. \A i \in 1 .. n : Alike(i)
  BY <1>1, <1>4, <1>7 DEF Alike, IsHost, IsMir
<1>10. Kept(n)
  <2>1. ASSUME NEW i \in 1 .. n, IsMir(i)
        PROVE  /\ acts[i].ctx \in 1 .. Len(ctxs)
               /\ \A h \in 1 .. i - 1 : HostAt(i, h) => i - h \in 1 .. Len(ctxs[acts[i].ctx].saved)
    BY <2>1 DEF CallInv, ActFits, MirFits
  <2> QED BY <1>8, <1>9, <2>1 DEF Kept
<1>11. \A i \in 1 .. n : ActFits(i)' /\ (Recorded(acts[i])' <=> Recorded(acts[i]))
  BY <1>1, <1>10, KeptFits DEF CallInv
<1>12. TypeOK'
  BY <1>3, <1>7, <1>8 DEF CallInv, TypeOK, Modes
<1>13. /\ FileAt(n)' = FileAt(n) /\ CtxAt(n)' = CtxAt(n)
       /\ HostAt(n, currentExecCtx)' <=> HostAt(n, currentExecCtx)
       /\ IsMir(n)' /\ acts'[n].ctx = k
  BY <1>1, <1>3, <1>4, <1>7 DEF FileAt, CtxAt, HostAt, IsHost, IsMir
<1>14. ModeFits'
  BY <1>1, <1>3, <1>7, <1>13 DEF ModeFits
<1>15. StateInForce'
  <2>1. Len(ctxs[k].saved) = n - currentExecCtx
    BY <1>1 DEF CallInv, StateInForce
  <2> QED BY <1>2, <1>3, <1>7, <1>8, <1>13, <2>1 DEF CallInv, StateInForce
<1>16. StackListsCalls'
  <2>1. RecordedActs' = RecordedActs
    BY <1>7, <1>11 DEF RecordedActs
  <2>2. \A i : Rank(i)' = Rank(i)
    BY <2>1 DEF Rank
  <2>3. \A i \in RecordedActs : acts'[i].what = acts[i].what
    BY <1>9 DEF Alike, RecordedActs
  <2> QED BY <1>3, <2>1, <2>2, <2>3 DEF CallInv, StackListsCalls
<1> QED BY <1>1, <1>7, <1>10, <1>11, <1>12, <1>14, <1>15, <1>16 DEF CallInv

-----------------------------------------------------------------------------
(* The template bindings under the same effects.                           *)

\* A step that calls nothing and ends nothing leaves the bindings as they are.
LEMMA BindingKept ==
    ASSUME CallInv, TemplateInv, NEW n \in Nat, n = Depth, Depth' = n, Kept(n),
           failed' = failed, template' = template
    PROVE  TemplateInv'
<1> SUFFICES ASSUME ~failed'
             PROVE  BindingAt(Depth, template)' /\ \A i \in 1 .. Depth' : BindingFits(i)'
  BY DEF TemplateInv
<1>1. BindingAt(n, template) /\ \A i \in 1 .. n : BindingFits(i) /\ ActFits(i)
  BY DEF TemplateInv, CallInv
<1>2. \A i \in 1 .. n : BindingFits(i)'
  BY <1>1, KeptFits
<1>3. \A v : BindingAt(n, v)' <=> BindingAt(n, v)
  BY KeptState
<1>4. BindingAt(n, template)'
  <2>1. PICK v : v = template
    OBVIOUS
  <2> QED BY <2>1, <1>1, <1>3
<1> QED BY <1>2, <1>4

\* A call that made a binding has saved the one before.
LEMMA BindingPushed ==
    ASSUME CallInv, TemplateInv, NEW n \in Nat, n = Depth, Depth' = n + 1, Kept(n),
           ~failed' => ~failed, NEW saved, NEW bound, acts'[n + 1].bound = bound,
           \/ saved = NoSave /\ bound = None /\ template' = template
           \/ saved = <<template>> /\ template' = IF bound = None THEN template ELSE bound,
           IsHost(n + 1)' => acts'[n + 1].saved = saved,
           IsMir(n + 1)' => \A h \in 1 .. n : HostAt(n + 1, h)' =>
              ctxs'[acts'[n + 1].ctx].saved[n + 1 - h].template = saved
    PROVE  TemplateInv'
<1> SUFFICES ASSUME ~failed'
             PROVE  BindingAt(Depth, template)' /\ \A i \in 1 .. Depth' : BindingFits(i)'
  BY DEF TemplateInv
<1>1. BindingAt(n, template) /\ \A i \in 1 .. n : BindingFits(i) /\ ActFits(i)
  BY DEF TemplateInv, CallInv
<1>2. \A i \in 1 .. n : BindingFits(i)'
  BY <1>1, KeptFits
<1>3. \A v : BindingAt(n, v)' <=> BindingAt(n, v)
  BY KeptState
<1>4. PICK old : old = template
  OBVIOUS
<1>5. BindingAt(n, old)'
  BY <1>1, <1>3, <1>4
<1>6. \A i \in 1 .. n : acts'[i].bound = acts[i].bound
  BY DEF Kept, Alike
<1>7. BindingAt(n + 1, template)'
  <2>1. CASE bound = None
    <3>1. template' = old
      BY <2>1, <1>4
    <3>2. PICK m \in 0 .. n :
            /\ \A j \in m + 1 .. n : acts'[j].bound = None
            /\ IF m = 0 THEN old = None ELSE acts'[m].bound # None /\ old = acts'[m].bound
      BY <1>5 DEF BindingAt
    <3>3. m \in 0 .. n + 1 /\ \A j \in m + 1 .. n + 1 : acts'[j].bound = None
      BY <2>1, <3>2
    <3> QED BY <3>1, <3>2, <3>3 DEF BindingAt
  <2>2. CASE bound # None
    <3>1. template' = bound
      BY <2>2
    <3>2. n + 1 \in 0 .. n + 1 /\ n + 1 # 0 /\ \A j \in (n + 1) + 1 .. n + 1 : acts'[j].bound = None
      OBVIOUS
    <3> QED BY <2>2, <3>1, <3>2 DEF BindingAt
  <2> QED BY <2>1, <2>2
<1>8. BindingFits(n + 1)'
  <2>1. BindingSaved(n + 1, saved)'
    <3>1. CASE saved = NoSave
      <4>1. bound = None
        BY <3>1 DEF NoSave
      <4> QED BY <3>1, <4>1 DEF BindingSaved
    <3>2. CASE saved # NoSave
      <4>1. saved = <<old>> /\ (n + 1) - 1 = n
        BY <3>2, <1>4
      <4>2. saved[1] = old
        BY <4>1
      <4> QED BY <3>2, <4>1, <4>2, <1>5 DEF BindingSaved
    <3> QED BY <3>1, <3>2
  <2>2. (n + 1) - 1 = n
    OBVIOUS
  <2> QED BY <2>1, <2>2 DEF BindingFits
<1> QED BY <1>2, <1>7, <1>8

\* The end of a call gives back the binding it replaced.
LEMMA BindingPopped ==
    ASSUME CallInv, TemplateInv, NEW n \in Nat, n = Depth, n > 0, Depth' = n - 1, Kept(n - 1),
           ~failed' => ~failed, NEW saved, ~failed => BindingSaved(n, saved),
           template' = Restored(saved, template)
    PROVE  TemplateInv'
<1> SUFFICES ASSUME ~failed'
             PROVE  BindingAt(Depth, template)' /\ \A i \in 1 .. Depth' : BindingFits(i)'
  BY DEF TemplateInv
<1>0. n - 1 \in Nat /\ n - 1 \in 0 .. n - 1 /\ \A i \in 1 .. n - 1 : i \in 1 .. n
  OBVIOUS
<1>1. BindingAt(n, template) /\ \A i \in 1 .. n : BindingFits(i) /\ ActFits(i)
  BY DEF TemplateInv, CallInv
<1>2. \A i \in 1 .. n - 1 : BindingFits(i)'
  BY <1>0, <1>1, KeptFits
<1>3. \A v : BindingAt(n - 1, v)' <=> BindingAt(n - 1, v)
  BY <1>0, KeptState
<1>4. PICK new : new = template'
  OBVIOUS
<1>5. BindingAt(n - 1, new)
  <2>1. CASE saved = NoSave
    <3>1. acts[n].bound = None /\ new = template
      BY <2>1, <1>4 DEF BindingSaved, Restored
    <3>2. PICK m \in 0 .. n :
            /\ \A j \in m + 1 .. n : acts[j].bound = None
            /\ IF m = 0 THEN new = None ELSE acts[m].bound # None /\ new = acts[m].bound
      BY <1>1, <3>1 DEF BindingAt
    <3>3. m \in 0 .. n - 1 /\ \A j \in m + 1 .. n - 1 : acts[j].bound = None
      BY <3>1, <3>2
    <3> QED BY <3>2, <3>3 DEF BindingAt
  <2>2. CASE saved # NoSave
    BY <2>2, <1>4 DEF BindingSaved, Restored
  <2> QED BY <2>1, <2>2
<1>6. BindingAt(n - 1, template)'
  <2>1. BindingAt(n - 1, new)'
    BY <1>3, <1>5
  <2> QED BY <2>1, <1>4
<1> QED BY <1>2, <1>6

-----------------------------------------------------------------------------
(* Every step preserves the two invariants.                                *)

\* HOPEvalInvokeFunction on each of its roads: from the start of the program, from a
\* dynamic call, from a hook and from a function reference.
LEMMA Invoked ==
    ASSUME CallInv, TemplateInv, NEW f \in Functions, NEW saved \in Saves,
           NEW bound \in Bindings, InvokeFunction(f, saved, bound),
           Depth = 0 \/ Running,
           \/ saved = NoSave /\ bound = None /\ template' = template
           \/ saved = <<template>> /\ template' = IF bound = None THEN template ELSE bound
    PROVE  CallInv' /\ TemplateInv'
<1>1. f \in Names
  BY CallsAssumption DEF Names
<1>2. Depth > 0 => IsMir(Depth)
  BY DEF Running, InMir, TopAct, IsMir
<1>3. RestTyped /\ mode' = "enter"
  <2>1. template' \in Bindings
    BY DEF CallInv, TypeOK
  <2> QED BY <2>1 DEF InvokeFunction, CallInv, TypeOK, RestTyped, Modes
<1>4. /\ Push(Act("invoke", f, saved, bound)) /\ callStack' = Append(callStack, f)
      /\ currentFile' = FileOf[f] /\ currentExecCtx' = Depth + 1
      /\ UNCHANGED <<currentMirExecCtx, ctxs>> /\ failed' = failed
  BY DEF InvokeFunction
<1>5. PICK m : m = Depth
  OBVIOUS
<1>6. /\ CallInv' /\ Kept(m) /\ m \in Nat /\ Depth' = m + 1
      /\ acts'[m + 1] = Act("invoke", f, saved, bound)
  BY <1>1, <1>2, <1>3, <1>4, <1>5, HostPushed
<1>7. acts'[m + 1].bound = bound /\ acts'[m + 1].saved = saved /\ ~IsMir(m + 1)'
  BY <1>6 DEF Act, IsMir
<1>8. TemplateInv'
  BY <1>4, <1>5, <1>6, <1>7, BindingPushed
<1> QED BY <1>6, <1>8

\* Bindings and saved bindings.
LEMMA BindingTypes ==
    /\ Functions \subseteq Bindings /\ None \in Bindings /\ NoSave \in Saves
    /\ \A b \in Bindings : <<b>> \in Saves
BY DEF Bindings, Saves, NoSave

\* The end of every road into MIR code: the function is entered and its activation
\* pushed.
LEMMA MirEntered ==
    ASSUME CallInv, TemplateInv, Depth > 0, NEW cs, NEW f \in Names, NEW pending \in Saves,
           NEW direct \in BOOLEAN, NEW bound \in Bindings,
           \/ IsMir(Depth) /\ cs = ctxs
           \/ /\ IsHost(Depth) /\ f = acts[Depth].what
              /\ cs = Append(ctxs, [root |-> f, saved |-> <<>>, frames |-> 0]),
           EnterFunction(cs, Len(cs), f, pending), Push(MirAct(f, Len(cs), direct, bound)),
           currentExecCtx' = currentExecCtx, topState' = topState, failed' = failed,
           mode' = "entered",
           \/ pending = NoSave /\ bound = None /\ template' = template
           \/ pending = <<template>> /\ template' = IF bound = None THEN template ELSE bound
    PROVE  CallInv' /\ TemplateInv'
<1>1. RestTyped
  <2>1. template' \in Bindings
    BY DEF CallInv, TypeOK
  <2> QED BY <2>1 DEF CallInv, TypeOK, RestTyped, Modes
<1>2. PICK m : m = Depth
  OBVIOUS
<1>3. PICK k : k = Len(cs)
  OBVIOUS
<1>4. /\ CallInv' /\ Kept(m) /\ m \in Nat /\ Depth' = m + 1
      /\ acts'[m + 1] = MirAct(f, k, direct, bound)
      /\ \A h \in 1 .. m : HostAt(m + 1, h)' =>
            ctxs'[k].saved[m + 1 - h].template = pending
  BY <1>1, <1>2, <1>3, MirPushed
<1>5. acts'[m + 1].bound = bound /\ acts'[m + 1].ctx = k /\ ~IsHost(m + 1)'
  BY <1>4 DEF MirAct, IsHost
<1>6. TemplateInv'
  <2>1. /\ CallInv /\ TemplateInv /\ m \in Nat /\ m = Depth /\ Depth' = m + 1 /\ Kept(m)
        /\ acts'[m + 1].bound = bound
    BY <1>2, <1>4, <1>5
  <2>2. ~failed' => ~failed
    OBVIOUS
  <2>3. \/ pending = NoSave /\ bound = None /\ template' = template
        \/ pending = <<template>> /\ template' = IF bound = None THEN template ELSE bound
    OBVIOUS
  <2>4. IsHost(m + 1)' => acts'[m + 1].saved = pending
    BY ONLY <1>5
  <2>5. IsMir(m + 1)' => \A h \in 1 .. m : HostAt(m + 1, h)' =>
           ctxs'[acts'[m + 1].ctx].saved[m + 1 - h].template = pending
    BY ONLY <1>4, <1>5
  <2> QED BY ONLY <2>1, <2>2, <2>3, <2>4, <2>5, BindingPushed
<1> QED BY <1>4, <1>6

\* A step that calls nothing and ends nothing.
LEMMA Rested ==
    ASSUME CallInv, TemplateInv,
           UNCHANGED <<callStack, currentFile, currentExecCtx, currentMirExecCtx, ctxs, acts>>,
           RestTyped,
           mode' = mode \/ mode' \in {"value", "nonconst", "fail"},
           failed' \/ (failed' = failed /\ template' = template)
    PROVE  CallInv' /\ TemplateInv'
<1>1. ModeFits'
  BY DEF CallInv, ModeFits, Depth, IsHost, IsMir
<1>2. CallInv' /\ Kept(Depth)
  BY <1>1, NoCall
<1>3. Depth \in Nat /\ Depth' = Depth
  BY DEF CallInv, TypeOK, Depth
<1>4. CASE failed'
  BY <1>2, <1>4 DEF TemplateInv
<1>5. CASE failed' = failed /\ template' = template
  BY <1>2, <1>3, <1>5, BindingKept
<1> QED BY <1>2, <1>4, <1>5

\* The MIR function that runs stands in the youngest context.
LEMMA RunningContext ==
    ASSUME CallInv, Running
    PROVE  /\ Depth \in Nat /\ Depth > 0 /\ IsMir(Depth) /\ TopAct = acts[Depth]
           /\ TopAct.ctx = Len(ctxs) /\ currentMirExecCtx = Len(ctxs)
<1>1. Depth \in Nat /\ Depth > 0 /\ IsMir(Depth)
  BY DEF CallInv, TypeOK, Depth, Running, InMir, TopAct, IsMir
<1>2. CtxAt(Depth) = acts[Depth].ctx
  BY <1>1 DEF CtxAt
<1> QED BY <1>1, <1>2 DEF CallInv, StateInForce, TopAct

\* CALL_FN and CALL_INDIRECT, refused or not.
LEMMA CallFnStep ==
    ASSUME CallInv, TemplateInv, NEW f \in Names, NEW fits \in BOOLEAN, NEW binds \in BOOLEAN,
           CallFn(f, fits, binds)
    PROVE  CallInv' /\ TemplateInv'
<1> DEFINE bound == IF binds THEN f ELSE None
           pending == IF binds THEN <<template>> ELSE NoSave
<1>1. /\ Running /\ (binds => f \in Functions /\ fits)
      /\ template' = IF binds THEN f ELSE template
      /\ currentExecCtx' = currentExecCtx /\ topState' = topState
  BY DEF CallFn
<1>2. /\ Depth \in Nat /\ Depth > 0 /\ IsMir(Depth)
      /\ TopAct.ctx = Len(ctxs)
  BY <1>1, RunningContext
<1>3. template \in Bindings /\ template' \in Bindings /\ bound \in Bindings /\ pending \in Saves
  BY <1>1, BindingTypes DEF CallInv, TypeOK
<1>4. CASE ~fits \/ EnterRefused(ctxs[Len(ctxs)], f)
  <2>1. /\ mode' = IF fits THEN "fail" ELSE "nonconst"
        /\ failed' = (failed \/ mode' = "fail")
        /\ UNCHANGED <<callStack, currentFile, currentMirExecCtx, ctxs, acts>>
    BY <1>2, <1>4 DEF CallFn, Fails
  <2>2. failed' \in BOOLEAN /\ mode' \in Modes /\ mode' \in {"fail", "nonconst"}
    BY <2>1 DEF Modes
  <2>3. failed' \/ (failed' = failed /\ template' = template)
    <3>1. CASE fits
      BY <2>1, <3>1
    <3>2. CASE ~fits
      <4>1. mode' # "fail" /\ ~binds /\ failed \in BOOLEAN
        BY <3>2, <2>1, <1>1 DEF CallInv, TypeOK
      <4> QED BY <4>1, <2>1, <1>1
    <3> QED BY <3>1, <3>2
  <2>4. RestTyped
    BY <1>1, <1>3, <2>2 DEF RestTyped, CallInv, TypeOK
  <2> QED BY <1>1, <2>1, <2>2, <2>3, <2>4, Rested
<1>5. CASE ~(~fits \/ EnterRefused(ctxs[Len(ctxs)], f))
  <2>1. /\ EnterFunction(ctxs, Len(ctxs), f, pending)
        /\ Push(MirAct(f, Len(ctxs), TRUE, bound))
        /\ mode' = "entered" /\ failed' = failed
    BY <1>2, <1>5 DEF CallFn
  <2>2. \/ pending = NoSave /\ bound = None /\ template' = template
        \/ pending = <<template>> /\ template' = IF bound = None THEN template ELSE bound
    BY <1>1, CallsAssumption
  <2> HIDE DEF pending, bound
  <2> QED BY <1>1, <1>2, <1>3, <2>1, <2>2, MirEntered
<1> QED BY <1>4, <1>5

\* A function reference to MIR code, refused or not.
LEMMA CallMirRefStep ==
    ASSUME CallInv, TemplateInv, NEW f \in Names, CallMirRef(f)
    PROVE  CallInv' /\ TemplateInv'
<1>1. /\ Running /\ UNCHANGED <<currentExecCtx, template, topState>>
  BY DEF CallMirRef
<1>2. Depth \in Nat /\ Depth > 0 /\ IsMir(Depth) /\ currentMirExecCtx = Len(ctxs)
  BY <1>1, RunningContext
<1>3. template' \in Bindings /\ None \in Bindings /\ NoSave \in Saves
  BY <1>1, BindingTypes DEF CallInv, TypeOK
<1>4. CASE EnterRefused(ctxs[Len(ctxs)], f)
  <2>1. /\ mode' = "fail" /\ failed' = TRUE
        /\ UNCHANGED <<callStack, currentFile, currentMirExecCtx, ctxs, acts>>
    BY <1>2, <1>4 DEF CallMirRef
  <2>2. RestTyped
    BY <1>1, <1>3, <2>1 DEF RestTyped, CallInv, TypeOK, Modes
  <2> QED BY <1>1, <2>1, <2>2, Rested
<1>5. CASE ~EnterRefused(ctxs[Len(ctxs)], f)
  <2>1. /\ EnterFunction(ctxs, Len(ctxs), f, NoSave)
        /\ Push(MirAct(f, Len(ctxs), FALSE, None))
        /\ mode' = "entered" /\ failed' = failed
    BY <1>2, <1>5 DEF CallMirRef
  <2> QED BY <1>1, <1>2, <1>3, <2>1, MirEntered
<1> QED BY <1>4, <1>5

\* A function or an initialiser is run as MIR code.
LEMMA RunRootStep ==
    ASSUME CallInv, TemplateInv, RunRoot
    PROVE  CallInv' /\ TemplateInv'
<1> DEFINE f == acts[Depth].what
           cs == Append(ctxs, [root |-> f, saved |-> <<>>, frames |-> 0])
<1>1. Depth > 0 /\ IsHost(Depth) /\ Depth \in Nat
  BY DEF RunRoot, CallInv, ModeFits, TypeOK, Depth
<1>2. f \in Names
  <2>1. acts[Depth] \in Activation
    BY <1>1 DEF CallInv, TypeOK, Depth
  <2> QED BY <2>1, Fields
<1>3. None \in Bindings /\ NoSave \in Saves
  BY BindingTypes
<1>4. Len(cs) = Len(ctxs) + 1
  BY DEF CallInv, TypeOK
<1>5. /\ EnterFunction(cs, Len(cs), f, NoSave) /\ Push(MirAct(f, Len(cs), FALSE, None))
      /\ mode' = "entered" /\ UNCHANGED <<currentExecCtx, template, topState, failed>>
  BY <1>4 DEF RunRoot, TopAct
<1>6. PICK g, ds : g = f /\ ds = cs
  OBVIOUS
<1> QED BY <1>1, <1>2, <1>3, <1>5, <1>6, MirEntered

\* Its frame is bound.
LEMMA BindFrameStep ==
    ASSUME CallInv, TemplateInv, BindFrame
    PROVE  CallInv' /\ TemplateInv'
<1>1. CallInv' /\ Kept(Depth) /\ Depth' = Depth /\ Depth \in Nat
  BY FrameBound
<1>2. template' = template /\ (failed' \/ failed' = failed)
  BY DEF BindFrame, Fails, host, CallInv, TypeOK
<1>3. CASE failed'
  BY <1>1, <1>3 DEF TemplateInv
<1>4. CASE failed' = failed
  BY <1>1, <1>2, <1>4, BindingKept
<1> QED BY <1>1, <1>2, <1>3, <1>4

\* MIR code returns.
LEMMA LeaveFunctionStep ==
    ASSUME CallInv, TemplateInv, LeaveFunction
    PROVE  CallInv' /\ TemplateInv'
<1>1. PICK n, e : n = Depth /\ e = currentExecCtx
  OBVIOUS
<1>2. /\ CallInv' /\ n \in Nat /\ n > 1 /\ Depth' = n - 1 /\ IsMir(n) /\ Kept(n - 1)
      /\ HostAt(n, e) /\ e \in 1 .. n - 1
      /\ template' = Restored(ctxs[acts[n].ctx].saved[n - e].template, template)
  BY <1>1, MirPopped
<1>3. failed' = failed
  BY DEF LeaveFunction
<1>4. ASSUME ~failed PROVE BindingSaved(n, ctxs[acts[n].ctx].saved[n - e].template)
  <2>1. BindingFits(n)
    BY <1>1, <1>2, <1>4 DEF TemplateInv
  <2> QED BY <2>1, <1>2 DEF BindingFits
<1>5. TemplateInv'
  BY <1>1, <1>2, <1>3, <1>4, BindingPopped
<1> QED BY <1>2, <1>5

\* HOPEvalInvokeFunction returns.
LEMMA ReturnFromInvokeStep ==
    ASSUME CallInv, TemplateInv, ReturnFromInvoke
    PROVE  CallInv' /\ TemplateInv'
<1>1. PICK n : n = Depth
  OBVIOUS
<1>2. n > 0 /\ n \in Nat /\ acts[n].kind = "invoke" /\ IsHost(n)
  BY <1>1 DEF ReturnFromInvoke, TopAct, IsHost, CallInv, TypeOK, Depth
<1>3. /\ Pop /\ currentFile' = acts[n].file /\ currentExecCtx' = acts[n].exec
      /\ callStack' = SubSeq(callStack, 1, Len(callStack) - 1)
      /\ UNCHANGED <<currentMirExecCtx, ctxs>> /\ topState' = topState
      /\ template' = Restored(acts[n].saved, template)
      /\ mode' \in IF n = 1 THEN {"done"}
                   ELSE IF mode = "value" THEN {"run", "nonconst", "fail"} ELSE {"fail"}
      /\ failed' = (failed \/ mode' = "fail")
  BY <1>1 DEF ReturnFromInvoke, TopAct, Fails
<1>4. /\ mode' \in {"done", "run", "nonconst", "fail"}
      /\ mode' = "done" => n = 1
      /\ mode' = "run" => n > 1
  BY <1>2, <1>3
<1>5. RestTyped
  <2>1. acts[n].saved \in Saves
    <3>1. acts[n] \in Activation
      BY <1>1, <1>2 DEF CallInv, TypeOK, Depth
    <3> QED BY <3>1, <1>2, Fields
  <2>2. template' \in Bindings
    BY <2>1, <1>3, RestoredType DEF CallInv, TypeOK
  <2> QED BY <2>2, <1>3, <1>4 DEF RestTyped, CallInv, TypeOK, Modes
<1>6. CallInv' /\ Depth' = n - 1 /\ Kept(n - 1)
  BY <1>1, <1>2, <1>3, <1>4, <1>5, HostPopped
<1>7. ASSUME ~failed PROVE BindingSaved(n, acts[n].saved)
  BY <1>1, <1>2, <1>7 DEF TemplateInv, BindingFits
<1>8. TemplateInv'
  BY <1>1, <1>2, <1>3, <1>6, <1>7, BindingPopped
<1> QED BY <1>6, <1>8

\* The initialisation of a global ends.
LEMMA FinishInitStep ==
    ASSUME CallInv, TemplateInv, FinishInit
    PROVE  CallInv' /\ TemplateInv'
<1>1. PICK n : n = Depth
  OBVIOUS
<1>2. n > 0 /\ n \in Nat /\ acts[n].kind = "init" /\ IsHost(n)
  BY <1>1 DEF FinishInit, TopAct, IsHost, CallInv, TypeOK, Depth
<1>3. HostFits(n)
  BY <1>1, <1>2 DEF CallInv, ActFits
<1>4. n > 1 /\ acts[n].saved = NoSave
  BY <1>2, <1>3 DEF HostFits
<1>5. /\ Pop /\ currentFile' = acts[n].file /\ currentExecCtx' = acts[n].exec
      /\ callStack' = callStack /\ UNCHANGED <<currentMirExecCtx, ctxs>>
      /\ template' = template /\ failed' = failed
      /\ mode' \in {"run", "nonconst", "fail"}
  BY <1>1 DEF FinishInit, TopAct, AfterInit
<1>6. RestTyped
  <2>1. topState' \in [Globals -> {"unseen", "visiting", "ready", "failed"}]
    BY DEF FinishInit, CallInv, TypeOK
  <2> QED BY <2>1, <1>5 DEF RestTyped, CallInv, TypeOK, Modes
<1>7. CallInv' /\ Depth' = n - 1 /\ Kept(n - 1)
  BY <1>1, <1>2, <1>4, <1>5, <1>6, HostPopped
<1>8. ASSUME ~failed PROVE BindingSaved(n, acts[n].saved)
  BY <1>1, <1>2, <1>8 DEF TemplateInv, BindingFits
<1>9. template' = Restored(acts[n].saved, template)
  BY <1>4, <1>5 DEF Restored
<1>10. TemplateInv'
  BY <1>1, <1>2, <1>5, <1>7, <1>8, <1>9, BindingPopped
<1> QED BY <1>7, <1>10

\* A global is read for the first time.
LEMMA ReadTopStep ==
    ASSUME CallInv, TemplateInv, NEW g \in Globals, ReadTop(g)
    PROVE  CallInv' /\ TemplateInv'
<1>1. Depth \in Nat /\ Depth > 0 /\ IsMir(Depth)
  BY RunningContext DEF ReadTop
<1>2. g \in Names
  BY CallsAssumption DEF Names
<1>3. CASE /\ Push(Act("init", g, NoSave, None))
           /\ topState' = [topState EXCEPT ![g] = "visiting"]
           /\ currentFile' = FileOf[g]
           /\ currentExecCtx' = Depth + 1
           /\ mode' = "enter"
           /\ UNCHANGED <<callStack, currentMirExecCtx, template, ctxs, failed>>
  <2>1. PICK n : n = Depth
    OBVIOUS
  <2>2. RestTyped
    <3>1. topState' \in [Globals -> {"unseen", "visiting", "ready", "failed"}]
      BY <1>3 DEF CallInv, TypeOK
    <3> QED BY <3>1, <1>3 DEF RestTyped, CallInv, TypeOK, Modes
  <2>3. /\ CallInv' /\ Kept(n) /\ n \in Nat /\ Depth' = n + 1
        /\ acts'[n + 1] = Act("init", g, NoSave, None)
    BY <1>1, <1>2, <1>3, <2>1, <2>2, BindingTypes, HostPushed
  <2>4. acts'[n + 1].bound = None /\ acts'[n + 1].saved = NoSave /\ ~IsMir(n + 1)'
    BY <2>3 DEF Act, IsMir
  <2>5. TemplateInv'
    BY <1>3, <2>1, <2>3, <2>4, BindingPushed
  <2> QED BY <2>3, <2>5
<1>4. CASE mode' = "nonconst" /\ UNCHANGED <<host, ctxs, acts, topState, failed>>
  <2>1. RestTyped
    BY <1>4 DEF RestTyped, CallInv, TypeOK, Modes, host
  <2> QED BY <1>4, <2>1, Rested DEF host
<1> QED BY <1>3, <1>4 DEF ReadTop

\* The steps that leave the activations alone.
LEMMA RestedSteps ==
    ASSUME CallInv, TemplateInv,
           NotLowered \/ EndRun \/ (\E g \in Globals : AssignTop(g)) \/ UNCHANGED vars
    PROVE  CallInv' /\ TemplateInv'
<1>1. UNCHANGED <<callStack, currentFile, currentExecCtx, currentMirExecCtx, ctxs, acts>>
  BY DEF NotLowered, EndRun, AssignTop, vars, host
<1>2. template' = template
  BY DEF NotLowered, EndRun, AssignTop, vars, host
<1>3. mode' = mode \/ mode' \in {"value", "nonconst", "fail"}
  BY DEF NotLowered, EndRun, AssignTop, vars
<1>4. failed' \in BOOLEAN /\ (failed' \/ failed' = failed)
  BY DEF NotLowered, EndRun, AssignTop, vars, Fails, CallInv, TypeOK
<1>5. RestTyped
  <2>1. topState' \in [Globals -> {"unseen", "visiting", "ready", "failed"}]
    BY DEF NotLowered, EndRun, AssignTop, vars, CallInv, TypeOK
  <2> QED BY <2>1, <1>2, <1>3, <1>4 DEF RestTyped, CallInv, TypeOK, Modes
<1> QED BY <1>1, <1>2, <1>3, <1>4, <1>5, Rested

\* The evaluator starts with no call and nothing bound.
LEMMA Start == Init => CallInv /\ TemplateInv
<1> SUFFICES ASSUME Init PROVE CallInv /\ TemplateInv
  OBVIOUS
<1>1. acts = <<>> /\ Depth = 0 /\ callStack = <<>>
  BY DEF Init, Depth
<1>2. TypeOK
  <2>1. <<>> \in Seq(Functions) /\ <<>> \in Seq(Context) /\ <<>> \in Seq(Activation)
    OBVIOUS
  <2>2. None \in Files /\ None \in Bindings
    BY DEF Files, Bindings
  <2> QED BY <2>1, <2>2 DEF Init, TypeOK, Modes
<1>3. ModeFits
  BY <1>1 DEF Init, ModeFits
<1>4. StateInForce
  BY <1>1 DEF Init, StateInForce, FileAt, HostAt, CtxAt
<1>5. StackListsCalls
  <2>1. RecordedActs = {}
    BY <1>1 DEF RecordedActs
  <2> QED BY <2>1, <1>1, FS_EmptySet DEF StackListsCalls
<1>6. TemplateInv
  BY <1>1 DEF Init, TemplateInv, BindingAt
<1> QED BY <1>1, <1>2, <1>3, <1>4, <1>5, <1>6 DEF CallInv

\* Every step of the evaluator preserves the invariants.
LEMMA Step ==
    ASSUME CallInv, TemplateInv, [Next]_vars
    PROVE  CallInv' /\ TemplateInv'
<1>1. Callables \subseteq Names /\ Globals \subseteq Names /\ Functions \subseteq Names
  BY CallsAssumption DEF Callables, Names
<1>2. CASE StartMain
  <2>1. Depth = 0 /\ InvokeFunction(Main, NoSave, None) /\ template' = template
    BY <1>2 DEF StartMain, CallInv, ModeFits
  <2> QED BY <2>1, CallsAssumption, BindingTypes, Invoked
<1>3. CASE RunRoot
  BY <1>3, RunRootStep
<1>4. CASE BindFrame
  BY <1>4, BindFrameStep
<1>5. CASE Call
  <2>1. ASSUME NEW f \in Callables, NEW fits \in BOOLEAN, NEW binds \in BOOLEAN,
               CallFn(f, fits, binds)
        PROVE  CallInv' /\ TemplateInv'
    BY <1>1, <2>1, CallFnStep
  <2>2. ASSUME NEW g \in Globals, CallInit(g) PROVE CallInv' /\ TemplateInv'
    BY <1>1, <2>2, CallFnStep DEF CallInit
  <2>3. ASSUME NEW f \in Functions, NEW binds \in BOOLEAN,
               CallDynamic(f, binds) \/ CallFunctionRef(f, binds)
        PROVE  CallInv' /\ TemplateInv'
    <3> DEFINE bound == IF binds THEN f ELSE None
    <3>1. <<template>> \in Saves /\ bound \in Bindings
      BY BindingTypes DEF CallInv, TypeOK
    <3>2. CASE /\ Running /\ InvokeFunction(f, <<template>>, bound)
               /\ template' = IF binds THEN f ELSE template
      <4>1. template' = IF bound = None THEN template ELSE bound
        BY <3>2, CallsAssumption
      <4> HIDE DEF bound
      <4> QED BY <3>1, <3>2, <4>1, Invoked
    <3>3. CASE mode' = "nonconst" /\ UNCHANGED <<host, ctxs, acts, topState, failed>>
      <4>1. RestTyped
        BY <3>3 DEF RestTyped, CallInv, TypeOK, Modes, host
      <4> QED BY <3>3, <4>1, Rested DEF host
    <3> QED BY <2>3, <3>2, <3>3 DEF CallDynamic, CallFunctionRef
  <2>4. ASSUME NEW f \in Functions, CallHook(f) PROVE CallInv' /\ TemplateInv'
    BY <2>4, BindingTypes, Invoked DEF CallHook
  <2>5. ASSUME NEW f \in Callables, CallMirRef(f) PROVE CallInv' /\ TemplateInv'
    BY <1>1, <2>5, CallMirRefStep
  <2> QED BY <1>5, <2>1, <2>2, <2>3, <2>4, <2>5 DEF Call
<1>6. CASE \E g \in Globals : ReadTop(g)
  BY <1>6, ReadTopStep
<1>7. CASE Unwind
  BY <1>7, LeaveFunctionStep, ReturnFromInvokeStep, FinishInitStep DEF Unwind
<1>8. CASE NotLowered \/ EndRun \/ (\E g \in Globals : AssignTop(g)) \/ Finished \/ UNCHANGED vars
  BY <1>8, RestedSteps DEF Finished
<1> QED BY <1>2, <1>3, <1>4, <1>5, <1>6, <1>7, <1>8 DEF Next

\* The invariants hold throughout every run.
LEMMA Invariant == Spec => [](CallInv /\ TemplateInv)
BY Start, Step, PTL DEF Spec

-----------------------------------------------------------------------------
(* What the invariants say of the shared state.                            *)

\* What Youngest chooses, when one candidate is seen to be it.
LEMMA YoungestIs ==
    ASSUME NEW S \in SUBSET Nat, NEW i \in S \cup {0}, \A j \in S : j <= i
    PROVE  Youngest(S) = i
<1>1. Youngest(S) \in S \cup {0} /\ \A j \in S : j <= Youngest(S)
  BY DEF Youngest
<1> DEFINE y == Youngest(S)
<1> HIDE DEF y
<1>2. i \in Nat /\ y \in Nat /\ y \in S \cup {0} /\ \A j \in S : j <= y
  <2>1. y \in S \cup {0} /\ \A j \in S : j <= y
    BY <1>1 DEF y
  <2>2. S \cup {0} \in SUBSET Nat
    OBVIOUS
  <2> QED BY <2>1, <2>2
<1>3. i <= y
  BY <1>2
<1>4. y <= i
  BY <1>2
<1> QED BY <1>2, <1>3, <1>4 DEF y

\* The invariant of the calls says what HostMatchesCalls says.
LEMMA CallsMatch == CallInv => HostMatchesCalls
<1> SUFFICES ASSUME CallInv PROVE HostMatchesCalls
  OBVIOUS
<1>1. /\ Depth \in Nat
      /\ \A i \in 1 .. Depth : acts[i] \in Activation
  BY DEF CallInv, TypeOK, Depth
<1>2. \A i \in 1 .. Depth : IsHost(i) <=> ~IsMir(i)
  BY <1>1, Fields DEF IsHost, IsMir
<1>3. currentFile = IF Depth = 0 THEN None ELSE FileOf[TopAct.what]
  BY DEF CallInv, StateInForce, FileAt, TopAct
<1>4. currentExecCtx = YoungestOf({"invoke", "init"})
  <2> DEFINE S == {i \in 1 .. Depth : IsHost(i)}
  <2>1. HostAt(Depth, currentExecCtx)
    BY DEF CallInv, StateInForce
  <2>2. currentExecCtx \in S \cup {0}
    BY <1>1, <2>1 DEF HostAt
  <2>3. \A j \in S : j <= currentExecCtx
    BY <1>1, <1>2, <2>1 DEF HostAt
  <2>4. S \in SUBSET Nat
    BY <1>1
  <2>5. Youngest(S) = currentExecCtx
    BY <2>2, <2>3, <2>4, YoungestIs
  <2> QED BY <2>5 DEF YoungestOf, IsHost
<1>5. LET m == YoungestOf({"mir"})
      IN  currentMirExecCtx = IF m = 0 THEN 0 ELSE acts[m].ctx
  <2> DEFINE S == {i \in 1 .. Depth : IsMir(i)}
  <2>1. YoungestOf({"mir"}) = Youngest(S)
    BY DEF YoungestOf, IsMir
  <2>2. S \in SUBSET Nat
    BY <1>1
  <2>3. currentMirExecCtx = CtxAt(Depth)
    BY DEF CallInv, StateInForce
  <2>4. CASE Depth > 0 /\ IsMir(Depth)
    <3>1. Depth \in S /\ \A j \in S : j <= Depth
      BY <1>1, <2>4
    <3>2. Youngest(S) = Depth
      BY <2>2, <3>1, YoungestIs
    <3> QED BY <1>1, <2>1, <2>3, <2>4, <3>2 DEF CtxAt
  <2>5. CASE Depth > 1 /\ ~IsMir(Depth)
    <3>1. IsMir(Depth - 1) /\ Depth - 1 \in 1 .. Depth /\ Depth # 0 /\ Depth # 1
      BY <1>1, <1>2, <2>5 DEF CallInv, ActFits, HostFits
    <3>2. Depth - 1 \in S /\ \A j \in S : j <= Depth - 1
      BY <1>1, <2>5, <3>1
    <3>3. Youngest(S) = Depth - 1
      BY <2>2, <3>2, YoungestIs
    <3>4. CtxAt(Depth) = acts[Depth - 1].ctx
      BY <2>5, <3>1 DEF CtxAt
    <3> QED BY <1>1, <2>1, <2>3, <3>1, <3>3, <3>4
  <2>6. CASE Depth = 0 \/ (Depth = 1 /\ ~IsMir(Depth))
    <3>1. S = {}
      BY <1>1, <2>6
    <3>2. Youngest(S) = 0
      BY <2>2, <3>1, YoungestIs
    <3>3. CtxAt(Depth) = 0
      BY <2>6 DEF CtxAt
    <3> QED BY <2>1, <2>3, <3>2, <3>3
  <2> QED BY <1>1, <2>4, <2>5, <2>6
<1> QED BY <1>3, <1>4, <1>5 DEF CallInv, StackListsCalls, HostMatchesCalls

\* The invariant of the bindings says what TemplateMatches says.
LEMMA BindingMatches == CallInv /\ TemplateInv => TemplateMatches
<1> SUFFICES ASSUME CallInv, TemplateInv, ~failed
             PROVE  template = LET i == Youngest({j \in 1 .. Depth : acts[j].bound # None})
                               IN IF i = 0 THEN None ELSE acts[i].bound
  BY DEF TemplateMatches
<1> DEFINE S == {j \in 1 .. Depth : acts[j].bound # None}
<1>1. Depth \in Nat
  BY DEF CallInv, TypeOK, Depth
<1>2. PICK m \in 0 .. Depth :
        /\ \A j \in m + 1 .. Depth : acts[j].bound = None
        /\ IF m = 0 THEN template = None ELSE acts[m].bound # None /\ template = acts[m].bound
  BY DEF TemplateInv, BindingAt
<1>3. S \in SUBSET Nat /\ m \in S \cup {0} /\ \A j \in S : j <= m
  BY <1>1, <1>2
<1>4. Youngest(S) = m
  BY <1>3, YoungestIs
<1> QED BY <1>2, <1>4

-----------------------------------------------------------------------------
(* The theorems.                                                           *)

\* The shared state and the saves keep their types: every function recorded on the
\* call stack is one, every saved binding is empty or a binding, and every context
\* number is one.
THEOREM TypeCorrect == Spec => []TypeOK
<1>1. CallInv => TypeOK
  BY DEF CallInv
<1> QED BY <1>1, Invariant, PTL

\* Whatever calls what, at any depth, and however it ends: call stack, file and
\* contexts are those of the youngest activation (HOPEvalInvokeFunction,
\* HOPEvalMirEnterFunction and HOPEvalMirLeaveFunction, HOPEvalEvalTopVar).
THEOREM CallsRestored == Spec => []HostMatchesCalls
BY Invariant, CallsMatch, PTL

\* As long as nothing failed, the template binding is the one the youngest call that
\* made one left (HOPEvalMirAdjustCallArgs, HOPEvalResolveCallMir).
THEOREM BindingsRestored == Spec => []TemplateMatches
BY Invariant, BindingMatches, PTL

\* A global is initialised once (HOPEvalEvalTopVar, HOPEvalEvalTopConst).
THEOREM InitialisedOnce == Spec => InitOnce
<1> DEFINE Once == \A g \in Globals :
                     topState[g] # "unseen" =>
                       /\ topState'[g] # "unseen"
                       /\ topState'[g] = "visiting" => topState[g] = "visiting"
<1>1. TypeOK /\ [Next]_vars => [Once]_vars
  <2> SUFFICES ASSUME TypeOK, Next, NEW g \in Globals, topState[g] # "unseen"
               PROVE  /\ topState'[g] # "unseen"
                      /\ topState'[g] = "visiting" => topState[g] = "visiting"
    BY DEF Once
  <2>1. CASE \E x \in Globals : ReadTop(x)
    <3>1. PICK x \in Globals : ReadTop(x)
      BY <2>1
    <3>2. CASE NeedsInit(x) /\ topState' = [topState EXCEPT ![x] = "visiting"]
      BY <3>2 DEF TypeOK, NeedsInit
    <3>3. CASE topState' = topState
      BY <3>3
    <3> QED BY <3>1, <3>2, <3>3 DEF ReadTop
  <2>2. CASE \E x \in Globals : AssignTop(x)
    BY <2>2 DEF AssignTop, TypeOK
  <2>3. CASE FinishInit
    BY <2>3 DEF FinishInit, TypeOK
  <2>4. CASE topState' = topState
    BY <2>4
  <2>5. CASE Call
    BY <2>4, <2>5 DEF Call, CallFn, CallInit, CallDynamic, CallFunctionRef, CallHook,
                      CallMirRef, InvokeFunction
  <2>6. CASE StartMain \/ RunRoot \/ NotLowered \/ BindFrame \/ EndRun \/ Finished
             \/ LeaveFunction \/ ReturnFromInvoke
    BY <2>4, <2>6 DEF StartMain, InvokeFunction, RunRoot, NotLowered, BindFrame, EndRun,
                      Finished, LeaveFunction, ReturnFromInvoke, vars
  <2> QED BY <2>1, <2>2, <2>3, <2>5, <2>6 DEF Next, Unwind
<1> QED BY <1>1, TypeCorrect, PTL DEF InitOnce, Spec
=============================================================================
