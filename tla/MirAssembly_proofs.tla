------------------------- MODULE MirAssembly_proofs -------------------------
(***************************************************************************)
(* A program is assembled from the code of its items, every reference      *)
(* resolved, and no walk loses its place while others go on.               *)
(***************************************************************************)
EXTENDS MirAssembly, TLAPS

----------------------------------------------------------------------------
(***************************************************************************)
(* The inductive invariant.                                                *)
(***************************************************************************)
\* The strings; the provers do not know that a literal is one.
Texts == STRING \cup {"CALL_FN", "PUSH_CONST", "PUSH_NULL", "DROP", ""}
InstRec == [op : Texts, name : Texts, num : Nat, of : Nat \X Nat]

TypeOK ==
    /\ IsWorld(world)
    /\ insts \in Seq(InstRec)
    /\ funcs \in Seq([item : Items, start : Nat, len : Nat])
    /\ mirOf \in [Items -> Nat]
    /\ frames \in Seq([fn : Nat, at : Nat])
    /\ status \in {"start", "lowering", "failing", "done", "unsupported"}

CodeOf(k) == world.code[funcs[k].item]
\* The instructions that were put into function k, and its part that frame f has behind it.
Off(k) == funcs[k].len - Len(CodeOf(k))
Rel(f) == f.at - funcs[f.fn].start

\* Functions lie behind each other, and instructions name functions there are.
TablesOK ==
    /\ \A k \in DOMAIN funcs : funcs[k].len >= Len(CodeOf(k)) /\ End(k) <= Len(insts)
    /\ \A k \in DOMAIN funcs : \A j \in 1 .. k - 1 : End(j) <= funcs[k].start
    /\ \A i \in DOMAIN insts : insts[i].op \in ToFunctionOps => insts[i].num \in DOMAIN funcs

\* The walks are of functions each behind the other.
FramesOK ==
    /\ \A n \in DOMAIN frames : /\ frames[n].fn \in DOMAIN funcs
                                /\ Rel(frames[n]) \in 1 .. funcs[frames[n].fn].len + 1
    /\ \A n \in DOMAIN frames : \A m \in 1 .. n - 1 : frames[m].fn < frames[n].fn

\* Before its instruction w function k is what is meant, from there on it is what
\* was lowered.
Walk(k, w) ==
    /\ At(k, 1).of = <<k, 1>>
    /\ \A q \in w .. funcs[k].len :
        /\ q - Off(k) \in DOMAIN CodeOf(k)
        /\ At(k, q) = From(CodeOf(k)[q - Off(k)], <<k, q - Off(k)>>)
    /\ \A q \in 1 .. w - 1 : InOrder(funcs[k].item, k, q)
    /\ w > 1 => Rank(k, w - 1) = Len(Meant(funcs[k].item, At(k, w - 1).of[2]))
    /\ ~Rewritten(funcs[k].item, w - Off(k))
Walks == \A n \in DOMAIN frames : Walk(frames[n].fn, Rel(frames[n]))

\* Place p of the code of x refers to an item, and to which.
Loads(x, p) ==
    /\ world.code[x][p].op = "LOAD_IDENT" /\ ~Kept(x, world.code[x][p].name)
Calls(x, p) ==
    /\ world.code[x][p].op = "CALL"
    /\ world.code[x][p].name \in Functions \cup DOMAIN world.alias
RefersAt(x, p) == FieldOfImport(world.code[x], p + 1) \/ Loads(x, p) \/ Calls(x, p)
TargetAt(x, p) ==
    LET name == world.code[x][p].name
    IN CASE FieldOfImport(world.code[x], p + 1) -> world.code[x][p + 1].name
         [] Calls(x, p) /\ name \notin Functions -> world.alias[name]
         [] OTHER -> name

\* Where frame f stands in the source of its item.
Source(f) == Rel(f) - Off(f.fn)
StandsOn(f) == Rel(f) <= funcs[f.fn].len /\ RefersAt(funcs[f.fn].item, Source(f))

Waits ==
    \A n \in 1 .. Len(frames) - 1 :
        /\ StandsOn(frames[n])
        /\ TargetAt(funcs[frames[n].fn].item, Source(frames[n])) = funcs[frames[n + 1].fn].item

Whole(x, k) ==
    /\ At(k, 1).of = <<k, 1>>
    /\ \A q \in 1 .. funcs[k].len : InOrder(x, k, q)
MapOK ==
    \A x \in Items : mirOf[x] # 0 =>
        /\ mirOf[x] \in DOMAIN funcs /\ funcs[mirOf[x]].item = x
        /\ ~Finishing(mirOf[x]) => Whole(x, mirOf[x])

\* Instructions are where they were in the source or behind an inserted one.
Shape(k) ==
    \A q \in 1 .. funcs[k].len :
        /\ At(k, q).op \in {"JUMP", "JUMP_IF_FALSE"} => At(k, q).num < funcs[k].len
        /\ \/ At(k, q).of = <<k, q>>
           \/ \E r \in 1 .. q - 1 : At(k, r).of = At(k, r + 1).of
Shapes == \A k \in DOMAIN funcs : Shape(k)

StatusOK ==
    /\ status \in {"lowering", "failing"} => frames # << >>
    /\ status = "start" => frames = << >> /\ \A x \in Items : mirOf[x] = 0
    /\ status = "failing" => StandsOn(Top)

IInv ==
    /\ TypeOK /\ TablesOK /\ FramesOK /\ Walks /\ Waits /\ MapOK /\ Shapes /\ StatusOK

----------------------------------------------------------------------------
(***************************************************************************)
(* Sequences, the code of a world, and what a step leaves alone.           *)
(***************************************************************************)
LEMMA ExceptFacts ==
    ASSUME NEW S, NEW s \in Seq(S), NEW i \in DOMAIN s, NEW e \in S
    PROVE  /\ [s EXCEPT ![i] = e] \in Seq(S)
           /\ Len([s EXCEPT ![i] = e]) = Len(s)
           /\ [s EXCEPT ![i] = e][i] = e
           /\ \A j \in DOMAIN s : j # i => [s EXCEPT ![i] = e][j] = s[j]
  OBVIOUS

LEMMA ElementOf ==
    ASSUME NEW S, NEW s \in Seq(S), NEW i \in DOMAIN s
    PROVE  s[i] \in S
  OBVIOUS

LEMMA ConcatFacts ==
    ASSUME NEW S, NEW s \in Seq(S), NEW t \in Seq(S)
    PROVE  /\ s \o t \in Seq(S) /\ Len(s \o t) = Len(s) + Len(t)
           /\ \A j \in 1 .. Len(s) : (s \o t)[j] = s[j]
           /\ \A j \in 1 .. Len(t) : (s \o t)[Len(s) + j] = t[j]
  OBVIOUS

LEMMA AppendFacts ==
    ASSUME NEW S, NEW s \in Seq(S), NEW e \in S
    PROVE  /\ Append(s, e) \in Seq(S) /\ Len(Append(s, e)) = Len(s) + 1
           /\ DOMAIN Append(s, e) = 1 .. Len(s) + 1
           /\ \A i \in 1 .. Len(s) : Append(s, e)[i] = s[i]
           /\ Append(s, e)[Len(s) + 1] = e
  OBVIOUS

LEMMA InsertFacts ==
    ASSUME NEW S, NEW s \in Seq(S), NEW i \in 1 .. Len(s) + 1, NEW e \in S
    PROVE  /\ InsertAt(s, i, e) \in Seq(S)
           /\ Len(InsertAt(s, i, e)) = Len(s) + 1
           /\ InsertAt(s, i, e)[i] = e
           /\ \A j \in 1 .. i - 1 : InsertAt(s, i, e)[j] = s[j]
           /\ \A j \in i .. Len(s) : InsertAt(s, i, e)[j + 1] = s[j]
<1> DEFINE a == SubSeq(s, 1, i - 1)
           b == SubSeq(s, i, Len(s))
<1>1. /\ a \in Seq(S) /\ Len(a) = i - 1
      /\ \A j \in 1 .. i - 1 : a[j] = s[j]
  OBVIOUS
<1>2. /\ b \in Seq(S) /\ Len(b) = Len(s) - i + 1
      /\ \A j \in 1 .. Len(s) - i + 1 : b[j] = s[j + i - 1]
  OBVIOUS
<1>3. InsertAt(s, i, e) = (a \o <<e>>) \o b
  BY DEF InsertAt
<1> HIDE DEF a, b
<1>4. /\ a \o <<e>> \in Seq(S) /\ Len(a \o <<e>>) = i
      /\ (a \o <<e>>)[i] = e /\ \A j \in 1 .. i - 1 : (a \o <<e>>)[j] = s[j]
  BY <1>1
<1> DEFINE c == a \o <<e>>
<1> HIDE DEF c
<1>5. /\ c \o b \in Seq(S) /\ Len(c \o b) = Len(s) + 1
      /\ \A j \in 1 .. i : (c \o b)[j] = c[j]
      /\ \A j \in i .. Len(s) : (c \o b)[j + 1] = b[j + 1 - i]
  <2>1. c \in Seq(S) /\ Len(c) = i
    BY <1>4 DEF c
  <2>2. /\ c \o b \in Seq(S) /\ Len(c \o b) = Len(c) + Len(b)
        /\ \A j \in 1 .. Len(c) : (c \o b)[j] = c[j]
        /\ \A j \in 1 .. Len(b) : (c \o b)[Len(c) + j] = b[j]
    BY <1>2, <2>1, ConcatFacts
  <2>3. ASSUME NEW j \in i .. Len(s) PROVE (c \o b)[j + 1] = b[j + 1 - i]
    <3>1. j + 1 - i \in 1 .. Len(b) /\ Len(c) + (j + 1 - i) = j + 1
      BY <1>2, <2>1
    <3> QED  BY <2>2, <3>1
  <2> QED  BY <1>2, <2>1, <2>2, <2>3
<1>6. \A j \in i .. Len(s) : b[j + 1 - i] = s[j]
  <2> TAKE j \in i .. Len(s)
  <2>1. PICK q : q = j + 1 - i
    OBVIOUS
  <2>2. Len(s) \in Nat /\ i \in Nat /\ j \in i .. Len(s) /\ i >= 1
    OBVIOUS
  <2>3. q \in 1 .. Len(s) - i + 1 /\ q + i - 1 = j
    BY ONLY <2>1, <2>2
  <2>4. b[q] = s[q + i - 1]
    BY ONLY <1>2, <2>3
  <2> QED  BY ONLY <2>1, <2>3, <2>4
<1> QED  BY <1>3, <1>4, <1>5, <1>6 DEF c

Ins == [op : STRING, name : STRING, num : Nat]

\* What an item is lowered to.
LEMMA CodeFacts ==
    ASSUME IsWorld(world), NEW x \in Items
    PROVE  /\ world.code[x] \in Seq(Ins) /\ Len(world.code[x]) \in Nat \ {0}
           /\ world.code[x][Len(world.code[x])].op = "RETURN"
           /\ \A p \in DOMAIN world.code[x] :
                /\ world.code[x][p].op \notin ToFunctionOps
                /\ world.code[x][p].op \in {"JUMP", "JUMP_IF_FALSE"} =>
                     world.code[x][p].num < Len(world.code[x])
<1>1. /\ world.code[x] \in Seq(Ins) /\ world.code[x] # << >>
  BY DEF IsWorld, Items, Functions, Consts, Vars, Ins
<1> QED  BY <1>1 DEF IsWorld, Items, Functions, Consts, Vars, ToFunctionOps

\* The targets of names are items.
LEMMA NamesFacts ==
    ASSUME IsWorld(world)
    PROVE  /\ world.root \in Items
           /\ Functions \cap Consts = {} /\ Functions \cap Vars = {} /\ Consts \cap Vars = {}
           /\ \A a \in DOMAIN world.alias : world.alias[a] \in Functions
  BY DEF IsWorld, Items, Functions, Consts, Vars

LEMMA TargetIsItem ==
    ASSUME IsWorld(world), NEW x, NEW p \in Nat, RefersAt(x, p)
    PROVE  TargetAt(x, p) \in Items
<1> DEFINE name == world.code[x][p].name
<1>1. CASE FieldOfImport(world.code[x], p + 1)
  <2>0. ~Calls(x, p)
    BY <1>1 DEF FieldOfImport, Calls
  <2>1. TargetAt(x, p) = world.code[x][p + 1].name
    BY <1>1, <2>0 DEF TargetAt
  <2> QED  BY <1>1, <2>1 DEF FieldOfImport
<1>2. CASE ~FieldOfImport(world.code[x], p + 1) /\ Calls(x, p)
  <2>1. CASE name \in Functions
    <3>1. TargetAt(x, p) = name
      BY <1>2, <2>1 DEF TargetAt
    <3> QED  BY <2>1, <3>1 DEF Items
  <2>2. CASE name \notin Functions
    <3>1. TargetAt(x, p) = world.alias[name]
      BY <1>2, <2>2 DEF TargetAt
    <3> QED  BY <1>2, <2>2, <3>1, NamesFacts DEF Items, Calls
  <2> QED  BY <2>1, <2>2
<1>3. CASE ~FieldOfImport(world.code[x], p + 1) /\ ~Calls(x, p)
  <2>1. TargetAt(x, p) = name
    BY <1>3 DEF TargetAt
  <2> QED  BY <1>3, <2>1 DEF RefersAt, Loads, Kept
<1> QED  BY <1>1, <1>2, <1>3

\* What is said of the world only does not change.
LEMMA WorldSame ==
    ASSUME world' = world
    PROVE  /\ Items' = Items /\ Functions' = Functions /\ Vars' = Vars
           /\ \A x, p : Rewritten(x, p)' <=> Rewritten(x, p)
           /\ \A x, p : RefersAt(x, p)' <=> RefersAt(x, p)
           /\ \A x, p : TargetAt(x, p)' = TargetAt(x, p)
           /\ \A x, p : Meant(x, p)' = Meant(x, p)
<1>1. Items' = Items /\ Functions' = Functions /\ Vars' = Vars
  BY DEF Items, Functions, Consts, Vars
<1>2. \A c, p : FieldOfImport(c, p)' <=> FieldOfImport(c, p)
  BY <1>1 DEF FieldOfImport
<1>3. \A x, y : /\ Kept(x, y)' <=> Kept(x, y)
                /\ Refer(y)' = Refer(y)
  BY <1>1 DEF Kept, Refer
<1>4. \A x, p : /\ Calls(x, p)' <=> Calls(x, p)
                /\ Loads(x, p)' <=> Loads(x, p)
  BY <1>1, <1>3 DEF Calls, Loads
<1>5. \A x, p : Rewritten(x, p)' <=> Rewritten(x, p)
  BY <1>2, <1>3 DEF Rewritten
<1>6. \A x, p : RefersAt(x, p)' <=> RefersAt(x, p)
  BY <1>2, <1>4 DEF RefersAt
<1>7. \A x, p : TargetAt(x, p)' = TargetAt(x, p)
  BY <1>1, <1>2, <1>4 DEF TargetAt
<1>8. \A x, p : Meant(x, p)' = Meant(x, p)
  BY DEF Meant, Rewritten, FieldOfImport, Kept, Refer, Items, Functions, Consts, Vars
<1> QED  BY <1>1, <1>5, <1>6, <1>7, <1>8

\* The instructions of a function are in the table.
LEMMA AtFacts ==
    ASSUME TypeOK, TablesOK, NEW k \in DOMAIN funcs
    PROVE  /\ funcs[k].item \in Items
           /\ funcs[k].start \in Nat /\ funcs[k].len \in Nat \ {0}
           /\ Off(k) \in Nat /\ Off(k) < funcs[k].len
           /\ \A q \in 1 .. funcs[k].len :
                /\ funcs[k].start + q \in DOMAIN insts
                /\ At(k, q) = insts[funcs[k].start + q]
                /\ At(k, q) \in InstRec
                /\ At(k, q).op \in ToFunctionOps => At(k, q).num \in DOMAIN funcs
<1>1. /\ funcs[k].item \in Items /\ funcs[k].start \in Nat /\ funcs[k].len \in Nat
  <2>1. funcs[k] \in [item : Items, start : Nat, len : Nat]
    BY ElementOf DEF TypeOK
  <2> QED  BY <2>1
<1>2. Len(CodeOf(k)) \in Nat \ {0} /\ funcs[k].len >= Len(CodeOf(k))
  BY <1>1, CodeFacts DEF TypeOK, TablesOK, CodeOf
<1>3. funcs[k].start + funcs[k].len <= Len(insts) /\ Len(insts) \in Nat
  BY <1>1 DEF TypeOK, TablesOK, End
<1>4. \A q \in 1 .. funcs[k].len : funcs[k].start + q \in DOMAIN insts
  <2>1. DOMAIN insts = 1 .. Len(insts)
    BY DEF TypeOK
  <2> QED  BY ONLY <1>1, <1>3, <2>1
<1>5. \A q \in 1 .. funcs[k].len :
        /\ At(k, q) \in InstRec
        /\ At(k, q).op \in ToFunctionOps => At(k, q).num \in DOMAIN funcs
  <2> TAKE q \in 1 .. funcs[k].len
  <2>1. funcs[k].start + q \in DOMAIN insts
    BY <1>4
  <2>2. insts[funcs[k].start + q] \in InstRec
    BY <2>1, ElementOf DEF TypeOK
  <2> QED  BY <2>1, <2>2 DEF At, TablesOK
<1> QED  BY <1>1, <1>2, <1>4, <1>5 DEF At, Off

----------------------------------------------------------------------------
(***************************************************************************)
(* What is meant at a place, and what a walk reads there.                  *)
(***************************************************************************)
LEMMA MeantByPair ==
    ASSUME NEW x, NEW p \in Nat, Rewritten(x, p + 1)
    PROVE  /\ Meant(x, p) = <<<<"PUSH_NULL", "">>>>
           /\ Meant(x, p + 1) = <<<<"DROP", "">>, Refer(world.code[x][p + 1].name)>>
           /\ ~Rewritten(x, p) /\ ~Rewritten(x, p + 2)
<1>1. /\ world.code[x][p].op = "LOAD_IDENT" /\ world.code[x][p + 1].op = "AGG_GET"
  BY DEF Rewritten, FieldOfImport
<1>2. ~Rewritten(x, p) /\ ~Rewritten(x, p + 2)
  BY <1>1 DEF Rewritten, FieldOfImport
<1>3. ~Rewritten(x, p + 1 + 1)
  BY <1>2
<1>4. Meant(x, p) = <<<<"PUSH_NULL", "">>>>
  BY <1>1, <1>2 DEF Meant, Rewritten
<1>5. Meant(x, p + 1) = <<<<"DROP", "">>, Refer(world.code[x][p + 1].name)>>
  BY <1>1, <1>3 DEF Meant
<1> QED  BY <1>2, <1>4, <1>5

\* The name an instruction of one place refers to.
MeantAlone(x, p) ==
    IF Loads(x, p) THEN Refer(world.code[x][p].name)
    ELSE <<"CALL_FN", TargetAt(x, p)>>

LEMMA MeantByName ==
    ASSUME NEW x, NEW p \in Nat, ~Rewritten(x, p), ~FieldOfImport(world.code[x], p + 1),
           Loads(x, p) \/ Calls(x, p)
    PROVE  Meant(x, p) = <<MeantAlone(x, p)>>
<1>1. ~Rewritten(x, p + 1)
  BY DEF Rewritten
<1>2. CASE Loads(x, p)
  <2>1. world.code[x][p].op = "LOAD_IDENT" /\ world.code[x][p].op # "CALL"
    BY <1>2 DEF Loads
  <2>2. ~Kept(x, world.code[x][p].name)
    BY <1>2 DEF Loads
  <2>3. Meant(x, p) = <<Refer(world.code[x][p].name)>>
    BY <1>1, <2>1, <2>2 DEF Meant
  <2> QED  BY <1>2, <2>3 DEF MeantAlone
<1>3. CASE ~Loads(x, p)
  <2> DEFINE name == world.code[x][p].name
  <2>1. world.code[x][p].op = "CALL" /\ world.code[x][p].op # "LOAD_IDENT"
    BY <1>3 DEF Calls
  <2>2. name \in Functions \cup DOMAIN world.alias
    BY <1>3 DEF Calls
  <2>3. Meant(x, p) = <<<<"CALL_FN", IF name \in Functions THEN name ELSE world.alias[name]>>>>
    BY <1>1, <2>1, <2>2 DEF Meant
  <2>4. TargetAt(x, p) = IF name \in Functions THEN name ELSE world.alias[name]
    <3>1. CASE name \in Functions
      BY <3>1 DEF TargetAt
    <3>2. CASE name \notin Functions
      BY <1>3, <3>2 DEF TargetAt
    <3> QED  BY <3>1, <3>2
  <2> QED  BY <1>3, <2>3, <2>4 DEF MeantAlone
<1> QED  BY <1>2, <1>3

LEMMA MeantAsIs ==
    ASSUME NEW x, NEW p \in Nat, ~Rewritten(x, p), ~Rewritten(x, p + 1),
           FieldOfImport(world.code[x], p + 1) \/ ~RefersAt(x, p)
    PROVE  Meant(x, p) = <<<<world.code[x][p].op, world.code[x][p].name>>>>
<1>1. ~Calls(x, p)
  BY DEF FieldOfImport, RefersAt, Calls
<1>2. ~(world.code[x][p].op = "LOAD_IDENT" /\ ~FieldOfImport(world.code[x], p + 1)
          /\ ~Kept(x, world.code[x][p].name))
  BY DEF RefersAt, Loads
<1>3. ~(world.code[x][p].op = "CALL"
          /\ world.code[x][p].name \in Functions \cup DOMAIN world.alias)
  BY <1>1 DEF Calls
<1> QED  BY <1>2, <1>3 DEF Meant

LEMMA FrameReads ==
    ASSUME TypeOK, TablesOK, FramesOK, Walks,
           NEW n \in DOMAIN frames, Rel(frames[n]) <= funcs[frames[n].fn].len
    PROVE  LET f == frames[n]
               k == f.fn
               w == Rel(f)
               p == Source(f)
               x == funcs[k].item
           IN /\ k \in DOMAIN funcs /\ x \in Items
              /\ w \in 1 .. funcs[k].len /\ p \in DOMAIN world.code[x] /\ p \in Nat \ {0}
              /\ f.at = funcs[k].start + w /\ f.at \in DOMAIN insts
              /\ insts[f.at] = From(world.code[x][p], <<k, p>>)
              /\ IsQualified(f) <=> FieldOfImport(world.code[x], p + 1)
              /\ IsQualified(f) =>
                    /\ w + 1 <= funcs[k].len /\ p + 1 \in DOMAIN world.code[x]
                    /\ insts[f.at + 1] = From(world.code[x][p + 1], <<k, p + 1>>)
              /\ IsLoad(f) <=> Loads(x, p)
              /\ IsCall(f) <=> Calls(x, p)
              /\ Refers(f) <=> RefersAt(x, p)
              /\ RefersAt(x, p) => Target(f) = TargetAt(x, p)
<1> DEFINE f == frames[n]
           k == f.fn
           w == Rel(f)
           p == Source(f)
           x == funcs[k].item
           code == world.code[x]
<1>1. k \in DOMAIN funcs /\ w \in 1 .. funcs[k].len
  BY DEF FramesOK
<1>2. f \in [fn : Nat, at : Nat]
  BY ElementOf DEF TypeOK
<1>3. /\ x \in Items /\ funcs[k].start \in Nat /\ funcs[k].len \in Nat \ {0}
      /\ Off(k) \in Nat /\ Off(k) < funcs[k].len
      /\ \A q \in 1 .. funcs[k].len :
            funcs[k].start + q \in DOMAIN insts /\ At(k, q) = insts[funcs[k].start + q]
  BY <1>1, AtFacts
<1>4. IsWorld(world) /\ code = CodeOf(k)
  BY DEF TypeOK, CodeOf
<1>5. /\ code \in Seq(Ins) /\ Len(code) \in Nat \ {0} /\ code[Len(code)].op = "RETURN"
  BY <1>3, <1>4, CodeFacts
<1>6. Walk(k, w)
  BY DEF Walks
<1>7. \A q \in w .. funcs[k].len :
        /\ q - Off(k) \in DOMAIN code
        /\ At(k, q) = From(code[q - Off(k)], <<k, q - Off(k)>>)
  BY <1>4, <1>6 DEF Walk
<1>8. p = w - Off(k) /\ f.at = funcs[k].start + w
  BY <1>1, <1>2, <1>3 DEF Source, Rel
<1>9. Off(k) = funcs[k].len - Len(code)
  BY <1>4 DEF Off
<1> HIDE DEF f, k, w, p, x, code
<1>10. /\ p \in DOMAIN code /\ p \in Nat \ {0} /\ f.at \in DOMAIN insts
       /\ insts[f.at] = From(code[p], <<k, p>>)
  <2>1. w \in w .. funcs[k].len /\ w \in 1 .. funcs[k].len
    BY <1>1, <1>3
  <2>2. p \in DOMAIN code /\ At(k, w) = From(code[p], <<k, p>>)
    BY <1>7, <1>8, <2>1
  <2>3. p \in Nat \ {0}
    BY <1>5, <2>2
  <2> QED  BY <1>3, <1>8, <2>1, <2>2, <2>3
<1>11. p < Len(code) => /\ w + 1 <= funcs[k].len /\ p + 1 \in DOMAIN code
                        /\ insts[f.at + 1] = From(code[p + 1], <<k, p + 1>>)
  <2> HAVE p < Len(code)
  <2>1. w + 1 \in w .. funcs[k].len /\ w + 1 \in 1 .. funcs[k].len
    BY <1>1, <1>3, <1>5, <1>8, <1>9
  <2>2. w + 1 - Off(k) = p + 1 /\ f.at + 1 = funcs[k].start + (w + 1)
    BY <1>1, <1>3, <1>8
  <2>3. p + 1 \in DOMAIN code /\ At(k, w + 1) = From(code[p + 1], <<k, p + 1>>)
    <3> DEFINE q == w + 1
    <3>1. q \in w .. funcs[k].len /\ q - Off(k) = p + 1
      BY <1>1, <1>3, <1>10, <2>1, <2>2
    <3> HIDE DEF q
    <3>2. q - Off(k) \in DOMAIN code /\ At(k, q) = From(code[q - Off(k)], <<k, q - Off(k)>>)
      BY <1>7, <3>1
    <3> QED  BY <3>1, <3>2 DEF q
  <2> QED  BY <1>3, <2>1, <2>2, <2>3
<1>12. p = Len(code) => /\ insts[f.at].op = "RETURN" /\ p + 1 \notin DOMAIN code
  BY <1>5, <1>10 DEF From
<1>13. p < Len(code) \/ p = Len(code)
  BY <1>5, <1>10
<1>14. insts[f.at].op = code[p].op /\ insts[f.at].name = code[p].name
  BY <1>10 DEF From
<1>15. IsQualified(f) <=> FieldOfImport(code, p + 1)
  <2>1. CASE p = Len(code)
    <3>1. ~IsQualified(f)
      BY <1>12, <2>1 DEF IsQualified
    <3>2. ~FieldOfImport(code, p + 1)
      BY <1>12, <2>1 DEF FieldOfImport
    <3> QED  BY <3>1, <3>2
  <2>2. CASE p < Len(code)
    <3>1. /\ insts[f.at + 1].op = code[p + 1].op /\ insts[f.at + 1].name = code[p + 1].name
      BY <1>11, <2>2 DEF From
    <3>2. f.at < Len(insts)
      <4>1. funcs[k].start + (w + 1) \in DOMAIN insts
        <5>1. w \in 1 .. funcs[k].len /\ w + 1 <= funcs[k].len /\ funcs[k].len \in Nat
          BY <1>1, <1>3, <1>11, <2>2
        <5>2. w + 1 \in 1 .. funcs[k].len
          BY ONLY <5>1
        <5> QED  BY <1>3, <5>2
      <4>2. insts \in Seq(InstRec)
        BY DEF TypeOK
      <4> QED  BY <1>1, <1>3, <1>8, <4>1, <4>2
    <3>3. p + 1 - 1 = p /\ p \in DOMAIN code /\ p + 1 \in DOMAIN code
      BY <1>10, <1>11, <2>2
    <3>4. FieldOfImport(code, p + 1) <=>
            /\ code[p].op = "LOAD_IDENT" /\ code[p].name \in world.imports
            /\ code[p + 1].op = "AGG_GET" /\ code[p + 1].name \in Items
      <4> DEFINE r == p + 1
      <4>1. r - 1 = p /\ r - 1 \in DOMAIN code /\ r \in DOMAIN code
        BY <1>10, <3>3
      <4> HIDE DEF r
      <4>2. FieldOfImport(code, r) <=>
              /\ code[r - 1].op = "LOAD_IDENT" /\ code[r - 1].name \in world.imports
              /\ code[r].op = "AGG_GET" /\ code[r].name \in Items
        BY <4>1 DEF FieldOfImport
      <4> QED  BY <4>1, <4>2 DEF r
    <3> QED  BY <1>14, <3>1, <3>2, <3>4 DEF IsQualified
  <2> QED  BY <1>13, <2>1, <2>2
<1>16. IsLoad(f) <=> Loads(x, p)
  <2>1. InFunction(f) <=> x \in Functions
    BY DEF InFunction, x, k
  <2>2. code[p].name \in Consts \cup Functions \cup (IF InFunction(f) THEN {} ELSE Vars)
           <=> ~Kept(x, code[p].name)
    BY <1>4, <2>1, NamesFacts DEF Kept, Items
  <2> QED  BY <1>14, <2>2 DEF IsLoad, Loads, code
<1>17. IsCall(f) <=> Calls(x, p)
  BY <1>14 DEF IsCall, Calls, code
<1>18. f.at <= End(f.fn)
  BY <1>1, <1>3, <1>8 DEF End, k
<1>19. Refers(f) <=> RefersAt(x, p)
  BY <1>15, <1>16, <1>17, <1>18 DEF Refers, RefersAt, code
<1>20. ASSUME RefersAt(x, p) PROVE Target(f) = TargetAt(x, p)
  <2>1. CASE IsQualified(f)
    <3>1. p < Len(code)
      BY <1>12, <1>13, <2>1 DEF IsQualified
    <3>2. Target(f) = code[p + 1].name
      <4>1. ~IsCall(f)
        BY <2>1 DEF IsQualified, IsCall
      <4>2. Target(f) = insts[f.at + 1].name
        BY <2>1, <4>1 DEF Target
      <4> QED  BY <1>11, <3>1, <4>2 DEF From
    <3>3. FieldOfImport(code, p + 1) /\ ~Calls(x, p)
      BY <1>15, <1>17, <2>1 DEF IsQualified, IsCall
    <3> QED  BY <3>2, <3>3 DEF TargetAt, code
  <2>2. CASE ~IsQualified(f)
    <3>1. ~FieldOfImport(code, p + 1)
      BY <1>15, <2>2
    <3>2. CASE IsCall(f) /\ code[p].name \notin Functions
      <4>1. Target(f) = world.alias[code[p].name]
        BY <1>14, <2>2, <3>2 DEF Target
      <4>2. TargetAt(x, p) = world.alias[code[p].name]
        BY <1>17, <3>1, <3>2 DEF TargetAt, code
      <4> QED  BY <4>1, <4>2
    <3>3. CASE ~(IsCall(f) /\ code[p].name \notin Functions)
      <4>1. Target(f) = code[p].name
        BY <1>14, <2>2, <3>3 DEF Target
      <4>2. TargetAt(x, p) = code[p].name
        BY <1>17, <3>1, <3>3 DEF TargetAt, code
      <4> QED  BY <4>1, <4>2
    <3> QED  BY <3>2, <3>3
  <2> QED  BY <2>1, <2>2
<1>21. IsQualified(f) => p < Len(code)
  BY <1>12, <1>13 DEF IsQualified
<1> QED
  BY <1>1, <1>3, <1>8, <1>10, <1>11, <1>15, <1>16, <1>17, <1>19, <1>20, <1>21
     DEF f, k, w, p, x, code

----------------------------------------------------------------------------
(***************************************************************************)
(* What a step keeps of a function.                                        *)
(***************************************************************************)
ItemsKept ==
    /\ world' = world /\ DOMAIN funcs \subseteq DOMAIN funcs'
    /\ \A j \in DOMAIN funcs : funcs'[j].item = funcs[j].item
Keeps(j) ==
    /\ funcs'[j].len = funcs[j].len
    /\ \A q \in 1 .. funcs[j].len : At(j, q)' = At(j, q)

\* What a step on function k keeps of the others.
Others(k) ==
    \A j \in DOMAIN funcs : /\ j # k => Keeps(j)
                            /\ j <= k => funcs'[j].start = funcs[j].start

LEMMA GivesKept ==
    ASSUME ItemsKept, NEW i, i.op \in ToFunctionOps => i.num \in DOMAIN funcs
    PROVE  Gives(i)' = Gives(i)
<1>1. CASE i.op \in ToFunctionOps
  BY <1>1 DEF Gives, ItemsKept, ToFunctionOps
<1>2. CASE i.op \notin ToFunctionOps
  BY <1>2 DEF Gives, ToFunctionOps
<1> QED  BY <1>1, <1>2

\* An instruction stays in order when it, the one before and the one behind stay.
LEMMA InOrderKept ==
    ASSUME TypeOK, TablesOK, ItemsKept, NEW k \in DOMAIN funcs, NEW x,
           NEW q \in 1 .. funcs[k].len,
           funcs'[k].len \in Nat, funcs'[k].len >= funcs[k].len,
           q < funcs[k].len \/ funcs'[k].len = funcs[k].len,
           At(k, q)' = At(k, q),
           q > 1 => (At(k, q - 1).of)' = At(k, q - 1).of,
           q < funcs[k].len => (At(k, q + 1).of)' = At(k, q + 1).of,
           InOrder(x, k, q)
    PROVE  InOrder(x, k, q)' /\ Rank(k, q)' = Rank(k, q)
<1> DEFINE p == At(k, q).of[2]
           r == Rank(k, q)
           meant == Meant(x, p)
<1>1. funcs[k].len \in Nat \ {0} /\ (At(k, q).op \in ToFunctionOps => At(k, q).num \in DOMAIN funcs)
  BY AtFacts
<1>2. Gives(At(k, q))' = Gives(At(k, q))
  <2>1. Gives(At(k, q))' = <<At(k, q).op, IF At(k, q).op \in ToFunctionOps
                              THEN funcs'[At(k, q).num].item ELSE At(k, q).name>>
    BY DEF Gives, ToFunctionOps
  <2> QED  BY <1>1, <2>1 DEF Gives, ItemsKept
<1>3. Rank(k, q)' = r
  BY DEF Rank
<1>4. p' = p /\ meant' = meant /\ world'.code = world.code
  <2>1. p' = p
    OBVIOUS
  <2>2. Meant(x, p)' = Meant(x, p)
    <3>1. \A y, z : Meant(y, z)' = Meant(y, z)
      BY WorldSame DEF ItemsKept
    <3> QED  BY <2>1, <3>1
  <2> QED  BY <2>1, <2>2 DEF ItemsKept
<1>5. /\ r \in DOMAIN meant /\ Gives(At(k, q)) = meant[r]
      /\ IF r < Len(meant)
         THEN q < funcs[k].len /\ At(k, q + 1).of = <<k, p>>
         ELSE IF p < Len(world.code[x])
              THEN q < funcs[k].len /\ At(k, q + 1).of = <<k, p + 1>>
              ELSE q = funcs[k].len
  BY DEF InOrder
<1>6. InOrder(x, k, q)' <=>
      (/\ r' \in DOMAIN meant' /\ Gives(At(k, q))' = meant'[r']
       /\ IF r' < Len(meant')
          THEN q < funcs'[k].len /\ (At(k, q + 1).of)' = <<k, p'>>
          ELSE IF p' < Len(world'.code[x])
               THEN q < funcs'[k].len /\ (At(k, q + 1).of)' = <<k, p' + 1>>
               ELSE q = funcs'[k].len)
  BY DEF InOrder
<1> HIDE DEF p, r, meant
<1> QED  BY <1>1, <1>2, <1>3, <1>4, <1>5, <1>6 DEF r

LEMMA CodeKept ==
    ASSUME ItemsKept, NEW k \in DOMAIN funcs
    PROVE  /\ CodeOf(k)' = CodeOf(k)
           /\ funcs'[k].len = funcs[k].len => Off(k)' = Off(k)
  BY DEF ItemsKept, CodeOf, Off

LEMMA OrderKept ==
    ASSUME TypeOK, TablesOK, ItemsKept, NEW k \in DOMAIN funcs, Keeps(k), NEW x,
           NEW q \in 1 .. funcs[k].len, InOrder(x, k, q)
    PROVE  InOrder(x, k, q)' /\ Rank(k, q)' = Rank(k, q)
<1>1. funcs[k].len \in Nat \ {0}
  BY AtFacts
<1>2. q > 1 => q - 1 \in 1 .. funcs[k].len
  BY <1>1
<1>3. q < funcs[k].len => q + 1 \in 1 .. funcs[k].len
  BY <1>1
<1>4. q > 1 => (At(k, q - 1).of)' = At(k, q - 1).of
  BY <1>2 DEF Keeps
<1>5. q < funcs[k].len => (At(k, q + 1).of)' = At(k, q + 1).of
  BY <1>3 DEF Keeps
<1>6. At(k, q)' = At(k, q) /\ funcs'[k].len = funcs[k].len
  BY DEF Keeps
<1> QED  BY <1>1, <1>4, <1>5, <1>6, InOrderKept

LEMMA WholeKept ==
    ASSUME TypeOK, TablesOK, ItemsKept, NEW k \in DOMAIN funcs, Keeps(k), NEW x, Whole(x, k)
    PROVE  Whole(x, k)'
<1>1. 1 \in 1 .. funcs[k].len
  BY AtFacts
<1>2. \A q \in 1 .. funcs[k].len : InOrder(x, k, q)'
  BY OrderKept DEF Whole
<1>3. (At(k, 1).of)' = At(k, 1).of /\ funcs'[k].len = funcs[k].len
  BY <1>1 DEF Keeps
<1> QED  BY <1>2, <1>3 DEF Whole

LEMMA WalkKept ==
    ASSUME TypeOK, TablesOK, ItemsKept, NEW k \in DOMAIN funcs, Keeps(k),
           NEW w \in 1 .. funcs[k].len + 1, Walk(k, w)
    PROVE  Walk(k, w)'
<1>0. PICK x : x = funcs[k].item
  OBVIOUS
<1>1. 1 \in 1 .. funcs[k].len /\ funcs[k].len \in Nat \ {0}
  BY AtFacts
<1>2. /\ funcs'[k].len = funcs[k].len /\ funcs'[k].item = x
      /\ CodeOf(k)' = CodeOf(k) /\ Off(k)' = Off(k)
  BY <1>0, CodeKept DEF Keeps, ItemsKept
<1>3. (At(k, 1).of)' = <<k, 1>>
  BY <1>1 DEF Keeps, Walk
<1>4. ASSUME NEW q \in w .. funcs[k].len
      PROVE  /\ q - Off(k) \in DOMAIN CodeOf(k)
             /\ At(k, q)' = From(CodeOf(k)[q - Off(k)], <<k, q - Off(k)>>)
  <2>1. q \in 1 .. funcs[k].len
    BY <1>1
  <2>2. At(k, q)' = At(k, q)
    BY <2>1 DEF Keeps
  <2> QED  BY <2>2 DEF Walk
<1>5. ASSUME NEW q \in 1 .. w - 1
      PROVE  InOrder(x, k, q)' /\ Rank(k, q)' = Rank(k, q)
  <2>1. q \in 1 .. funcs[k].len
    BY <1>1
  <2>2. InOrder(x, k, q)
    BY <1>0 DEF Walk
  <2> QED  BY <2>1, <2>2, OrderKept
<1>6. ASSUME w > 1
      PROVE  (Rank(k, w - 1) = Len(Meant(x, At(k, w - 1).of[2])))'
  <2>1. w - 1 \in 1 .. w - 1 /\ w - 1 \in 1 .. funcs[k].len
    BY <1>1, <1>6
  <2>2. At(k, w - 1)' = At(k, w - 1) /\ Rank(k, w - 1)' = Rank(k, w - 1)
    BY <1>5, <2>1 DEF Keeps
  <2>3. \A y, z : Meant(y, z)' = Meant(y, z)
    BY WorldSame DEF ItemsKept
  <2>4. Rank(k, w - 1) = Len(Meant(x, At(k, w - 1).of[2]))
    BY <1>0, <1>6 DEF Walk
  <2> QED  BY <1>2, <2>2, <2>3, <2>4
<1>7. ~Rewritten(x, w - Off(k))'
  <2>1. \A y, z : Rewritten(y, z)' <=> Rewritten(y, z)
    BY WorldSame DEF ItemsKept
  <2>2. ~Rewritten(x, w - Off(k))
    BY <1>0 DEF Walk
  <2> QED  BY <1>2, <2>1, <2>2
<1>8. \A q \in 1 .. w - 1 : InOrder(x, k, q)'
  BY <1>5
<1> QED  BY <1>2, <1>3, <1>4, <1>6, <1>7, <1>8 DEF Walk

LEMMA ShapeKept ==
    ASSUME TypeOK, TablesOK, NEW k \in DOMAIN funcs, Keeps(k), Shape(k)
    PROVE  Shape(k)'
<1>1. funcs[k].len \in Nat \ {0} /\ funcs'[k].len = funcs[k].len
  BY AtFacts DEF Keeps
<1>2. ASSUME NEW q \in 1 .. funcs[k].len, NEW r \in 1 .. q - 1
      PROVE  At(k, r)' = At(k, r) /\ At(k, r + 1)' = At(k, r + 1)
  <2>1. r \in 1 .. funcs[k].len /\ r + 1 \in 1 .. funcs[k].len
    BY <1>1
  <2> QED  BY <2>1 DEF Keeps
<1>3. \A q \in 1 .. funcs[k].len : At(k, q)' = At(k, q)
  BY DEF Keeps
<1> QED  BY <1>1, <1>2, <1>3 DEF Shape

----------------------------------------------------------------------------
(***************************************************************************)
(* A walk goes on.                                                         *)
(***************************************************************************)
LEMMA WalkFacts ==
    ASSUME TypeOK, TablesOK, NEW k \in DOMAIN funcs, NEW w \in 1 .. funcs[k].len, Walk(k, w),
           NEW x, x = funcs[k].item, NEW p, p = w - Off(k)
    PROVE  /\ x \in Items /\ funcs[k].len \in Nat \ {0} /\ Off(k) \in Nat
           /\ p \in DOMAIN world.code[x] /\ p \in Nat \ {0}
           /\ At(k, w) = From(world.code[x][p], <<k, p>>) /\ At(k, w).of = <<k, p>>
           /\ w < funcs[k].len => At(k, w + 1) = From(world.code[x][p + 1], <<k, p + 1>>)
           /\ w > 1 => At(k, w - 1).of # <<k, p>>
<1>1. /\ funcs[k].len \in Nat \ {0} /\ Off(k) \in Nat /\ Off(k) < funcs[k].len
      /\ x \in Items
      /\ \A q \in 1 .. funcs[k].len : At(k, q) \in InstRec
  BY AtFacts
<1>2. Len(world.code[x]) \in Nat \ {0} /\ world.code[x] \in Seq(Ins)
  BY <1>1, CodeFacts DEF TypeOK
<1>3. CodeOf(k) = world.code[x] /\ Off(k) = funcs[k].len - Len(world.code[x])
  BY DEF CodeOf, Off
<1>4. /\ p \in DOMAIN world.code[x] /\ At(k, w) = From(world.code[x][p], <<k, p>>)
  <2>1. w \in w .. funcs[k].len
    BY <1>1
  <2> QED  BY <1>3, <2>1 DEF Walk
<1>5. p \in Nat \ {0}
  BY <1>2, <1>4
<1>7. ASSUME w < funcs[k].len
      PROVE  At(k, w + 1) = From(world.code[x][p + 1], <<k, p + 1>>)
  <2> DEFINE q == w + 1
  <2>1. q \in w .. funcs[k].len /\ q - Off(k) = p + 1
    BY <1>1, <1>7
  <2> HIDE DEF q
  <2>2. At(k, q) = From(CodeOf(k)[q - Off(k)], <<k, q - Off(k)>>)
    BY <2>1 DEF Walk
  <2> QED  BY <1>3, <2>1, <2>2 DEF q
<1>8. At(k, w).of = <<k, p>>
  BY <1>4 DEF From
<1>9. ASSUME w > 1 PROVE At(k, w - 1).of # <<k, p>>
  <2> DEFINE v == w - 1
             o == At(k, v).of[2]
  <2>1. v \in 1 .. w - 1 /\ v \in 1 .. funcs[k].len /\ v < funcs[k].len /\ v + 1 = w
    BY <1>1, <1>9
  <2>2. At(k, v).of \in Nat \X Nat
    BY <1>1, <2>1 DEF InstRec
  <2> HIDE DEF v
  <2>3. InOrder(x, k, v) /\ Rank(k, v) = Len(Meant(x, o))
    BY <1>9, <2>1 DEF Walk, v
  <2>4. Len(Meant(x, o)) \in Nat => At(k, v + 1).of = <<k, o + 1>>
    BY <2>1, <2>3 DEF InOrder
  <2>5. Len(Meant(x, o)) \in Nat
    <3>1. Rank(k, v) \in Nat
      BY DEF Rank
    <3> QED  BY <2>3, <3>1
  <2>6. <<k, o + 1>> = <<k, p>>
    BY <1>8, <2>1, <2>4, <2>5
  <2>7. o + 1 = p
    BY <2>6
  <2>8. o # p
    BY <1>5, <2>2, <2>7
  <2> QED  BY <2>8 DEF v
<1> QED  BY <1>1, <1>4, <1>5, <1>7, <1>8, <1>9

LEMMA EndsAlike ==
    ASSUME NEW l \in Nat, NEW w \in Nat, NEW p \in Nat, NEW n \in Nat, p = w - (l - n)
    PROVE  (p = n <=> w = l) /\ (p < n <=> w < l)
  OBVIOUS

LEMMA WalkEnds ==
    ASSUME TypeOK, TablesOK, NEW k \in DOMAIN funcs, NEW w \in Nat, NEW x, x = funcs[k].item,
           NEW p \in Nat, p = w - Off(k)
    PROVE  /\ p = Len(world.code[x]) <=> w = funcs[k].len
           /\ p < Len(world.code[x]) <=> w < funcs[k].len
<1>1. x \in Items /\ funcs[k].len \in Nat
  BY AtFacts
<1>2. Len(world.code[x]) \in Nat
  BY <1>1, CodeFacts DEF TypeOK
<1>3. p = w - (funcs[k].len - Len(world.code[x]))
  BY DEF Off, CodeOf
<1>4. w \in Nat /\ p \in Nat
  OBVIOUS
<1> QED  BY ONLY <1>1, <1>2, <1>3, <1>4, EndsAlike

LEMMA InOrderIntro ==
    ASSUME NEW x, NEW k, NEW q, NEW p, NEW r, NEW meant,
           (At(k, q).of[2])' = p, Rank(k, q)' = r, Meant(x, p)' = meant,
           r \in DOMAIN meant, Gives(At(k, q))' = meant[r],
           r < Len(meant) => q < funcs'[k].len /\ (At(k, q + 1).of)' = <<k, p>>,
           ~(r < Len(meant)) =>
              IF p < Len(world'.code[x])
              THEN q < funcs'[k].len /\ (At(k, q + 1).of)' = <<k, p + 1>>
              ELSE q = funcs'[k].len
    PROVE  InOrder(x, k, q)'
<1>1. InOrder(x, k, q)' <=>
      (/\ Rank(k, q)' \in DOMAIN Meant(x, p)' /\ Gives(At(k, q))' = Meant(x, p)'[Rank(k, q)']
       /\ IF Rank(k, q)' < Len(Meant(x, p)')
          THEN q < funcs'[k].len /\ (At(k, q + 1).of)' = <<k, p>>
          ELSE IF p < Len(world'.code[x])
               THEN q < funcs'[k].len /\ (At(k, q + 1).of)' = <<k, p + 1>>
               ELSE q = funcs'[k].len)
  BY DEF InOrder
<1> QED  BY <1>1

LEMMA WalkIntro ==
    ASSUME NEW k, NEW v, NEW x, NEW o, NEW n, NEW code,
           funcs'[k].item = x, funcs'[k].len = n, Off(k)' = o, CodeOf(k)' = code,
           (At(k, 1).of)' = <<k, 1>>,
           \A q \in v .. n : /\ q - o \in DOMAIN code
                            /\ At(k, q)' = From(code[q - o], <<k, q - o>>),
           \A q \in 1 .. v - 1 : InOrder(x, k, q)',
           v > 1 => Rank(k, v - 1)' = Len(Meant(x, At(k, v - 1).of[2])'),
           ~Rewritten(x, v - o)'
    PROVE  Walk(k, v)'
  BY DEF Walk

\* The instructions before the one a walk stands on stay in order.
LEMMA PrefixKept ==
    ASSUME TypeOK, TablesOK, ItemsKept, NEW k \in DOMAIN funcs, NEW w \in 1 .. funcs[k].len,
           Walk(k, w), NEW x, x = funcs[k].item,
           funcs'[k].len \in Nat, funcs'[k].len >= funcs[k].len,
           \A q \in 1 .. w - 1 : At(k, q)' = At(k, q),
           (At(k, w).of)' = At(k, w).of
    PROVE  \A q \in 1 .. w - 1 : InOrder(x, k, q)'
<1> TAKE q \in 1 .. w - 1
<1>1. funcs[k].len \in Nat \ {0}
  BY AtFacts
<1>2. q \in 1 .. funcs[k].len /\ q < funcs[k].len
  BY <1>1
<1>3. q > 1 => q - 1 \in 1 .. w - 1
  BY <1>1
<1>4. (At(k, q + 1).of)' = At(k, q + 1).of
  <2>1. CASE q + 1 = w
    BY <2>1
  <2>2. CASE q + 1 # w
    <3>1. q + 1 \in 1 .. w - 1
      BY <1>1, <2>2
    <3> QED  BY <3>1
  <2> QED  BY <2>1, <2>2
<1>5. (q > 1 => (At(k, q - 1).of)' = At(k, q - 1).of) /\ At(k, q)' = At(k, q)
  BY <1>3
<1>6. InOrder(x, k, q)
  BY DEF Walk
<1> QED  BY <1>2, <1>4, <1>5, <1>6, InOrderKept

LEMMA WalkStep ==
    ASSUME TypeOK, TablesOK, ItemsKept, NEW k \in DOMAIN funcs, NEW w \in 1 .. funcs[k].len,
           Walk(k, w), NEW x, x = funcs[k].item, NEW p, p = w - Off(k), NEW m,
           funcs'[k].len = funcs[k].len,
           \A q \in 1 .. funcs[k].len : q # w => At(k, q)' = At(k, q),
           (At(k, w).of)' = <<k, p>>, Gives(At(k, w))' = m,
           Meant(x, p) = <<m>>, ~Rewritten(x, p + 1)
    PROVE  Walk(k, w + 1)'
<1>1. /\ funcs[k].len \in Nat \ {0} /\ Off(k) \in Nat
      /\ p \in DOMAIN world.code[x] /\ p \in Nat \ {0}
      /\ At(k, w).of = <<k, p>>
      /\ p = Len(world.code[x]) <=> w = funcs[k].len
      /\ p < Len(world.code[x]) <=> w < funcs[k].len
      /\ w < funcs[k].len => At(k, w + 1) = From(world.code[x][p + 1], <<k, p + 1>>)
      /\ w > 1 => At(k, w - 1).of # <<k, p>>
  <2>1. /\ funcs[k].len \in Nat \ {0} /\ Off(k) \in Nat
        /\ p \in DOMAIN world.code[x] /\ p \in Nat \ {0} /\ At(k, w).of = <<k, p>>
    BY WalkFacts
  <2>2. /\ w < funcs[k].len => At(k, w + 1) = From(world.code[x][p + 1], <<k, p + 1>>)
        /\ w > 1 => At(k, w - 1).of # <<k, p>>
    BY WalkFacts
  <2>3. /\ p = Len(world.code[x]) <=> w = funcs[k].len
        /\ p < Len(world.code[x]) <=> w < funcs[k].len
    <3>1. p \in Nat /\ w \in Nat
      BY <2>1
    <3> QED  BY <3>1, WalkEnds
  <2> QED  BY <2>1, <2>2, <2>3
<1>2. \A q \in 1 .. funcs[k].len : (At(k, q).of)' = At(k, q).of
  BY <1>1
<1>3. /\ CodeOf(k)' = CodeOf(k) /\ Off(k)' = Off(k)
      /\ funcs'[k].item = x /\ world' = world
  BY CodeKept DEF ItemsKept
<1>4. (At(k, 1).of)' = <<k, 1>>
  <2>1. 1 \in 1 .. funcs[k].len
    BY <1>1
  <2> QED  BY <1>2, <2>1 DEF Walk
<1>5. ASSUME NEW q \in w + 1 .. funcs[k].len
      PROVE  /\ q - Off(k) \in DOMAIN CodeOf(k)
             /\ At(k, q)' = From(CodeOf(k)[q - Off(k)], <<k, q - Off(k)>>)
  <2>1. q \in 1 .. funcs[k].len /\ q \in w .. funcs[k].len /\ q # w
    <3>1. w \in 1 .. funcs[k].len /\ funcs[k].len \in Nat /\ q \in w + 1 .. funcs[k].len
      BY <1>1
    <3> QED  BY ONLY <3>1
  <2>2. At(k, q)' = At(k, q)
    BY <2>1
  <2> QED  BY <2>1, <2>2 DEF Walk
<1>6. \A q \in 1 .. w - 1 : InOrder(x, k, q)'
  <2>1. \A q \in 1 .. w - 1 : At(k, q)' = At(k, q)
    BY <1>1
  <2>2. (At(k, w).of)' = At(k, w).of
    BY <1>2
  <2>3. funcs'[k].len \in Nat /\ funcs'[k].len >= funcs[k].len
    BY <1>1
  <2> QED  BY <2>1, <2>2, <2>3, PrefixKept
<1>7. /\ (At(k, w).of[2])' = p
      /\ \A y, z : Meant(y, z)' = Meant(y, z)
      /\ \A y, z : Rewritten(y, z)' <=> Rewritten(y, z)
  BY WorldSame DEF ItemsKept
<1>8. Rank(k, w)' = 1
  <2>1. w > 1 => w - 1 \in 1 .. funcs[k].len
    BY <1>1
  <2>2. w > 1 => (At(k, w - 1).of)' # (At(k, w).of)'
    BY <1>1, <1>2, <2>1
  <2> QED  BY <2>2 DEF Rank
<1>9. InOrder(x, k, w)'
  <2>1. Meant(x, p)' = <<m>> /\ Len(<<m>>) = 1 /\ <<m>>[1] = m /\ 1 \in DOMAIN <<m>>
    BY <1>7
  <2>3. w < funcs[k].len => (At(k, w + 1).of)' = <<k, p + 1>>
    <3> HAVE w < funcs[k].len
    <3>1. w + 1 \in 1 .. funcs[k].len
      BY <1>1
    <3>2. At(k, w + 1).of = <<k, p + 1>>
      <4>1. At(k, w + 1) = From(world.code[x][p + 1], <<k, p + 1>>)
        BY <1>1
      <4> QED  BY ONLY <4>1 DEF From
    <3> QED  BY <1>2, <3>1, <3>2
  <2>4. IF p < Len(world'.code[x])
        THEN w < funcs'[k].len /\ (At(k, w + 1).of)' = <<k, p + 1>>
        ELSE w = funcs'[k].len
    <3>1. CASE w < funcs[k].len
      BY <1>1, <1>3, <2>3, <3>1
    <3>2. CASE w = funcs[k].len
      BY <1>1, <1>3, <3>2
    <3>3. w \in 1 .. funcs[k].len /\ funcs[k].len \in Nat
      BY <1>1
    <3>4. w < funcs[k].len \/ w = funcs[k].len
      BY ONLY <3>3
    <3> QED  BY <3>1, <3>2, <3>4
  <2> QED  BY <1>7, <1>8, <2>1, <2>4, InOrderIntro
<1>10. \A q \in 1 .. w + 1 - 1 : InOrder(x, k, q)'
  <2> TAKE q \in 1 .. w + 1 - 1
  <2>1. q = w \/ q \in 1 .. w - 1
    BY <1>1
  <2> QED  BY <1>6, <1>9, <2>1
<1>11. /\ Rank(k, w + 1 - 1)' = Len(Meant(x, p)')
       /\ (At(k, w + 1 - 1).of[2])' = p
  <2>1. w + 1 - 1 = w
    BY <1>1
  <2>2. Len(Meant(x, p)') = 1
    BY <1>7
  <2> QED  BY <1>7, <1>8, <2>1, <2>2
<1>12. ~Rewritten(x, p + 1)'
  BY <1>7
<1> QED
  <2>1. Meant(x, At(k, w + 1 - 1).of[2])' = Meant(x, p)'
    BY <1>11, <1>7
  <2>2. PICK o, n, code : o = Off(k) /\ n = funcs[k].len /\ code = CodeOf(k)
    OBVIOUS
  <2>3. PICK v : v = w + 1
    OBVIOUS
  <2>4. \A q \in v .. n : /\ q - o \in DOMAIN code
                          /\ At(k, q)' = From(code[q - o], <<k, q - o>>)
    BY <1>5, <2>2, <2>3
  <2>5. \A q \in 1 .. v - 1 : InOrder(x, k, q)'
    BY <1>10, <2>3
  <2>6. Rank(k, v - 1)' = Len(Meant(x, At(k, v - 1).of[2])')
    BY <1>11, <2>1, <2>3
  <2>7. ~Rewritten(x, v - o)'
    <3>1. v - o = p + 1
      BY <1>1, <2>2, <2>3
    <3> QED  BY <1>12, <3>1
  <2>8. Walk(k, v)'
    BY <1>3, <1>4, <2>2, <2>4, <2>5, <2>6, <2>7, WalkIntro
  <2> QED  BY <2>3, <2>8

\* Function k has an instruction more behind its instructions w and w + 1.
Shifted(k, w) ==
    /\ funcs'[k].len = funcs[k].len + 1
    /\ \A q \in 1 .. w - 1 : At(k, q)' = At(k, q)
    /\ \A q \in w + 2 .. funcs[k].len : At(k, q + 1)' = At(k, q)

LEMMA RoomBehind ==
    ASSUME NEW l \in Nat, NEW w \in Nat, NEW p \in Nat, NEW n \in Nat,
           p = w - (l - n), p + 1 \in 1 .. n, p + 1 # n
    PROVE  p + 1 < n /\ w + 2 <= l
  OBVIOUS

\* A qualified name is passed: three instructions for two.
LEMMA WalkPair ==
    ASSUME TypeOK, TablesOK, ItemsKept, NEW k \in DOMAIN funcs, NEW w \in 1 .. funcs[k].len,
           Walk(k, w), NEW x, x = funcs[k].item, NEW p, p = w - Off(k),
           Rewritten(x, p + 1), NEW m1, NEW m2, NEW m3,
           Meant(x, p) = <<m1>>, Meant(x, p + 1) = <<m2, m3>>,
           Shifted(k, w),
           (At(k, w).of)' = <<k, p>>, Gives(At(k, w))' = m1,
           (At(k, w + 1).of)' = <<k, p + 1>>, Gives(At(k, w + 1))' = m2,
           (At(k, w + 2).of)' = <<k, p + 1>>, Gives(At(k, w + 2))' = m3
    PROVE  Walk(k, w + 3)' /\ w + 2 <= funcs[k].len
<1>0. /\ funcs'[k].len = funcs[k].len + 1
      /\ \A q \in 1 .. w - 1 : At(k, q)' = At(k, q)
  BY DEF Shifted
<1>1. /\ funcs[k].len \in Nat \ {0} /\ Off(k) \in Nat /\ x \in Items
      /\ p \in DOMAIN world.code[x] /\ p \in Nat \ {0}
      /\ At(k, w).of = <<k, p>>
      /\ p = Len(world.code[x]) <=> w = funcs[k].len
      /\ p < Len(world.code[x]) <=> w < funcs[k].len
      /\ w > 1 => At(k, w - 1).of # <<k, p>>
  <2>1. /\ TypeOK /\ TablesOK /\ k \in DOMAIN funcs /\ w \in 1 .. funcs[k].len /\ Walk(k, w)
        /\ x = funcs[k].item /\ p = w - Off(k)
    OBVIOUS
  <2>2. /\ funcs[k].len \in Nat \ {0} /\ Off(k) \in Nat /\ x \in Items
        /\ p \in DOMAIN world.code[x] /\ p \in Nat \ {0}
    BY ONLY <2>1, WalkFacts
  <2>3. At(k, w).of = <<k, p>> /\ (w > 1 => At(k, w - 1).of # <<k, p>>)
    BY ONLY <2>1, WalkFacts
  <2>4. /\ p = Len(world.code[x]) <=> w = funcs[k].len
        /\ p < Len(world.code[x]) <=> w < funcs[k].len
    <3>1. p \in Nat /\ w \in Nat
      BY <2>1, <2>2
    <3> QED  BY ONLY <2>1, <3>1, WalkEnds
  <2> QED  BY ONLY <2>2, <2>3, <2>4
<1>30. /\ w \in Nat \ {0} /\ w \in 1 .. funcs[k].len /\ funcs[k].len \in Nat
       /\ Off(k) \in Nat /\ p \in Nat
  BY <1>1
<1>2. /\ world.code[x] \in Seq(Ins) /\ Len(world.code[x]) \in Nat \ {0}
      /\ world.code[x][Len(world.code[x])].op = "RETURN"
  BY <1>1, CodeFacts DEF TypeOK
<1>3. /\ p + 1 \in DOMAIN world.code[x] /\ world.code[x][p + 1].op = "AGG_GET"
  BY DEF Rewritten, FieldOfImport
<1>4. /\ p + 1 < Len(world.code[x]) /\ w + 2 <= funcs[k].len
  <2>1. p + 1 \in 1 .. Len(world.code[x]) /\ p + 1 # Len(world.code[x])
    BY <1>2, <1>3
  <2>2. Off(k) = funcs[k].len - Len(world.code[x])
    BY DEF Off, CodeOf
  <2>3. /\ funcs[k].len \in Nat /\ w \in Nat /\ p \in Nat /\ Len(world.code[x]) \in Nat
        /\ p = w - (funcs[k].len - Len(world.code[x]))
    BY <1>1, <1>2, <2>2
  <2> QED  BY ONLY <2>1, <2>3, RoomBehind
<1>5. /\ CodeOf(k)' = world.code[x] /\ CodeOf(k) = world.code[x]
      /\ Off(k)' = Off(k) + 1 /\ funcs'[k].item = x /\ world' = world
  <2>1. funcs'[k].item = x /\ world' = world
    BY DEF ItemsKept
  <2>2. CodeOf(k)' = world.code[x] /\ CodeOf(k) = world.code[x]
    BY <2>1 DEF CodeOf
  <2>3. /\ Off(k)' = funcs'[k].len - Len(world.code[x])
        /\ Off(k) = funcs[k].len - Len(world.code[x])
    BY <2>2 DEF Off
  <2>4. Off(k)' = Off(k) + 1
    <3>1. \A a, b \in Nat : (a + 1) - b = (a - b) + 1
      OBVIOUS
    <3>2. Off(k)' = (funcs[k].len + 1) - Len(world.code[x])
      BY <1>0, <2>3
    <3>3. funcs[k].len \in Nat /\ Len(world.code[x]) \in Nat
      BY <1>1, <1>2
    <3> QED  BY <2>3, <3>1, <3>2, <3>3
  <2> QED  BY <2>1, <2>2, <2>4
<1>6. /\ \A a, b : Meant(a, b)' = Meant(a, b)
      /\ \A a, b : Rewritten(a, b)' <=> Rewritten(a, b)
  BY WorldSame DEF ItemsKept
<1>7. ~Rewritten(x, p + 2)
  BY <1>1, MeantByPair
<1>8. (At(k, w).of)' = At(k, w).of
  BY <1>1
<1>9. (At(k, 1).of)' = <<k, 1>>
  <2>1. At(k, 1).of = <<k, 1>>
    BY DEF Walk
  <2>2. CASE w = 1
    BY <1>8, <2>1, <2>2
  <2>3. CASE w # 1
    <3>1. 1 \in 1 .. w - 1
      BY <1>1, <2>3
    <3> QED  BY <1>0, <2>1, <3>1
  <2> QED  BY <2>2, <2>3
<1>10. ASSUME NEW q \in w + 3 .. funcs[k].len + 1
       PROVE  /\ q - (Off(k) + 1) \in DOMAIN world.code[x]
              /\ At(k, q)' = From(world.code[x][q - (Off(k) + 1)], <<k, q - (Off(k) + 1)>>)
  <2>1. PICK r : r = q - 1
    OBVIOUS
  <2>2. /\ r \in w + 2 .. funcs[k].len /\ r \in w .. funcs[k].len
        /\ r + 1 = q /\ r - Off(k) = q - (Off(k) + 1)
    <3>1. /\ w \in Nat /\ funcs[k].len \in Nat /\ Off(k) \in Nat
          /\ q \in w + 3 .. funcs[k].len + 1 /\ q \in Nat
      <4>1. q \in w + 3 .. funcs[k].len + 1
        OBVIOUS
      <4> QED  BY ONLY <1>30, <4>1
    <3> QED  BY ONLY <2>1, <3>1
  <2>3. At(k, q)' = At(k, r)
    BY <2>2 DEF Shifted
  <2>4. r - Off(k) \in DOMAIN CodeOf(k) /\ At(k, r) = From(CodeOf(k)[r - Off(k)], <<k, r - Off(k)>>)
    BY <2>2 DEF Walk
  <2> QED  BY <1>5, <2>2, <2>3, <2>4
<1>11. \A q \in 1 .. w - 1 : InOrder(x, k, q)'
  <2>1. funcs'[k].len \in Nat /\ funcs'[k].len >= funcs[k].len
    <3>1. funcs[k].len \in Nat
      BY <1>1
    <3> QED  BY ONLY <1>0, <3>1
  <2> QED  BY <1>0, <1>8, <2>1, PrefixKept
<1>12. Rank(k, w)' = 1
  <2>1. w > 1 => w - 1 \in 1 .. w - 1
    BY ONLY <1>30
  <2>2. w > 1 => (At(k, w - 1).of)' # (At(k, w).of)'
    BY <1>0, <1>1, <2>1
  <2> QED  BY <2>2 DEF Rank
<1>13. Rank(k, w + 1)' = 1
  <2>1. (At(k, w + 1 - 1).of)' = <<k, p>>
    <3>1. w + 1 - 1 = w
      BY ONLY <1>30
    <3>2. (At(k, w).of)' = <<k, p>>
      OBVIOUS
    <3> QED  BY ONLY <3>1, <3>2
  <2>2. <<k, p>> # <<k, p + 1>>
    BY <1>1
  <2> QED  BY <2>1, <2>2 DEF Rank
<1>14. Rank(k, w + 2)' = 2
  <2>1. (At(k, w + 2 - 1).of)' = <<k, p + 1>> /\ w + 2 > 1
    <3>1. w + 2 - 1 = w + 1 /\ w + 2 > 1
      BY <1>1
    <3> QED  BY <3>1
  <2> QED  BY <2>1 DEF Rank
<1>15. InOrder(x, k, w)'
  <2> DEFINE m == <<m1>>
  <2>1. Len(m) = 1 /\ m[1] = m1 /\ 1 \in DOMAIN m
    OBVIOUS
  <2>2. Meant(x, p)' = m /\ (At(k, w).of[2])' = p
    BY <1>6, <1>7
  <2>3. w < funcs'[k].len /\ p < Len(world'.code[x])
    BY <1>0, <1>1, <1>2, <1>4, <1>5
  <2> HIDE DEF m
  <2> QED  BY <1>12, <2>1, <2>2, <2>3, InOrderIntro
<1> DEFINE m == <<m2, m3>>
<1>16. /\ Len(m) = 2 /\ m[1] = m2 /\ m[2] = m3
       /\ 1 \in DOMAIN m /\ 2 \in DOMAIN m
  OBVIOUS
<1>17. /\ Meant(x, p + 1)' = m
       /\ (At(k, w + 1).of[2])' = p + 1 /\ (At(k, w + 2).of[2])' = p + 1
  BY <1>6, <1>7
<1> HIDE DEF m
<1>18. InOrder(x, k, w + 1)'
  <2>1. PICK q, o : q = w + 1 /\ o = p + 1
    OBVIOUS
  <2>2. w + 2 = q + 1 /\ q < funcs'[k].len
    BY <1>0, <1>1, <1>4, <2>1
  <2>3. /\ (At(k, q).of[2])' = o /\ Rank(k, q)' = 1 /\ Meant(x, o)' = m
        /\ Gives(At(k, q))' = m[1] /\ (At(k, q + 1).of)' = <<k, o>>
    BY <1>13, <1>16, <1>17, <2>1, <2>2
  <2>4. InOrder(x, k, q)'
    BY <1>16, <2>2, <2>3, InOrderIntro
  <2> QED  BY <2>1, <2>4
<1>19. InOrder(x, k, w + 2)'
  <2>1. PICK q, o : q = w + 2 /\ o = p + 1
    OBVIOUS
  <2>2. /\ q < funcs'[k].len /\ o < Len(world'.code[x])
        /\ q + 1 = w + 3 /\ q + 1 \in w + 3 .. funcs[k].len + 1
        /\ q + 1 - (Off(k) + 1) = o + 1 /\ q \in Nat /\ o \in Nat
    <3>1. world'.code[x] = world.code[x]
      BY <1>5
    <3>2. o < Len(world'.code[x])
      BY <1>4, <2>1, <3>1
    <3>3. /\ q + 1 = w + 3 /\ q \in Nat /\ o \in Nat
          /\ q + 1 - (Off(k) + 1) = o + 1
      <4>1. \A a, b \in Nat : a + 2 + 1 = a + 3 /\ a + 2 \in Nat /\ a + 1 \in Nat
                               /\ a + 2 + 1 - (b + 1) = a - b + 1 + 1
        OBVIOUS
      <4>2. w \in Nat /\ Off(k) \in Nat /\ p \in Nat
        BY ONLY <1>30
      <4> QED  BY <2>1, <4>1, <4>2
    <3>4. q < funcs'[k].len /\ q + 1 \in w + 3 .. funcs[k].len + 1
      BY ONLY <1>0, <1>4, <1>30, <2>1
    <3> QED  BY <3>2, <3>3, <3>4
  <2>3. (At(k, q + 1).of)' = <<k, o + 1>>
    <3>1. PICK v : v = q + 1
      OBVIOUS
    <3>2. At(k, v)' = From(world.code[x][v - (Off(k) + 1)], <<k, v - (Off(k) + 1)>>)
      BY <1>10, <2>2, <3>1
    <3>3. (At(k, v).of)' = <<k, v - (Off(k) + 1)>>
      BY <3>2 DEF From
    <3>4. v - (Off(k) + 1) = o + 1
      BY <1>1, <2>2, <3>1
    <3> QED  BY <3>1, <3>3, <3>4
  <2>4. /\ (At(k, q).of[2])' = o /\ Rank(k, q)' = 2 /\ Meant(x, o)' = m
        /\ Gives(At(k, q))' = m[2]
    BY <1>14, <1>16, <1>17, <2>1
  <2>5. IF o < Len(world'.code[x])
        THEN q < funcs'[k].len /\ (At(k, q + 1).of)' = <<k, o + 1>>
        ELSE q = funcs'[k].len
    BY <2>2, <2>3
  <2>6. ~(2 < Len(m)) /\ 2 \in DOMAIN m
    BY <1>16
  <2>7. InOrder(x, k, q)'
    BY <2>4, <2>5, <2>6, InOrderIntro
  <2> QED  BY <2>1, <2>7
<1>20. PICK v, o, n, code : /\ v = w + 3 /\ o = Off(k) + 1 /\ n = funcs[k].len + 1
                            /\ code = world.code[x]
  OBVIOUS
<1>21. \A q \in 1 .. v - 1 : InOrder(x, k, q)'
  <2> TAKE q \in 1 .. v - 1
  <2>1. q \in 1 .. w - 1 \/ q = w \/ q = w + 1 \/ q = w + 2
    <3>1. w \in Nat /\ v = w + 3 /\ q \in 1 .. v - 1
      BY <1>20
    <3> QED  BY ONLY <3>1
  <2> QED  BY <1>11, <1>15, <1>18, <1>19, <2>1
<1>22. Rank(k, v - 1)' = Len(Meant(x, At(k, v - 1).of[2])')
  <2>1. v - 1 = w + 2
    BY <1>1, <1>20
  <2>2. Meant(x, At(k, w + 2).of[2])' = m
    BY <1>6, <1>17
  <2> QED  BY <1>14, <1>16, <2>1, <2>2
<1>23. ~Rewritten(x, v - o)'
  <2>1. v - o = p + 2
    BY <1>1, <1>20
  <2>2. ~Rewritten(x, p + 2)'
    BY <1>6, <1>7
  <2> QED  BY <2>1, <2>2
<1>24. \A q \in v .. n : /\ q - o \in DOMAIN code
                         /\ At(k, q)' = From(code[q - o], <<k, q - o>>)
  BY <1>10, <1>20
<1>25. Walk(k, v)'
  <2>1. funcs'[k].len = n /\ Off(k)' = o /\ CodeOf(k)' = code /\ funcs'[k].item = x
    BY <1>0, <1>5, <1>20
  <2> QED  BY <1>9, <1>21, <1>22, <1>23, <1>24, <2>1, WalkIntro
<1> QED  BY <1>4, <1>20, <1>25

----------------------------------------------------------------------------
(***************************************************************************)
(* What appending, rewriting and inserting do to the functions.            *)
(***************************************************************************)
LEMMA CodeIsSeq ==
    ASSUME TypeOK, NEW x \in Items
    PROVE  /\ Code(x) \in Seq(InstRec) /\ Len(Code(x)) = Len(world.code[x])
           /\ \A i \in 1 .. Len(world.code[x]) :
                Code(x)[i] = From(world.code[x][i], <<Len(funcs) + 1, i>>)
<1>1. /\ world.code[x] \in Seq(Ins) /\ Len(world.code[x]) \in Nat
      /\ DOMAIN world.code[x] = 1 .. Len(world.code[x])
  BY CodeFacts DEF TypeOK
<1>2. Len(funcs) \in Nat
  BY DEF TypeOK
<1>3. \A i \in 1 .. Len(world.code[x]) : From(world.code[x][i], <<Len(funcs) + 1, i>>) \in InstRec
  <2> TAKE i \in 1 .. Len(world.code[x])
  <2>1. world.code[x][i] \in Ins
    BY <1>1
  <2>2. <<Len(funcs) + 1, i>> \in Nat \X Nat
    BY <1>1, <1>2
  <2>3. world.code[x][i].op \in Texts /\ world.code[x][i].name \in Texts /\ world.code[x][i].num \in Nat
    BY <2>1 DEF Ins, Texts
  <2> QED  BY <2>2, <2>3 DEF From, InstRec
<1>4. Code(x) = [i \in 1 .. Len(world.code[x]) |-> From(world.code[x][i], <<Len(funcs) + 1, i>>)]
  BY <1>1 DEF Code
<1> QED  BY <1>1, <1>3, <1>4

LEMMA Appended ==
    ASSUME TypeOK, TablesOK, NEW x \in Items, AppendFunction(x), world' = world,
           NEW new, new = Len(funcs) + 1
    PROVE     /\ insts' \in Seq(InstRec) /\ funcs' \in Seq([item : Items, start : Nat, len : Nat])
              /\ DOMAIN funcs' = 1 .. new /\ DOMAIN funcs = 1 .. Len(funcs) /\ Len(funcs) \in Nat
              /\ funcs'[new] = [item |-> x, start |-> Len(insts), len |-> Len(world.code[x])]
              /\ \A j \in DOMAIN funcs : funcs'[j] = funcs[j] /\ Keeps(j)
              /\ \A q \in 1 .. Len(world.code[x]) :
                    At(new, q)' = From(world.code[x][q], <<new, q>>)
              /\ ItemsKept /\ TablesOK'
<1>0. PICK n : n = Len(funcs)
  OBVIOUS
<1> DEFINE e == [item |-> x, start |-> Len(insts), len |-> Len(world.code[x])]
           code == Code(x)
<1>1. /\ code \in Seq(InstRec) /\ Len(code) = Len(world.code[x]) /\ Len(world.code[x]) \in Nat \ {0}
      /\ \A i \in 1 .. Len(world.code[x]) : code[i] = From(world.code[x][i], <<new, i>>)
  BY <1>0, CodeIsSeq, CodeFacts DEF TypeOK
<1>2. funcs' = Append(funcs, e) /\ insts' = insts \o code
  BY DEF AppendFunction
<1>3. /\ n \in Nat /\ new = n + 1 /\ DOMAIN funcs = 1 .. n /\ Len(insts) \in Nat /\ insts \in Seq(InstRec)
      /\ funcs \in Seq([item : Items, start : Nat, len : Nat])
  BY <1>0 DEF TypeOK
<1> HIDE DEF code
<1>4. e \in [item : Items, start : Nat, len : Nat]
  BY <1>1, <1>3
<1> HIDE DEF e
<1>5. /\ funcs' \in Seq([item : Items, start : Nat, len : Nat]) /\ DOMAIN funcs' = 1 .. new
      /\ funcs'[new] = e /\ \A j \in 1 .. n : funcs'[j] = funcs[j]
  <2> DEFINE R == [item : Items, start : Nat, len : Nat]
  <2>1. funcs \in Seq(R) /\ e \in R
    BY <1>3, <1>4
  <2> HIDE DEF R
  <2>2. /\ Append(funcs, e) \in Seq(R) /\ DOMAIN Append(funcs, e) = 1 .. Len(funcs) + 1
        /\ \A j \in 1 .. Len(funcs) : Append(funcs, e)[j] = funcs[j]
        /\ Append(funcs, e)[Len(funcs) + 1] = e
    BY ONLY <2>1, AppendFacts
  <2> QED  BY <1>0, <1>2, <1>3, <2>2 DEF R
<1>6. /\ insts' \in Seq(InstRec) /\ Len(insts') = Len(insts) + Len(code)
      /\ \A i \in 1 .. Len(insts) : insts'[i] = insts[i]
      /\ \A i \in 1 .. Len(code) : insts'[Len(insts) + i] = code[i]
  <2>1. /\ insts \o code \in Seq(InstRec) /\ Len(insts \o code) = Len(insts) + Len(code)
        /\ \A i \in 1 .. Len(insts) : (insts \o code)[i] = insts[i]
        /\ \A i \in 1 .. Len(code) : (insts \o code)[Len(insts) + i] = code[i]
    <3>1. insts \in Seq(InstRec) /\ code \in Seq(InstRec)
      BY <1>1, <1>3
    <3> QED  BY ONLY <3>1, ConcatFacts
  <2> QED  BY <1>2, <2>1
<1>7. e.item = x /\ e.start = Len(insts) /\ e.len = Len(world.code[x])
  BY DEF e
<1>8. ItemsKept
  <2>1. 1 .. n \subseteq 1 .. new
    BY ONLY <1>3
  <2>2. \A j \in DOMAIN funcs : funcs'[j].item = funcs[j].item
    BY <1>3, <1>5
  <2>3. DOMAIN funcs \subseteq DOMAIN funcs'
    BY <1>3, <1>5, <2>1
  <2> QED  BY <2>2, <2>3 DEF ItemsKept
<1>9. \A j \in 1 .. n : funcs'[j] = funcs[j] /\ Keeps(j)
  <2> TAKE j \in 1 .. n
  <2>1. /\ funcs[j].start \in Nat
        /\ \A q \in 1 .. funcs[j].len :
              /\ funcs[j].start + q \in DOMAIN insts
              /\ At(j, q) = insts[funcs[j].start + q]
    BY <1>3, AtFacts
  <2>2. ASSUME NEW q \in 1 .. funcs[j].len PROVE At(j, q)' = At(j, q)
    <3>1. At(j, q)' = insts'[funcs'[j].start + q]
      BY DEF At
    <3>2. funcs'[j].start = funcs[j].start /\ funcs[j].start + q \in 1 .. Len(insts)
      <4>1. DOMAIN insts = 1 .. Len(insts)
        BY <1>3
      <4>2. funcs'[j] = funcs[j]
        BY <1>5
      <4> QED  BY <2>1, <4>1, <4>2
    <3> QED  BY <1>6, <2>1, <3>1, <3>2
  <2> QED  BY <1>5, <2>2 DEF Keeps
<1>10. \A q \in 1 .. Len(world.code[x]) : At(new, q)' = From(world.code[x][q], <<new, q>>)
  <2> TAKE q \in 1 .. Len(world.code[x])
  <2>1. At(new, q)' = insts'[Len(insts) + q]
    BY <1>5, <1>7 DEF At
  <2> QED  BY <1>1, <1>6, <2>1
<1>11. TablesOK'
  <2>1. ASSUME NEW k \in 1 .. new
        PROVE  funcs'[k].len >= Len(CodeOf(k)') /\ End(k)' <= Len(insts')
    <3>1. CASE k = new
      <4>1. CodeOf(k)' = world.code[x] /\ End(k)' = Len(insts) + Len(world.code[x])
        BY <1>5, <1>7, <3>1 DEF CodeOf, End
      <4> QED  BY <1>1, <1>3, <1>5, <1>6, <1>7, <3>1, <4>1
    <3>2. CASE k \in 1 .. n
      <4>1. CodeOf(k)' = CodeOf(k) /\ End(k)' = End(k)
        BY <1>5, <3>2 DEF CodeOf, End
      <4>2. funcs[k].len >= Len(CodeOf(k)) /\ End(k) <= Len(insts)
        <5>1. k \in DOMAIN funcs
          BY <1>3, <3>2
        <5> QED  BY <5>1 DEF TablesOK
      <4>3. End(k) \in Nat
        <5>1. k \in DOMAIN funcs
          BY <1>3, <3>2
        <5>2. funcs[k].start \in Nat /\ funcs[k].len \in Nat
          BY <5>1, AtFacts
        <5> QED  BY <5>2 DEF End
      <4>4. funcs'[k].len = funcs[k].len /\ Len(insts') >= Len(insts) /\ Len(insts') \in Nat
        <5>1. funcs'[k] = funcs[k]
          BY <1>5, <3>2
        <5>2. Len(insts) \in Nat /\ Len(code) \in Nat
          BY <1>1, <1>3
        <5> QED  BY ONLY <1>6, <5>1, <5>2
      <4> QED  BY <1>3, <4>1, <4>2, <4>3, <4>4
    <3> QED  BY <1>3, <3>1, <3>2
  <2>2. ASSUME NEW k \in 1 .. new, NEW j \in 1 .. k - 1
        PROVE  End(j)' <= funcs'[k].start
    <3>1. j \in 1 .. n
      BY <1>3
    <3>2. End(j)' = End(j)
      BY <1>5, <3>1 DEF End
    <3>3. CASE k = new
      <4>1. End(j) <= Len(insts)
        BY <1>3, <3>1 DEF TablesOK
      <4> QED  BY <1>5, <1>7, <3>2, <3>3, <4>1
    <3>4. CASE k \in 1 .. n
      <4>1. End(j) <= funcs[k].start
        BY <1>3, <3>4 DEF TablesOK
      <4> QED  BY <1>5, <3>2, <3>4, <4>1
    <3> QED  BY <1>3, <3>3, <3>4
  <2>3. ASSUME NEW i \in DOMAIN insts', insts'[i].op \in ToFunctionOps
        PROVE  insts'[i].num \in 1 .. new
    <3>1. i \in 1 .. Len(insts) \/ (i - Len(insts) \in 1 .. Len(code) /\ i \in Nat)
      BY <1>1, <1>3, <1>6
    <3>2. CASE i \in 1 .. Len(insts)
      <4>1. insts[i].num \in DOMAIN funcs
        BY <1>3, <1>6, <2>3, <3>2 DEF TablesOK
      <4> QED  BY <1>3, <1>6, <3>2, <4>1
    <3>3. CASE i - Len(insts) \in 1 .. Len(code) /\ i \in Nat
      <4>1. PICK r \in 1 .. Len(code) : Len(insts) + r = i
        BY <1>1, <1>3, <3>3
      <4>2. insts'[i].op = world.code[x][r].op /\ r \in DOMAIN world.code[x]
        <5>1. insts'[i] = code[r]
          BY <1>6, <4>1
        <5>2. code[r] = From(world.code[x][r], <<new, r>>)
          BY <1>1, <4>1
        <5>3. r \in DOMAIN world.code[x]
          BY <1>1, <4>1, CodeFacts DEF TypeOK
        <5> QED  BY <5>1, <5>2, <5>3 DEF From
      <4> QED  BY <2>3, <4>2, CodeFacts DEF TypeOK
    <3> QED  BY <3>1, <3>2, <3>3
  <2>4. ToFunctionOps' = ToFunctionOps
    BY DEF ToFunctionOps
  <2> QED  BY <1>5, <2>1, <2>2, <2>3, <2>4 DEF TablesOK
<1> QED  BY <1>3, <1>5, <1>6, <1>8, <1>9, <1>10, <1>11 DEF e

LEMMA TableFits ==
    ASSUME TablesOK, NEW k \in DOMAIN funcs
    PROVE  funcs[k].len >= Len(CodeOf(k)) /\ End(k) <= Len(insts)
  BY DEF TablesOK

LEMMA Apart ==
    ASSUME TypeOK, TablesOK, NEW j \in DOMAIN funcs, NEW k \in DOMAIN funcs, j # k,
           NEW q \in 1 .. funcs[j].len, NEW w \in 1 .. funcs[k].len
    PROVE  funcs[j].start + q # funcs[k].start + w
<1>1. /\ funcs[j].start \in Nat /\ funcs[j].len \in Nat
      /\ funcs[k].start \in Nat /\ funcs[k].len \in Nat
  BY AtFacts
<1>2. j \in Nat \ {0} /\ k \in Nat \ {0} /\ (j \in 1 .. k - 1 \/ k \in 1 .. j - 1)
  <2>1. DOMAIN funcs = 1 .. Len(funcs) /\ Len(funcs) \in Nat
    BY DEF TypeOK
  <2>2. j \in Nat \ {0} /\ k \in Nat \ {0}
    BY <2>1
  <2> QED  BY <2>2
<1>3. CASE j \in 1 .. k - 1
  <2>1. funcs[j].start + funcs[j].len <= funcs[k].start
    BY <1>3 DEF TablesOK, End
  <2> QED  BY <1>1, <2>1
<1>4. CASE k \in 1 .. j - 1
  <2>1. funcs[k].start + funcs[k].len <= funcs[j].start
    BY <1>4 DEF TablesOK, End
  <2> QED  BY <1>1, <2>1
<1> QED  BY <1>2, <1>3, <1>4

LEMMA Rewrote ==
    ASSUME TypeOK, TablesOK, world' = world, funcs' = funcs,
           NEW k \in DOMAIN funcs, NEW w \in 1 .. funcs[k].len, NEW ins \in InstRec,
           ins.op \in ToFunctionOps => ins.num \in DOMAIN funcs,
           insts' = [insts EXCEPT ![funcs[k].start + w] = ins]
    PROVE  /\ insts' \in Seq(InstRec) /\ ItemsKept /\ TablesOK'
           /\ At(k, w)' = ins
           /\ \A q \in 1 .. funcs[k].len : q # w => At(k, q)' = At(k, q)
           /\ Others(k)
<1> DEFINE i == funcs[k].start + w
<1>1. i \in DOMAIN insts /\ insts \in Seq(InstRec) /\ funcs[k].start \in Nat
  <2>1. insts \in Seq(InstRec)
    BY DEF TypeOK
  <2> QED  BY <2>1, AtFacts
<1>2. /\ insts' \in Seq(InstRec) /\ Len(insts') = Len(insts) /\ insts'[i] = ins
      /\ \A h \in DOMAIN insts : h # i => insts'[h] = insts[h]
  <2> HIDE DEF i
  <2>1. /\ [insts EXCEPT ![i] = ins] \in Seq(InstRec)
        /\ Len([insts EXCEPT ![i] = ins]) = Len(insts)
        /\ [insts EXCEPT ![i] = ins][i] = ins
        /\ \A h \in DOMAIN insts : h # i => [insts EXCEPT ![i] = ins][h] = insts[h]
    BY <1>1, ExceptFacts
  <2> QED  BY <2>1 DEF i
<1>3. ItemsKept
  BY DEF ItemsKept
<1>4. At(k, w)' = ins
  BY <1>2 DEF At
<1>5. ASSUME NEW q \in 1 .. funcs[k].len, q # w PROVE At(k, q)' = At(k, q)
  <2>1. funcs[k].start + q \in DOMAIN insts
    BY AtFacts
  <2>2. funcs[k].start + q # i
    BY <1>1, <1>5
  <2> QED  BY <1>2, <2>1, <2>2 DEF At
<1>6. ASSUME NEW j \in DOMAIN funcs, j # k PROVE Keeps(j)
  <2> SUFFICES ASSUME NEW q \in 1 .. funcs[j].len PROVE At(j, q)' = At(j, q)
    BY DEF Keeps
  <2>1. funcs[j].start + q \in DOMAIN insts
    BY AtFacts
  <2>2. funcs[j].start + q # i
    BY <1>6, Apart
  <2> QED  BY <1>2, <2>1, <2>2 DEF At
<1>7. TablesOK'
  <2>1. \A h \in DOMAIN insts' : insts'[h].op \in ToFunctionOps => insts'[h].num \in DOMAIN funcs
    <3> TAKE h \in DOMAIN insts'
    <3>1. h \in DOMAIN insts
      BY <1>1, <1>2
    <3>2. CASE h = i
      BY <1>2, <3>2
    <3>3. CASE h # i
      <4>1. insts[h].op \in ToFunctionOps => insts[h].num \in DOMAIN funcs
        BY <3>1 DEF TablesOK
      <4> QED  BY <1>2, <3>1, <3>3, <4>1
    <3> QED  BY <3>2, <3>3
  <2>2. ASSUME NEW j \in DOMAIN funcs
        PROVE  End(j)' = End(j) /\ CodeOf(j)' = CodeOf(j)
    BY DEF End, CodeOf
  <2>3. \A j \in DOMAIN funcs : funcs[j].len >= Len(CodeOf(j)') /\ End(j)' <= Len(insts')
    <3> TAKE j \in DOMAIN funcs
    <3>1. funcs[j].len >= Len(CodeOf(j)) /\ End(j) <= Len(insts)
      BY TableFits
    <3> QED  BY <1>2, <2>2, <3>1
  <2>4. \A a \in DOMAIN funcs : \A b \in 1 .. a - 1 : End(b)' <= funcs[a].start
    <3> SUFFICES ASSUME NEW a \in DOMAIN funcs, NEW b \in 1 .. a - 1
                 PROVE  End(b)' <= funcs[a].start
      OBVIOUS
    <3>1. End(b) <= funcs[a].start
      BY DEF TablesOK
    <3>2. End(b)' = End(b)
      BY DEF End
    <3> QED  BY <3>1, <3>2
  <2>5. ToFunctionOps' = ToFunctionOps
    BY DEF ToFunctionOps
  <2> QED  BY <2>1, <2>3, <2>4, <2>5 DEF TablesOK
<1>8. Others(k)
  BY <1>6 DEF Others
<1> QED  BY <1>2, <1>3, <1>4, <1>5, <1>7, <1>8

\* Of the functions after an insertion, those behind it start one place later.
LEMMA MovedFacts ==
    ASSUME TypeOK, TablesOK, NEW k \in DOMAIN funcs, NEW w \in 1 .. funcs[k].len,
           w + 1 <= funcs[k].len, NEW abs, abs = funcs[k].start + w + 1,
           funcs' = Moved(funcs, k, abs)
    PROVE  /\ funcs' \in Seq([item : Items, start : Nat, len : Nat])
           /\ Len(funcs') = Len(funcs) /\ DOMAIN funcs' = DOMAIN funcs
           /\ funcs'[k] = [funcs[k] EXCEPT !.len = @ + 1]
           /\ \A j \in DOMAIN funcs : j < k => funcs'[j] = funcs[j]
           /\ \A j \in DOMAIN funcs : j > k => funcs'[j] = [funcs[j] EXCEPT !.start = @ + 1]
<1> DEFINE R == [item : Items, start : Nat, len : Nat]
           m == Moved(funcs, k, abs)
<1>1. funcs \in Seq(R) /\ Len(funcs) \in Nat /\ DOMAIN funcs = 1 .. Len(funcs)
  BY DEF TypeOK
<1>2. \A j \in DOMAIN funcs : funcs[j] \in R
  BY <1>1, ElementOf
<1>3. /\ funcs[k].start \in Nat /\ funcs[k].len \in Nat
      /\ k \in Nat /\ abs \in Nat /\ abs <= End(k)
  <2>1. funcs[k].start \in Nat /\ funcs[k].len \in Nat
    BY AtFacts
  <2>2. k \in Nat
    BY <1>1
  <2> QED  BY <2>1, <2>2 DEF End
<1>4. ASSUME NEW j \in DOMAIN funcs, j > k
      PROVE  funcs[j].start >= abs
  <2>1. k \in 1 .. j - 1
    BY <1>1, <1>4
  <2>2. End(k) <= funcs[j].start
    BY <2>1 DEF TablesOK
  <2>3. End(k) \in Nat /\ funcs[j].start \in Nat
    BY <1>2, <1>3 DEF End
  <2> QED  BY <1>3, <2>2, <2>3
<1>5. DOMAIN m = 1 .. Len(funcs)
  BY <1>1 DEF Moved
<1>6. /\ m[k] = [funcs[k] EXCEPT !.len = @ + 1]
      /\ \A j \in DOMAIN funcs : j < k => m[j] = funcs[j]
      /\ \A j \in DOMAIN funcs : j > k => m[j] = [funcs[j] EXCEPT !.start = @ + 1]
  <2>1. m[k] = [funcs[k] EXCEPT !.len = @ + 1]
    BY <1>1, <1>3 DEF Moved
  <2>2. ASSUME NEW j \in DOMAIN funcs, j < k PROVE m[j] = funcs[j]
    <3>1. j # k /\ ~(j > k)
      <4>1. j \in Nat /\ k \in Nat /\ j < k
        BY <1>1, <1>3, <2>2
      <4> QED  BY ONLY <4>1
    <3>2. m[j] = CASE j = k -> [funcs[j] EXCEPT !.len = @ + 1]
                   [] j > k /\ funcs[j].start >= abs -> [funcs[j] EXCEPT !.start = @ + 1]
                   [] OTHER -> funcs[j]
      BY DEF Moved
    <3> QED  BY <3>1, <3>2
  <2>3. ASSUME NEW j \in DOMAIN funcs, j > k PROVE m[j] = [funcs[j] EXCEPT !.start = @ + 1]
    <3>1. j # k /\ funcs[j].start >= abs
      BY <1>1, <1>3, <1>4, <2>3
    <3> QED  BY <2>3, <3>1 DEF Moved
  <2> QED  BY <2>1, <2>2, <2>3
<1>7. \A j \in 1 .. Len(funcs) : m[j] \in R
  <2> TAKE j \in 1 .. Len(funcs)
  <2>1. j = k \/ j < k \/ j > k
    BY <1>1, <1>3
  <2>2. funcs[j] \in R /\ j \in DOMAIN funcs
    BY <1>1, <1>2
  <2>3. CASE j = k
    BY <1>6, <2>2, <2>3
  <2>4. CASE j < k
    BY <1>6, <2>2, <2>4
  <2>5. CASE j > k
    <3>1. [funcs[j] EXCEPT !.start = @ + 1] \in R
      BY <2>2
    <3>2. m[j] = [funcs[j] EXCEPT !.start = @ + 1]
      BY <1>6, <2>2, <2>5
    <3> QED  BY <3>1, <3>2
  <2> QED  BY <2>1, <2>3, <2>4, <2>5
<1>8. m \in [1 .. Len(funcs) -> R]
  <2>1. m = [j \in DOMAIN m |-> m[j]]
    BY DEF Moved
  <2> HIDE DEF m, R
  <2> QED  BY <1>5, <1>7, <2>1
<1>9. m \in Seq(R) /\ Len(m) = Len(funcs)
  <2> HIDE DEF m, R
  <2> QED  BY <1>1, <1>5, <1>8
<1> QED  BY <1>1, <1>5, <1>6, <1>9

\* Elements at and at + 1 are replaced, a third one is put behind them.
Tripled(z, at, a, b, c) == InsertAt([z EXCEPT ![at] = a, ![at + 1] = b], at + 2, c)

LEMMA InsertPair ==
    ASSUME NEW S, NEW z \in Seq(S), NEW at \in 1 .. Len(z) - 1,
           NEW a \in S, NEW b \in S, NEW c \in S
    PROVE  LET y == Tripled(z, at, a, b, c) IN
           /\ y \in Seq(S) /\ Len(y) = Len(z) + 1
           /\ y[at] = a /\ y[at + 1] = b /\ y[at + 2] = c
           /\ \A h \in 1 .. at - 1 : y[h] = z[h]
           /\ \A h \in at + 2 .. Len(z) : y[h + 1] = z[h]
<1> DEFINE y == Tripled(z, at, a, b, c)
<1>1. at \in 1 .. Len(z) /\ at + 1 \in 1 .. Len(z) /\ at + 2 \in 1 .. Len(z) + 1
  OBVIOUS
<1> DEFINE s == [z EXCEPT ![at] = a]
           t == [s EXCEPT ![at + 1] = b]
<1>2. /\ s \in Seq(S) /\ Len(s) = Len(z) /\ s[at] = a
      /\ \A h \in 1 .. Len(z) : h # at => s[h] = z[h]
  <2>1. at \in DOMAIN z
    BY <1>1
  <2>2. /\ [z EXCEPT ![at] = a] \in Seq(S) /\ Len([z EXCEPT ![at] = a]) = Len(z)
        /\ [z EXCEPT ![at] = a][at] = a
        /\ \A j \in DOMAIN z : j # at => [z EXCEPT ![at] = a][j] = z[j]
    BY <2>1, ExceptFacts
  <2> QED  BY <2>2
<1> HIDE DEF s
<1>3. /\ t \in Seq(S) /\ Len(t) = Len(z) /\ t[at] = a /\ t[at + 1] = b
      /\ \A h \in 1 .. Len(z) : h # at /\ h # at + 1 => t[h] = z[h]
  <2>1. at + 1 \in DOMAIN s /\ at \in DOMAIN s /\ DOMAIN s = 1 .. Len(z)
    BY <1>1, <1>2
  <2> DEFINE h1 == at + 1
  <2>2. h1 \in DOMAIN s /\ at # h1
    BY <2>1
  <2> HIDE DEF h1
  <2>3. /\ [s EXCEPT ![h1] = b] \in Seq(S) /\ Len([s EXCEPT ![h1] = b]) = Len(s)
        /\ [s EXCEPT ![h1] = b][h1] = b
        /\ \A j \in DOMAIN s : j # h1 => [s EXCEPT ![h1] = b][j] = s[j]
    BY <1>2, <2>2, ExceptFacts
  <2>4. t = [s EXCEPT ![h1] = b]
    BY DEF h1
  <2> HIDE DEF t
  <2>5. t \in Seq(S) /\ Len(t) = Len(z) /\ t[h1] = b
    BY <1>2, <2>3, <2>4
  <2>6. t[at] = a
    BY <1>2, <2>1, <2>2, <2>3, <2>4
  <2>7. \A h \in 1 .. Len(z) : h # at /\ h # h1 => t[h] = z[h]
    BY <1>2, <2>1, <2>3, <2>4
  <2> QED  BY <2>5, <2>6, <2>7 DEF h1
<1>4. y = InsertAt(t, at + 2, c)
  BY DEF s, t, Tripled
<1> HIDE DEF t, y
<1>5. /\ y \in Seq(S) /\ Len(y) = Len(z) + 1 /\ y[at + 2] = c
      /\ \A h \in 1 .. at + 1 : y[h] = t[h]
      /\ \A h \in at + 2 .. Len(z) : y[h + 1] = t[h]
  <2> DEFINE i == at + 2
  <2>1. i \in 1 .. Len(t) + 1 /\ i - 1 = at + 1
    BY <1>1, <1>3
  <2> HIDE DEF i
  <2>2. /\ InsertAt(t, i, c) \in Seq(S)
        /\ Len(InsertAt(t, i, c)) = Len(t) + 1
        /\ InsertAt(t, i, c)[i] = c
        /\ \A j \in 1 .. i - 1 : InsertAt(t, i, c)[j] = t[j]
        /\ \A j \in i .. Len(t) : InsertAt(t, i, c)[j + 1] = t[j]
    <3>1. t \in Seq(S) /\ i \in 1 .. Len(t) + 1 /\ c \in S
      BY <1>3, <2>1
    <3> QED  BY ONLY <3>1, InsertFacts
  <2>3. y = InsertAt(t, i, c)
    BY <1>4 DEF i
  <2>4. /\ y \in Seq(S) /\ Len(y) = Len(t) + 1 /\ y[i] = c
        /\ \A j \in 1 .. i - 1 : y[j] = t[j]
        /\ \A j \in i .. Len(t) : y[j + 1] = t[j]
    BY <2>2, <2>3
  <2>5. Len(t) = Len(z)
    BY <1>3
  <2> QED  BY <2>1, <2>4, <2>5 DEF i
<1>6. /\ \A h \in 1 .. at - 1 : y[h] = z[h]
      /\ \A h \in at + 2 .. Len(z) : y[h + 1] = z[h]
      /\ y[at] = a /\ y[at + 1] = b /\ y[at + 2] = c
  <2>1. ASSUME NEW h \in 1 .. at - 1 PROVE y[h] = z[h]
    <3>1. h \in 1 .. at + 1 /\ h \in 1 .. Len(z) /\ h # at /\ h # at + 1
      BY <1>1
    <3> QED  BY <1>3, <1>5, <3>1
  <2>2. ASSUME NEW h \in at + 2 .. Len(z) PROVE y[h + 1] = z[h]
    <3>1. h \in 1 .. Len(z) /\ h # at /\ h # at + 1
      BY <1>1
    <3> QED  BY <1>3, <1>5, <3>1
  <2>3. at \in 1 .. at + 1 /\ at + 1 \in 1 .. at + 1
    BY <1>1
  <2> QED  BY <1>3, <1>5, <2>1, <2>2, <2>3
<1> QED  BY <1>5, <1>6 DEF y

LEMMA BeforeBehind ==
    ASSUME NEW s \in Nat, NEW l \in Nat, NEW q \in 1 .. l,
           NEW st \in Nat, NEW ln \in Nat, NEW w \in Nat \ {0}, w + 1 <= ln, NEW at, at = st + w
    PROVE  /\ s + l <= st => s + q \in 1 .. at - 1
           /\ \A li \in Nat : st + ln <= s /\ s + l <= li => s + q \in at + 2 .. li
  OBVIOUS

\* The place of an entry behind the pair the walk stands at.
LEMMA BehindPair ==
    ASSUME NEW s \in Nat, NEW l \in Nat, NEW n \in Nat, s + l <= n,
           NEW w \in Nat, NEW at, at = s + w, NEW q \in w + 2 .. l
    PROVE  s + q \in at + 2 .. n /\ s + (q + 1) = (s + q) + 1
  OBVIOUS

LEMMA Parts ==
    ASSUME NEW n \in Nat, NEW at \in Nat \ {0}, at + 1 <= n, NEW h \in 1 .. n + 1
    PROVE  \/ h \in 1 .. at - 1 \/ h = at \/ h = at + 1 \/ h = at + 2
           \/ \E g \in at + 2 .. n : h = g + 1
<1>1. CASE h <= at + 2
  BY <1>1
<1>2. CASE h > at + 2
  <2>1. h - 1 \in at + 2 .. n /\ h = (h - 1) + 1
    BY <1>2
  <2> QED  BY <2>1
<1> QED  BY <1>1, <1>2

\* a and b for the instructions w and w + 1 of function k, and c behind them.
Insertion(k, at, a, b, c) ==
    /\ funcs' = Moved(funcs, k, at + 1)
    /\ insts' = Tripled(insts, at, a, b, c)

LEMMA Inserted ==
    ASSUME TypeOK, TablesOK, world' = world,
           NEW k \in DOMAIN funcs, NEW w \in 1 .. funcs[k].len, w + 1 <= funcs[k].len,
           NEW a \in InstRec, NEW b \in InstRec, NEW c \in InstRec,
           a.op \notin ToFunctionOps, b.op \notin ToFunctionOps, c.num \in DOMAIN funcs,
           NEW at, at = funcs[k].start + w, Insertion(k, at, a, b, c)
    PROVE  /\ insts' \in Seq(InstRec) /\ ItemsKept /\ TablesOK'
           /\ At(k, w)' = a /\ At(k, w + 1)' = b /\ At(k, w + 2)' = c /\ Shifted(k, w)
           /\ funcs' \in Seq([item : Items, start : Nat, len : Nat]) /\ DOMAIN funcs' = DOMAIN funcs
           /\ Others(k)
<1>1. /\ funcs' \in Seq([item : Items, start : Nat, len : Nat]) /\ DOMAIN funcs' = DOMAIN funcs
      /\ funcs'[k] = [funcs[k] EXCEPT !.len = @ + 1]
      /\ \A j \in DOMAIN funcs : j < k => funcs'[j] = funcs[j]
      /\ \A j \in DOMAIN funcs : j > k => funcs'[j] = [funcs[j] EXCEPT !.start = @ + 1]
  <2> DEFINE abs == at + 1
  <2>1. funcs[k].start \in Nat /\ w \in Nat
    BY AtFacts
  <2>2. abs = funcs[k].start + w + 1 /\ funcs' = Moved(funcs, k, abs)
    BY <2>1 DEF Insertion
  <2> HIDE DEF abs
  <2> QED  BY <2>2, MovedFacts
<1>2. /\ \A j \in DOMAIN funcs : funcs[j] \in [item : Items, start : Nat, len : Nat]
      /\ DOMAIN funcs = 1 .. Len(funcs) /\ Len(funcs) \in Nat
      /\ insts \in Seq(InstRec)
  <2>1. funcs \in Seq([item : Items, start : Nat, len : Nat]) /\ insts \in Seq(InstRec)
    BY DEF TypeOK
  <2>2. DOMAIN funcs = 1 .. Len(funcs) /\ Len(funcs) \in Nat
    BY <2>1
  <2>3. \A j \in DOMAIN funcs : funcs[j] \in [item : Items, start : Nat, len : Nat]
    BY ONLY <2>1, ElementOf
  <2> QED  BY <2>1, <2>2, <2>3
<1>3. /\ k \in Nat /\ funcs[k].start \in Nat /\ funcs[k].len \in Nat
      /\ w \in Nat \ {0} /\ at \in Nat \ {0} /\ Len(insts) \in Nat
      /\ at = funcs[k].start + w /\ w + 1 <= funcs[k].len
      /\ funcs[k].start + funcs[k].len <= Len(insts)
  <2>1. k \in Nat /\ funcs[k].start \in Nat /\ funcs[k].len \in Nat /\ Len(insts) \in Nat
    BY <1>2
  <2>2. End(k) <= Len(insts)
    BY TableFits
  <2> QED  BY <2>1, <2>2 DEF End
<1>9. /\ insts' \in Seq(InstRec) /\ Len(insts') = Len(insts) + 1
      /\ insts'[at] = a /\ insts'[at + 1] = b /\ insts'[at + 2] = c
      /\ \A h \in 1 .. at - 1 : insts'[h] = insts[h]
      /\ \A h \in at + 2 .. Len(insts) : insts'[h + 1] = insts[h]
  <2>1. at \in 1 .. Len(insts) - 1
    BY ONLY <1>3
  <2>2. insts' = Tripled(insts, at, a, b, c)
    BY DEF Insertion
  <2>3. a \in InstRec /\ b \in InstRec /\ c \in InstRec /\ insts \in Seq(InstRec)
    BY <1>2
  <2>4. LET y == Tripled(insts, at, a, b, c) IN
        /\ y \in Seq(InstRec) /\ Len(y) = Len(insts) + 1
        /\ y[at] = a /\ y[at + 1] = b /\ y[at + 2] = c
        /\ \A h \in 1 .. at - 1 : y[h] = insts[h]
        /\ \A h \in at + 2 .. Len(insts) : y[h + 1] = insts[h]
    BY ONLY <2>1, <2>3, InsertPair
  <2> QED  BY <2>2, <2>4
<1>10. ItemsKept
  <2>1. ASSUME NEW j \in DOMAIN funcs PROVE funcs'[j].item = funcs[j].item
    <3>1. j = k \/ j < k \/ j > k
      <4>1. j \in Nat /\ k \in Nat
        BY <1>2, <1>3
      <4> QED  BY ONLY <4>1
    <3>2. funcs[j] \in [item : Items, start : Nat, len : Nat]
      BY <1>2
    <3>3. CASE j = k
      BY <1>1, <3>2, <3>3
    <3>4. CASE j < k
      BY <1>1, <3>4
    <3>5. CASE j > k
      <4>1. funcs'[j] = [funcs[j] EXCEPT !.start = @ + 1]
        BY <1>1, <3>5
      <4> QED  BY ONLY <3>2, <4>1
    <3> QED  BY <3>1, <3>3, <3>4, <3>5
  <2> QED  BY <1>1, <2>1 DEF ItemsKept
<1>11. funcs'[k].start = funcs[k].start /\ funcs'[k].len = funcs[k].len + 1
  BY <1>1, <1>2
<1>12. \A q : At(k, q)' = insts'[funcs[k].start + q]
  BY <1>11 DEF At
<1>13. At(k, w)' = a /\ At(k, w + 1)' = b /\ At(k, w + 2)' = c
  <2>1. funcs[k].start + (w + 1) = at + 1 /\ funcs[k].start + (w + 2) = at + 2
    <3>1. funcs[k].start \in Nat /\ w \in Nat /\ at = funcs[k].start + w
      BY <1>3
    <3> QED  BY ONLY <3>1
  <2> QED  BY <1>9, <1>12, <2>1
<1>14. Shifted(k, w)
  <2>1. ASSUME NEW q \in 1 .. w - 1 PROVE At(k, q)' = At(k, q)
    <3>1. funcs[k].start + q \in 1 .. at - 1
      <4>1. q \in 1 .. w - 1
        OBVIOUS
      <4> QED  BY ONLY <1>3, <4>1
    <3> QED  BY <1>9, <1>12, <3>1 DEF At
  <2>2. ASSUME NEW q \in w + 2 .. funcs[k].len PROVE At(k, q + 1)' = At(k, q)
    <3>1. /\ funcs[k].start + q \in at + 2 .. Len(insts)
          /\ funcs[k].start + (q + 1) = (funcs[k].start + q) + 1
      <4>1. /\ funcs[k].start \in Nat /\ funcs[k].len \in Nat /\ Len(insts) \in Nat
            /\ funcs[k].start + funcs[k].len <= Len(insts)
            /\ w \in Nat /\ at = funcs[k].start + w /\ q \in w + 2 .. funcs[k].len
        BY <1>3
      <4> QED  BY ONLY <4>1, BehindPair
    <3> QED  BY <1>9, <1>12, <3>1 DEF At
  <2> QED  BY <1>11, <2>1, <2>2 DEF Shifted
<1>15. ASSUME NEW j \in DOMAIN funcs, j # k PROVE Keeps(j)
  <2>1. /\ funcs[j].start \in Nat /\ funcs[j].len \in Nat /\ j \in Nat
        /\ funcs[j].start + funcs[j].len <= Len(insts)
    <3>1. funcs[j].start \in Nat /\ funcs[j].len \in Nat /\ j \in Nat
      BY <1>2
    <3>2. End(j) <= Len(insts)
      BY TableFits
    <3> QED  BY <3>1, <3>2 DEF End
  <2>2. CASE j < k
    <3>1. funcs'[j] = funcs[j]
      BY <1>1, <2>2
    <3>2. funcs[j].start + funcs[j].len <= funcs[k].start
      <4>1. j \in 1 .. k - 1
        BY <1>2, <1>3, <2>1, <2>2
      <4> QED  BY <4>1 DEF TablesOK, End
    <3>3. ASSUME NEW q \in 1 .. funcs[j].len PROVE At(j, q)' = At(j, q)
      <4>1. funcs[j].start + q \in 1 .. at - 1
        <5>1. q \in 1 .. funcs[j].len
          OBVIOUS
        <5> QED  BY <1>3, <2>1, <3>2, <5>1, BeforeBehind
      <4> QED  BY <1>9, <3>1, <4>1 DEF At
    <3> QED  BY <3>1, <3>3 DEF Keeps
  <2>3. CASE j > k
    <3>1. funcs'[j].len = funcs[j].len /\ funcs'[j].start = funcs[j].start + 1
      <4>1. funcs'[j] = [funcs[j] EXCEPT !.start = @ + 1]
        BY <1>1, <2>3
      <4> QED  BY <1>2, <4>1
    <3>2. funcs[k].start + funcs[k].len <= funcs[j].start
      <4>1. k \in 1 .. j - 1
        BY <1>2, <1>3, <2>1, <2>3
      <4> QED  BY <4>1 DEF TablesOK, End
    <3>3. ASSUME NEW q \in 1 .. funcs[j].len PROVE At(j, q)' = At(j, q)
      <4>1. funcs[j].start + q \in at + 2 .. Len(insts)
        <5>1. q \in 1 .. funcs[j].len
          OBVIOUS
        <5> QED  BY <1>3, <2>1, <3>2, <5>1, BeforeBehind
      <4>2. (funcs[j].start + 1) + q = (funcs[j].start + q) + 1
        BY <2>1
      <4>3. At(j, q)' = insts'[(funcs[j].start + 1) + q]
        BY <3>1 DEF At
      <4> QED  BY <1>9, <4>1, <4>2, <4>3 DEF At
    <3> QED  BY <3>1, <3>3 DEF Keeps
  <2> QED  BY <1>3, <1>15, <2>1, <2>2, <2>3
<1>16. \A j \in DOMAIN funcs : /\ funcs'[j].start \in Nat /\ funcs'[j].len \in Nat
                               /\ funcs[j].start <= funcs'[j].start
                               /\ funcs'[j].start + funcs'[j].len <= End(j) + 1
                               /\ funcs'[j].len >= funcs[j].len
                               /\ j < k => funcs'[j].start + funcs'[j].len = End(j)
                               /\ j > k => funcs'[j].start = funcs[j].start + 1
  <2> TAKE j \in DOMAIN funcs
  <2>1. funcs[j].start \in Nat /\ funcs[j].len \in Nat /\ j \in Nat
    BY <1>2
  <2>2. CASE j < k
    <3>1. funcs'[j] = funcs[j] /\ ~(j > k)
      BY <1>1, <1>3, <2>1, <2>2
    <3>2. End(j) = funcs[j].start + funcs[j].len
      BY DEF End
    <3> QED  BY ONLY <2>1, <2>2, <3>1, <3>2
  <2>3. CASE j = k
    <3>1. funcs'[j].start = funcs[j].start /\ funcs'[j].len = funcs[j].len + 1
      BY <1>11, <2>3
    <3>2. ~(j < k) /\ ~(j > k)
      BY ONLY <2>1, <2>3
    <3>3. End(j) = funcs[j].start + funcs[j].len
      BY DEF End
    <3> QED  BY ONLY <2>1, <3>1, <3>2, <3>3
  <2>4. CASE j > k
    <3>1. funcs'[j].len = funcs[j].len /\ funcs'[j].start = funcs[j].start + 1
      <4>1. funcs'[j] = [funcs[j] EXCEPT !.start = @ + 1]
        BY <1>1, <2>4
      <4>2. funcs[j] \in [item : Items, start : Nat, len : Nat]
        BY <1>2
      <4> QED  BY ONLY <4>1, <4>2
    <3>2. ~(j < k)
      BY <1>3, <2>1, <2>4
    <3>3. End(j) = funcs[j].start + funcs[j].len
      BY DEF End
    <3> QED  BY ONLY <2>1, <3>1, <3>2, <3>3
  <2>5. j < k \/ j = k \/ j > k
    BY <1>3, <2>1
  <2> QED  BY <2>2, <2>3, <2>4, <2>5
<1>17. TablesOK'
  <2>1. ASSUME NEW j \in DOMAIN funcs
        PROVE  funcs'[j].len >= Len(CodeOf(j)') /\ End(j)' <= Len(insts')
    <3>1. CodeOf(j)' = CodeOf(j)
      BY <1>10, CodeKept
    <3>2. funcs[j].len >= Len(CodeOf(j)) /\ End(j) <= Len(insts)
      BY TableFits
    <3>3. End(j)' = funcs'[j].start + funcs'[j].len
      BY DEF End
    <3>4. funcs[j].item \in Items /\ funcs[j].len \in Nat /\ End(j) \in Nat
      <4>1. funcs[j].item \in Items /\ funcs[j].start \in Nat /\ funcs[j].len \in Nat
        BY <1>2
      <4> QED  BY ONLY <4>1 DEF End
    <3>5. Len(CodeOf(j)) \in Nat
      BY <3>4, CodeFacts DEF CodeOf, TypeOK
    <3>6. funcs'[j].len >= Len(CodeOf(j))
      <4>1. funcs'[j].len \in Nat /\ funcs'[j].len >= funcs[j].len
        BY <1>16
      <4> QED  BY <3>2, <3>4, <3>5, <4>1
    <3>7. End(j)' <= Len(insts')
      <4>1. End(j)' <= End(j) + 1 /\ End(j)' \in Nat
        BY <1>16, <3>3
      <4> QED  BY <1>3, <1>9, <3>2, <3>4, <4>1
    <3> QED  BY <3>1, <3>6, <3>7
  <2>2. ASSUME NEW j \in DOMAIN funcs, NEW h \in 1 .. j - 1
        PROVE  End(h)' <= funcs'[j].start
    <3>1. h \in DOMAIN funcs /\ h \in Nat /\ j \in Nat /\ h < j
      <4>1. /\ DOMAIN funcs = 1 .. Len(funcs) /\ Len(funcs) \in Nat
            /\ j \in DOMAIN funcs /\ h \in 1 .. j - 1
        BY <1>2
      <4> QED  BY ONLY <4>1
    <3>2. End(h) <= funcs[j].start
      BY DEF TablesOK
    <3>3. End(h)' = funcs'[h].start + funcs'[h].len
      BY DEF End
    <3>4. funcs[j].start \in Nat /\ End(h) \in Nat
      <4>1. funcs[j].start \in Nat /\ funcs[h].start \in Nat /\ funcs[h].len \in Nat
        BY <1>2, <3>1
      <4> QED  BY ONLY <4>1 DEF End
    <3>5. CASE h < k
      <4>1. End(h)' = End(h) /\ funcs[j].start <= funcs'[j].start /\ funcs'[j].start \in Nat
        BY <1>16, <3>1, <3>3, <3>5
      <4> QED  BY <3>2, <3>4, <4>1
    <3>6. CASE ~(h < k)
      <4>1. j > k
        BY <1>3, <3>1, <3>6
      <4>2. /\ End(h)' <= End(h) + 1 /\ End(h)' \in Nat
            /\ funcs'[j].start = funcs[j].start + 1
        BY <1>16, <3>1, <3>3, <4>1
      <4> QED  BY <3>2, <3>4, <4>2
    <3> QED  BY <3>5, <3>6
  <2>3. ASSUME NEW h \in DOMAIN insts', insts'[h].op \in ToFunctionOps
        PROVE  insts'[h].num \in DOMAIN funcs
    <3>1. /\ Len(insts) \in Nat /\ at \in Nat \ {0} /\ at + 1 <= Len(insts)
          /\ h \in 1 .. Len(insts) + 1
      <4>1. h \in 1 .. Len(insts')
        BY <1>9
      <4>2. at + 1 <= Len(insts)
        BY ONLY <1>3
      <4> QED  BY <1>3, <1>9, <4>1, <4>2
    <3>2. \/ h \in 1 .. at - 1 \/ h = at \/ h = at + 1 \/ h = at + 2
          \/ \E g \in at + 2 .. Len(insts) : h = g + 1
      BY ONLY <3>1, Parts
    <3>3. \A g \in 1 .. Len(insts) : insts[g].op \in ToFunctionOps => insts[g].num \in DOMAIN funcs
      BY <1>2 DEF TablesOK
    <3>4. CASE h \in 1 .. at - 1
      <4>1. h \in 1 .. Len(insts)
        BY <3>1, <3>4
      <4>2. insts'[h] = insts[h]
        BY <1>9, <3>4
      <4> QED  BY <2>3, <3>3, <4>1, <4>2
    <3>5. CASE h = at \/ h = at + 1 \/ h = at + 2
      BY <1>9, <2>3, <3>5
    <3>6. CASE \E g \in at + 2 .. Len(insts) : h = g + 1
      <4>1. PICK g \in at + 2 .. Len(insts) : h = g + 1
        BY <3>6
      <4>2. g \in 1 .. Len(insts)
        BY <3>1
      <4>3. insts'[h] = insts[g]
        BY <1>9, <4>1
      <4> QED  BY <2>3, <3>3, <4>2, <4>3
    <3> QED  BY <3>2, <3>4, <3>5, <3>6
  <2>4. ToFunctionOps' = ToFunctionOps
    BY DEF ToFunctionOps
  <2> QED  BY <1>1, <2>1, <2>2, <2>3, <2>4 DEF TablesOK
<1>18. Others(k)
  <2>1. ASSUME NEW j \in DOMAIN funcs, j <= k PROVE funcs'[j].start = funcs[j].start
    <3>1. j = k \/ j < k
      BY <1>2, <1>3, <2>1
    <3> QED  BY <1>1, <1>11, <3>1
  <2> QED  BY <1>15, <2>1 DEF Others
<1> QED  BY <1>1, <1>9, <1>10, <1>13, <1>14, <1>17, <1>18

----------------------------------------------------------------------------
(***************************************************************************)
(* Where the places of a function are after a step.                        *)
(***************************************************************************)
Jumps == {"JUMP", "JUMP_IF_FALSE"}

LEMMA ShapeIntro ==
    ASSUME NEW k, NEW n, funcs'[k].len = n,
           \A q \in 1 .. n : At(k, q).op' \in Jumps => At(k, q).num' < n,
           \A q \in 1 .. n : \/ (At(k, q).of)' = <<k, q>>
                             \/ \E r \in 1 .. q - 1 : (At(k, r).of)' = (At(k, r + 1).of)'
    PROVE  Shape(k)'
  BY DEF Shape, Jumps

LEMMA ShapeRewritten ==
    ASSUME TypeOK, TablesOK, NEW k \in DOMAIN funcs, NEW w \in 1 .. funcs[k].len, Shape(k),
           funcs'[k].len = funcs[k].len,
           \A q \in 1 .. funcs[k].len : q # w => At(k, q)' = At(k, q),
           (At(k, w).of)' = At(k, w).of, At(k, w).op' \notin Jumps
    PROVE  Shape(k)'
<1> DEFINE n == funcs[k].len
<1>1. n \in Nat
  BY AtFacts
<1>2. \A q \in 1 .. n : (At(k, q).of)' = At(k, q).of
  OBVIOUS
<1>3. \A q \in 1 .. n : At(k, q).op' \in Jumps => At(k, q).num' < n
  BY DEF Shape, Jumps
<1>4. \A q \in 1 .. n : \/ (At(k, q).of)' = <<k, q>>
                        \/ \E r \in 1 .. q - 1 : (At(k, r).of)' = (At(k, r + 1).of)'
  <2> TAKE q \in 1 .. n
  <2>1. CASE At(k, q).of = <<k, q>>
    BY <1>2, <2>1
  <2>2. CASE At(k, q).of # <<k, q>>
    <3>1. PICK r \in 1 .. q - 1 : At(k, r).of = At(k, r + 1).of
      BY <2>2 DEF Shape
    <3>2. r \in 1 .. n /\ r + 1 \in 1 .. n
      BY <1>1
    <3>3. (At(k, r).of)' = (At(k, r + 1).of)'
      BY <1>2, <3>1, <3>2
    <3> QED  BY <3>3
  <2> QED  BY <2>1, <2>2
<1> HIDE DEF n
<1>5. funcs'[k].len = n
  BY DEF n
<1> QED  BY <1>3, <1>4, <1>5, ShapeIntro

LEMMA ShapeInserted ==
    ASSUME TypeOK, TablesOK, NEW k \in DOMAIN funcs, NEW w \in 1 .. funcs[k].len,
           w + 1 <= funcs[k].len, Shape(k), Shifted(k, w),
           (At(k, w).of)' = At(k, w).of, (At(k, w + 1).of)' = At(k, w + 1).of,
           (At(k, w + 2).of)' = At(k, w + 1).of,
           At(k, w).op' \notin Jumps, At(k, w + 1).op' \notin Jumps, At(k, w + 2).op' \notin Jumps
    PROVE  Shape(k)'
<1>1. PICK n, m : n = funcs[k].len /\ m = funcs[k].len + 1
  OBVIOUS
<1>2. n \in Nat /\ m = n + 1 /\ w \in Nat \ {0} /\ w + 1 <= n /\ funcs'[k].len = m
  BY <1>1, AtFacts DEF Shifted
<1>3. /\ \A q \in 1 .. w - 1 : At(k, q)' = At(k, q)
      /\ \A q \in w + 2 .. n : At(k, q + 1)' = At(k, q)
  BY <1>1 DEF Shifted
<1>4. \A q \in 1 .. n : At(k, q).op \in Jumps => At(k, q).num < n /\ At(k, q).num \in Nat
  <2> TAKE q \in 1 .. n
  <2>1. At(k, q) \in InstRec
    BY <1>1, AtFacts
  <2> QED  BY <1>1, <2>1 DEF Shape, Jumps, InstRec
<1>5. \A q \in 1 .. m : At(k, q).op' \in Jumps => At(k, q).num' < m
  <2> TAKE q \in 1 .. m
  <2>1. \/ q \in 1 .. w - 1 \/ q = w \/ q = w + 1 \/ q = w + 2
        \/ \E r \in w + 2 .. n : q = r + 1
    BY <1>2, Parts
  <2>2. CASE q \in 1 .. w - 1
    <3>1. q \in 1 .. n /\ At(k, q)' = At(k, q)
      BY <1>2, <1>3, <2>2
    <3> QED  BY <1>2, <1>4, <3>1
  <2>3. CASE q = w \/ q = w + 1 \/ q = w + 2
    BY <2>3
  <2>4. CASE \E r \in w + 2 .. n : q = r + 1
    <3>1. PICK r \in w + 2 .. n : q = r + 1
      BY <2>4
    <3>2. r \in 1 .. n /\ At(k, q)' = At(k, r)
      BY <1>2, <1>3, <3>1
    <3> QED  BY <1>2, <1>4, <3>2
  <2> QED  BY <2>1, <2>2, <2>3, <2>4
<1>6. \A q \in 1 .. w + 1 : (At(k, q).of)' = At(k, q).of
  <2> TAKE q \in 1 .. w + 1
  <2>1. q \in 1 .. w - 1 \/ q = w \/ q = w + 1
    BY <1>2
  <2> QED  BY <1>3, <2>1
<1>7. \A q \in 1 .. m : \/ (At(k, q).of)' = <<k, q>>
                        \/ \E r \in 1 .. q - 1 : (At(k, r).of)' = (At(k, r + 1).of)'
  <2> TAKE q \in 1 .. m
  <2>1. CASE q <= w + 1
    <3>1. q \in 1 .. n /\ q \in 1 .. w + 1
      BY <1>2, <2>1
    <3>2. CASE At(k, q).of = <<k, q>>
      BY <1>6, <3>1, <3>2
    <3>3. CASE At(k, q).of # <<k, q>>
      <4>1. PICK r \in 1 .. q - 1 : At(k, r).of = At(k, r + 1).of
        BY <1>1, <3>1, <3>3 DEF Shape
      <4>2. r \in 1 .. w + 1 /\ r + 1 \in 1 .. w + 1
        BY <1>2, <3>1
      <4>3. (At(k, r).of)' = (At(k, r + 1).of)'
        BY <1>6, <4>1, <4>2
      <4> QED  BY <4>3
    <3> QED  BY <3>2, <3>3
  <2>2. CASE q > w + 1
    <3>1. PICK r : r = w + 1
      OBVIOUS
    <3>2. r + 1 = w + 2 /\ r \in 1 .. q - 1
      BY <1>2, <2>2, <3>1
    <3>3. (At(k, r).of)' = (At(k, r + 1).of)'
      BY <3>1, <3>2
    <3> QED  BY <3>2, <3>3
  <2> QED  BY <1>2, <2>1, <2>2
<1> QED  BY <1>2, <1>5, <1>7, ShapeIntro

\* A function that was just appended.
LEMMA NewFunction ==
    ASSUME TypeOK, NEW x \in Items, world' = world, NEW new, NEW n, n = Len(world.code[x]),
           funcs'[new].item = x, funcs'[new].len = n,
           \A q \in 1 .. n : At(new, q)' = From(world.code[x][q], <<new, q>>)
    PROVE  Walk(new, 1)' /\ Shape(new)'
<1>1. /\ world.code[x] \in Seq(Ins) /\ n \in Nat \ {0}
      /\ \A p \in 1 .. n : world.code[x][p].op \in Jumps => world.code[x][p].num < n
  BY CodeFacts DEF TypeOK, Jumps
<1>2. \A q \in 1 .. n : /\ (At(new, q).of)' = <<new, q>>
                        /\ At(new, q).op' = world.code[x][q].op
                        /\ At(new, q).num' = world.code[x][q].num
  BY DEF From
<1>3. Shape(new)'
  <2>1. \A q \in 1 .. n : At(new, q).op' \in Jumps => At(new, q).num' < n
    BY <1>1, <1>2
  <2> QED  BY <1>2, <2>1, ShapeIntro
<1>4. Walk(new, 1)'
  <2>1. CodeOf(new)' = world.code[x] /\ Off(new)' = 0
    <3>1. CodeOf(new)' = world.code[x]
      BY DEF CodeOf
    <3>2. Off(new)' = n - n
      BY <3>1 DEF Off
    <3> QED  BY <1>1, <3>1, <3>2
  <2>2. \A q \in 1 .. n : /\ q - 0 \in DOMAIN world.code[x]
                          /\ At(new, q)' = From(world.code[x][q - 0], <<new, q - 0>>)
    BY <1>1
  <2>3. (At(new, 1).of)' = <<new, 1>>
    BY <1>1, <1>2
  <2>4. ~Rewritten(x, 1 - 0)'
    <3>1. 1 - 0 - 1 \notin DOMAIN world'.code[x]
      BY <1>1
    <3> QED  BY <3>1 DEF Rewritten, FieldOfImport
  <2>5. \A q \in 1 .. 1 - 1 : InOrder(x, new, q)'
    OBVIOUS
  <2> QED  BY <2>1, <2>2, <2>3, <2>4, <2>5, WalkIntro
<1> QED  BY <1>3, <1>4

----------------------------------------------------------------------------
(***************************************************************************)
(* The frames.                                                             *)
(***************************************************************************)
LEMMA FramesFacts ==
    ASSUME TypeOK
    PROVE  /\ frames \in Seq([fn : Nat, at : Nat]) /\ Len(frames) \in Nat
           /\ DOMAIN frames = 1 .. Len(frames)
           /\ \A n \in DOMAIN frames : frames[n] \in [fn : Nat, at : Nat]
<1>1. frames \in Seq([fn : Nat, at : Nat])
  BY DEF TypeOK
<1>2. \A n \in DOMAIN frames : frames[n] \in [fn : Nat, at : Nat]
  BY ONLY <1>1, ElementOf
<1> QED  BY <1>1, <1>2

LEMMA TopFacts ==
    ASSUME TypeOK, FramesOK, frames # << >>, NEW k, k = Top.fn, NEW w, w = Rel(Top)
    PROVE  /\ Len(frames) \in DOMAIN frames /\ Top = frames[Len(frames)] /\ Len(frames) \in Nat \ {0}
           /\ k \in DOMAIN funcs /\ w \in 1 .. funcs[k].len + 1
           /\ \A n \in 1 .. Len(frames) - 1 : frames[n].fn # k /\ n \in DOMAIN frames
<1>1. /\ Len(frames) \in DOMAIN frames /\ Top = frames[Len(frames)] /\ Len(frames) \in Nat \ {0}
  BY FramesFacts DEF Top, Last
<1>2. k \in DOMAIN funcs /\ w \in 1 .. funcs[k].len + 1
  BY <1>1 DEF FramesOK
<1>3. ASSUME NEW n \in 1 .. Len(frames) - 1
      PROVE  frames[n].fn # k /\ n \in DOMAIN frames
  <2>1. frames[n].fn < frames[Len(frames)].fn
    BY <1>1 DEF FramesOK
  <2>2. n \in DOMAIN frames
    BY <1>1, FramesFacts
  <2>3. frames[n] \in [fn : Nat, at : Nat]
    BY <2>2, FramesFacts
  <2> QED  BY <1>1, <2>1, <2>2, <2>3
<1> QED  BY <1>1, <1>2, <1>3

\* The walk of a frame is where it was, when its function is.
LEMMA RelKept ==
    ASSUME ItemsKept, NEW f, f.fn \in DOMAIN funcs, NEW k, k = f.fn, Keeps(k),
           funcs'[k].start = funcs[k].start
    PROVE  /\ Rel(f)' = Rel(f) /\ Source(f)' = Source(f)
           /\ StandsOn(f)' <=> StandsOn(f)
           /\ TargetAt(funcs[k].item, Source(f))' = TargetAt(funcs[k].item, Source(f))
<1>1. funcs'[k].len = funcs[k].len /\ funcs'[k].item = funcs[k].item
  BY DEF Keeps, ItemsKept
<1>2. Rel(f)' = Rel(f)
  BY DEF Rel
<1>3. Source(f)' = Source(f)
  <2>1. Off(k)' = Off(k)
    BY <1>1, CodeKept
  <2> QED  BY <1>2, <2>1 DEF Source
<1>4. PICK x, p : x = funcs[k].item /\ p = Source(f)
  OBVIOUS
<1>5. /\ RefersAt(x, p)' <=> RefersAt(x, p)
      /\ TargetAt(x, p)' = TargetAt(x, p)
  BY WorldSame DEF ItemsKept
<1>6. StandsOn(f)' <=> StandsOn(f)
  BY <1>1, <1>2, <1>3, <1>4, <1>5 DEF StandsOn
<1>7. TargetAt(funcs[k].item, Source(f))' = TargetAt(funcs[k].item, Source(f))
  BY <1>1, <1>3, <1>4, <1>5
<1> QED  BY <1>2, <1>3, <1>6, <1>7

LEMMA AdvanceFacts ==
    ASSUME TypeOK, frames # << >>, NEW n \in Nat, Advance(n)
    PROVE  /\ frames' \in Seq([fn : Nat, at : Nat]) /\ Len(frames') = Len(frames)
           /\ DOMAIN frames' = DOMAIN frames
           /\ \A m \in 1 .. Len(frames) - 1 : frames'[m] = frames[m]
           /\ frames'[Len(frames)] = [fn |-> Top.fn, at |-> Top.at + n]
           /\ \A j : Finishing(j)' <=> Finishing(j)
<1> DEFINE S == [fn : Nat, at : Nat]
           i == Len(frames)
           e == [frames[i] EXCEPT !.at = @ + n]
<1>1. /\ frames \in Seq(S) /\ i \in Nat \ {0} /\ DOMAIN frames = 1 .. i /\ i \in DOMAIN frames
      /\ frames[i] \in S /\ Top = frames[i]
  BY FramesFacts DEF Top, Last
<1>2. e \in S /\ e = [fn |-> Top.fn, at |-> Top.at + n]
  BY <1>1
<1>3. frames' = [frames EXCEPT ![i] = e]
  BY DEF Advance
<1> HIDE DEF S, i, e
<1>4. /\ frames' \in Seq(S) /\ Len(frames') = i /\ frames'[i] = e
      /\ \A m \in DOMAIN frames : m # i => frames'[m] = frames[m]
  <2>1. /\ [frames EXCEPT ![i] = e] \in Seq(S)
        /\ Len([frames EXCEPT ![i] = e]) = Len(frames)
        /\ [frames EXCEPT ![i] = e][i] = e
        /\ \A j \in DOMAIN frames : j # i => [frames EXCEPT ![i] = e][j] = frames[j]
    BY <1>1, <1>2, ExceptFacts
  <2> QED  BY <1>3, <2>1 DEF i
<1>5. DOMAIN frames' = 1 .. i
  BY <1>1, <1>3
<1>6. \A m \in 1 .. i - 1 : frames'[m] = frames[m]
  <2> TAKE m \in 1 .. i - 1
  <2>1. m \in 1 .. i /\ m # i
    BY <1>1
  <2> QED  BY <1>1, <1>4, <2>1
<1>7. \A m \in DOMAIN frames : frames'[m].fn = frames[m].fn
  <2> TAKE m \in DOMAIN frames
  <2>1. CASE m = i
    BY <1>1, <1>2, <1>4, <2>1
  <2>2. CASE m # i
    BY <1>4, <2>2
  <2> QED  BY <2>1, <2>2
<1>8. \A j : Finishing(j)' <=> Finishing(j)
  BY <1>1, <1>5, <1>7 DEF Finishing
<1> QED  BY <1>1, <1>2, <1>4, <1>5, <1>6, <1>8 DEF S, i

\* The walk is at the end: its function is whole.
LEMMA WholeFromWalk ==
    ASSUME TypeOK, TablesOK, NEW k \in DOMAIN funcs, NEW w, w = funcs[k].len + 1, Walk(k, w),
           NEW x, x = funcs[k].item
    PROVE  Whole(x, k)
<1>1. funcs[k].len \in Nat /\ w - 1 = funcs[k].len
  BY AtFacts
<1> QED  BY <1>1 DEF Walk, Whole

LEMMA MoveOn ==
    ASSUME NEW a \in Nat, NEW b \in Nat, NEW c \in Nat
    PROVE  (a + c) - b = (a - b) + c
  OBVIOUS

LEMMA EndOrBefore ==
    ASSUME NEW b \in Nat, NEW a \in 1 .. b
    PROVE  a = b \/ a \in 1 .. b - 1
  OBVIOUS

\* A walk that goes on by n instructions keeps the invariant, when it has what is
\* meant there.
LEMMA Advanced ==
    ASSUME IInv, ItemsKept, DOMAIN funcs' = DOMAIN funcs, frames # << >>,
           NEW k, k = Top.fn, NEW w, w = Rel(Top), NEW n \in Nat \ {0}, Advance(n),
           Others(k), w + n <= funcs'[k].len + 1, Walk(k, w + n)', Shape(k)',
           insts' \in Seq(InstRec), funcs' \in Seq([item : Items, start : Nat, len : Nat]),
           TablesOK', mirOf' = mirOf, status' = "lowering"
    PROVE  IInv'
<1>0. /\ TypeOK /\ TablesOK /\ FramesOK /\ Walks /\ Waits /\ MapOK /\ Shapes
      /\ world' = world /\ Items' = Items
  BY WorldSame DEF IInv, ItemsKept
<1>1. PICK m : m = Len(frames)
  OBVIOUS
<1>2. /\ m \in DOMAIN frames /\ Top = frames[m] /\ m \in Nat \ {0} /\ DOMAIN frames = 1 .. m
      /\ k \in DOMAIN funcs /\ w \in 1 .. funcs[k].len + 1
      /\ \A i \in 1 .. m - 1 : frames[i].fn # k /\ i \in DOMAIN frames
  BY <1>0, <1>1, TopFacts, FramesFacts
<1>3. /\ frames' \in Seq([fn : Nat, at : Nat]) /\ Len(frames') = m
      /\ DOMAIN frames' = DOMAIN frames
      /\ \A i \in 1 .. m - 1 : frames'[i] = frames[i]
      /\ frames'[m] = [fn |-> k, at |-> Top.at + n]
      /\ \A j : Finishing(j)' <=> Finishing(j)
  <2>1. n \in Nat
    OBVIOUS
  <2> QED  BY <1>0, <1>1, <2>1, AdvanceFacts
<1>4. /\ funcs[k].start \in Nat /\ funcs'[k].start = funcs[k].start
      /\ frames[m] \in [fn : Nat, at : Nat] /\ DOMAIN funcs = 1 .. Len(funcs) /\ Len(funcs) \in Nat
  <2>1. frames[m] \in [fn : Nat, at : Nat]
    BY <1>0, <1>2, FramesFacts
  <2>2. DOMAIN funcs = 1 .. Len(funcs) /\ Len(funcs) \in Nat
    BY <1>0 DEF TypeOK
  <2>3. funcs[k].start \in Nat
    BY <1>0, <1>2, AtFacts
  <2>4. k <= k
    BY <1>2, <2>2
  <2> QED  BY <1>2, <2>1, <2>2, <2>3, <2>4 DEF Others
<1>5. Rel(frames[m])' = w + n
  <2>1. Rel(frames[m])' = (Top.at + n) - funcs[k].start
    <3>1. frames'[m].fn = k /\ frames'[m].at = Top.at + n
      BY <1>3
    <3>2. Rel(frames[m])' = frames'[m].at - funcs'[frames'[m].fn].start
      BY DEF Rel
    <3> QED  BY <1>4, <3>1, <3>2
  <2>2. Top.at \in Nat /\ w = Top.at - funcs[k].start
    BY <1>2, <1>4 DEF Rel
  <2>3. (Top.at + n) - funcs[k].start = (Top.at - funcs[k].start) + n
    <3>1. Top.at \in Nat /\ funcs[k].start \in Nat /\ n \in Nat
      BY <1>4, <2>2
    <3> QED  BY ONLY <3>1, MoveOn
  <2>4. (Top.at + n) - funcs[k].start = w + n
    BY ONLY <2>2, <2>3
  <2> QED  BY <2>1, <2>4
<1>6. ASSUME NEW i \in 1 .. m - 1
      PROVE  /\ frames'[i] = frames[i] /\ i \in DOMAIN frames /\ frames[i].fn # k
             /\ frames[i].fn \in DOMAIN funcs /\ Keeps(frames[i].fn)
             /\ funcs'[frames[i].fn].start = funcs[frames[i].fn].start
  <2>1. /\ frames'[i] = frames[i] /\ i \in DOMAIN frames /\ frames[i].fn # k
        /\ frames[i].fn \in DOMAIN funcs
    BY <1>0, <1>2, <1>3 DEF FramesOK
  <2>2. frames[i].fn < k
    BY <1>0, <1>2 DEF FramesOK
  <2>3. frames[i].fn <= k
    <3>1. frames[i].fn \in Nat /\ k \in Nat
      <4>1. frames[i].fn \in DOMAIN funcs /\ k \in DOMAIN funcs
        BY <1>2, <2>1
      <4>2. DOMAIN funcs = 1 .. Len(funcs) /\ Len(funcs) \in Nat
        BY <1>4
      <4> QED  BY ONLY <4>1, <4>2
    <3> QED  BY ONLY <2>2, <3>1
  <2> QED  BY <2>1, <2>3 DEF Others
<1>7. TypeOK'
  BY <1>0, <1>3 DEF TypeOK
<1>8. FramesOK'
  <2>1. ASSUME NEW i \in DOMAIN frames
        PROVE  frames'[i].fn \in DOMAIN funcs /\ Rel(frames[i])' \in 1 .. funcs'[frames'[i].fn].len + 1
    <3>1. CASE i = m
      <4>1. funcs'[k].len \in Nat /\ w + n \in Nat \ {0}
        <5>1. funcs'[k] \in [item : Items, start : Nat, len : Nat]
          BY <1>2, ElementOf
        <5>2. w \in Nat \ {0}
          BY <1>2
        <5>3. n \in Nat
          OBVIOUS
        <5> QED  BY ONLY <5>1, <5>2, <5>3
      <4>2. w + n \in 1 .. funcs'[k].len + 1
        BY <4>1
      <4>3. frames'[i].fn = k /\ k \in DOMAIN funcs
        BY <1>2, <1>3, <3>1
      <4>4. Rel(frames[i])' = w + n
        BY <1>5, <3>1
      <4> QED  BY ONLY <4>2, <4>3, <4>4
    <3>2. CASE i # m
      <4>1. i \in 1 .. m - 1
        BY <1>2, <3>2
      <4>2. PICK f, j : f = frames[i] /\ j = f.fn
        OBVIOUS
      <4>3. frames'[i] = f /\ j \in DOMAIN funcs /\ Keeps(j) /\ funcs'[j].start = funcs[j].start
        BY <1>6, <4>1, <4>2
      <4>4. Rel(f)' = Rel(f) /\ funcs'[j].len = funcs[j].len
        BY <4>2, <4>3, RelKept DEF Keeps
      <4>5. Rel(f) \in 1 .. funcs[j].len + 1
        BY <1>0, <4>2 DEF FramesOK
      <4>6. Rel(frames[i])' = Rel(f)
        BY <4>3, <4>4 DEF Rel
      <4> QED  BY <4>2, <4>3, <4>4, <4>5, <4>6
    <3> QED  BY <3>1, <3>2
  <2>2. \A i \in DOMAIN frames : frames'[i].fn = frames[i].fn
    <3> TAKE i \in DOMAIN frames
    <3>1. i = m \/ i \in 1 .. m - 1
      <4>1. m \in Nat /\ i \in 1 .. m
        BY <1>2
      <4> QED  BY ONLY <4>1, EndOrBefore
    <3>2. CASE i = m
      <4>1. frames'[m].fn = k
        BY <1>3
      <4> QED  BY <1>2, <3>2, <4>1
    <3>3. CASE i \in 1 .. m - 1
      BY <1>3, <3>3
    <3> QED  BY <3>1, <3>2, <3>3
  <2>3. \A i \in DOMAIN frames : \A j \in 1 .. i - 1 : frames'[j].fn < frames'[i].fn
    <3> SUFFICES ASSUME NEW i \in DOMAIN frames, NEW j \in 1 .. i - 1
                 PROVE  frames'[j].fn < frames'[i].fn
      OBVIOUS
    <3>1. j \in DOMAIN frames
      BY <1>2
    <3>2. frames[j].fn < frames[i].fn
      BY <1>0 DEF FramesOK
    <3> QED  BY <2>2, <3>1, <3>2
  <2> QED  BY <1>3, <2>1, <2>3 DEF FramesOK
<1>9. Walks'
  <2>1. ASSUME NEW i \in DOMAIN frames
        PROVE  Walk(frames[i].fn, Rel(frames[i]))'
    <3>1. CASE i = m
      BY <1>3, <1>5, <3>1
    <3>2. CASE i # m
      <4>1. i \in 1 .. m - 1
        BY <1>2, <3>2
      <4>2. PICK f, j, v : f = frames[i] /\ j = f.fn /\ v = Rel(f)
        OBVIOUS
      <4>3. frames'[i] = f /\ j \in DOMAIN funcs /\ Keeps(j) /\ funcs'[j].start = funcs[j].start
        BY <1>6, <4>1, <4>2
      <4>4. v \in 1 .. funcs[j].len + 1 /\ Walk(j, v)
        BY <1>0, <4>2 DEF FramesOK, Walks
      <4>5. Walk(j, v)'
        BY <1>0, <4>3, <4>4, WalkKept
      <4>6. Rel(f)' = v
        BY <4>2, <4>3, RelKept
      <4>7. Rel(frames[i])' = v /\ frames'[i].fn = j
        BY <4>2, <4>3, <4>6 DEF Rel
      <4> QED  BY <4>5, <4>7
    <3> QED  BY <3>1, <3>2
  <2> QED  BY <1>3, <2>1 DEF Walks
<1>10. Waits'
  <2>1. ASSUME NEW i \in 1 .. m - 1
        PROVE  /\ StandsOn(frames[i])'
               /\ TargetAt(funcs[frames[i].fn].item, Source(frames[i]))'
                    = funcs'[frames'[i + 1].fn].item
    <3>1. PICK f, g, j : f = frames[i] /\ g = frames[i + 1] /\ j = f.fn
      OBVIOUS
    <3>2. StandsOn(f) /\ TargetAt(funcs[j].item, Source(f)) = funcs[g.fn].item
      BY <1>0, <1>1, <3>1 DEF Waits
    <3>3. frames'[i] = f /\ j \in DOMAIN funcs /\ Keeps(j) /\ funcs'[j].start = funcs[j].start
      BY <1>6, <3>1
    <3>4. /\ StandsOn(f)' <=> StandsOn(f)
          /\ TargetAt(funcs[j].item, Source(f))' = TargetAt(funcs[j].item, Source(f))
      BY <3>1, <3>3, RelKept
    <3>5. g.fn \in DOMAIN funcs /\ frames'[i + 1].fn = g.fn
      <4>1. i + 1 = m \/ i + 1 \in 1 .. m - 1
        BY <1>2
      <4>2. i + 1 \in DOMAIN frames
        BY <1>2, <4>1
      <4>3. frames[i + 1].fn \in DOMAIN funcs
        BY <1>0, <4>2 DEF FramesOK
      <4>4. frames'[i + 1].fn = frames[i + 1].fn
        <5>1. CASE i + 1 = m
          <6>1. frames'[m].fn = k /\ frames[m].fn = k
            BY <1>2, <1>3
          <6> QED  BY ONLY <5>1, <6>1
        <5>2. CASE i + 1 \in 1 .. m - 1
          BY <1>3, <5>2
        <5> QED  BY <4>1, <5>1, <5>2
      <4> QED  BY <3>1, <4>3, <4>4
    <3>6. funcs'[g.fn].item = funcs[g.fn].item
      BY <3>5 DEF ItemsKept
    <3>7. /\ StandsOn(frames[i])'
          /\ TargetAt(funcs[frames[i].fn].item, Source(frames[i]))' = funcs[g.fn].item
      BY <3>1, <3>2, <3>3, <3>4
    <3> QED  BY <3>5, <3>6, <3>7
  <2> QED  BY <1>1, <1>3, <2>1 DEF Waits
<1>11. MapOK'
  <2> SUFFICES ASSUME NEW x \in Items, mirOf[x] # 0, NEW j, j = mirOf[x]
               PROVE  /\ j \in DOMAIN funcs /\ funcs'[j].item = x
                      /\ ~Finishing(j)' => Whole(x, j)'
    BY <1>0 DEF MapOK
  <2>1. j \in DOMAIN funcs /\ funcs[j].item = x /\ (~Finishing(j) => Whole(x, j))
    BY <1>0 DEF MapOK
  <2>2. ASSUME ~Finishing(j) PROVE Whole(x, j)'
    <3>1. j # k
      BY <1>2, <2>2 DEF Finishing
    <3>2. Keeps(j)
      BY <2>1, <3>1 DEF Others
    <3> QED  BY <1>0, <2>1, <2>2, <3>2, WholeKept
  <2> QED  BY <1>3, <2>1, <2>2 DEF ItemsKept
<1>12. Shapes'
  <2>1. ASSUME NEW j \in DOMAIN funcs PROVE Shape(j)'
    <3>1. CASE j = k
      BY <3>1
    <3>2. CASE j # k
      <4>1. Keeps(j) /\ Shape(j)
        BY <1>0, <3>2 DEF Others, Shapes
      <4> QED  BY <1>0, <4>1, ShapeKept
    <3> QED  BY <3>1, <3>2
  <2> QED  BY <2>1 DEF Shapes
<1>13. StatusOK'
  <2>1. frames' # << >>
    BY <1>2, <1>3
  <2> QED  BY <2>1 DEF StatusOK
<1> QED  BY <1>7, <1>8, <1>9, <1>10, <1>11, <1>12, <1>13 DEF IInv

----------------------------------------------------------------------------
(***************************************************************************)
(* The walk on top of the stack.                                           *)
(***************************************************************************)
LEMMA TopReads ==
    ASSUME IInv, frames # << >>, NEW k, k = Top.fn, NEW w, w = Rel(Top),
           NEW x, x = funcs[k].item, NEW p, p = Source(Top), w <= funcs[k].len
    PROVE  /\ k \in DOMAIN funcs /\ x \in Items /\ w \in 1 .. funcs[k].len
           /\ p \in DOMAIN world.code[x] /\ p \in Nat \ {0} /\ p = w - Off(k)
           /\ Top.at = funcs[k].start + w /\ Top.at \in DOMAIN insts
           /\ insts[Top.at] = From(world.code[x][p], <<k, p>>) /\ At(k, w) = insts[Top.at]
           /\ Walk(k, w) /\ ~Rewritten(x, p)
           /\ IsQualified(Top) <=> FieldOfImport(world.code[x], p + 1)
           /\ IsQualified(Top) =>
                 /\ w + 1 <= funcs[k].len /\ p + 1 \in DOMAIN world.code[x]
                 /\ insts[Top.at + 1] = From(world.code[x][p + 1], <<k, p + 1>>)
           /\ IsLoad(Top) <=> Loads(x, p)
           /\ IsCall(Top) <=> Calls(x, p)
           /\ Refers(Top) <=> RefersAt(x, p)
           /\ RefersAt(x, p) => Target(Top) = TargetAt(x, p)
<1>1. /\ TypeOK /\ TablesOK /\ FramesOK /\ Walks
  BY DEF IInv
<1>2. PICK n : n = Len(frames)
  OBVIOUS
<1>3. n \in DOMAIN frames /\ Top = frames[n]
  BY <1>1, <1>2, TopFacts
<1>4. Rel(frames[n]) <= funcs[frames[n].fn].len
  BY <1>3
<1>5. /\ k \in DOMAIN funcs /\ x \in Items /\ w \in 1 .. funcs[k].len
      /\ p \in DOMAIN world.code[x] /\ p \in Nat \ {0}
      /\ Top.at = funcs[k].start + w /\ Top.at \in DOMAIN insts
      /\ insts[Top.at] = From(world.code[x][p], <<k, p>>)
      /\ IsQualified(Top) <=> FieldOfImport(world.code[x], p + 1)
      /\ IsQualified(Top) =>
            /\ w + 1 <= funcs[k].len /\ p + 1 \in DOMAIN world.code[x]
            /\ insts[Top.at + 1] = From(world.code[x][p + 1], <<k, p + 1>>)
      /\ IsLoad(Top) <=> Loads(x, p)
      /\ IsCall(Top) <=> Calls(x, p)
      /\ Refers(Top) <=> RefersAt(x, p)
      /\ RefersAt(x, p) => Target(Top) = TargetAt(x, p)
  BY <1>1, <1>3, <1>4, FrameReads
<1>6. p = w - Off(k)
  BY DEF Source
<1>7. Walk(k, w)
  BY <1>1, <1>3 DEF Walks
<1>8. ~Rewritten(x, p)
  BY <1>6, <1>7 DEF Walk
<1>9. At(k, w) = insts[Top.at]
  BY <1>5 DEF At
<1> QED  BY <1>5, <1>6, <1>7, <1>8, <1>9

LEMMA TopTarget ==
    ASSUME IInv, frames # << >>, NEW k, k = Top.fn, NEW x, x = funcs[k].item,
           NEW p, p = Source(Top), Rel(Top) <= funcs[k].len, RefersAt(x, p)
    PROVE  Target(Top) = TargetAt(x, p)
<1>1. /\ TypeOK /\ TablesOK /\ FramesOK /\ Walks
  BY DEF IInv
<1>2. PICK n, f : n = Len(frames) /\ f = frames[n]
  OBVIOUS
<1>3. n \in DOMAIN frames /\ Top = f
  BY <1>1, <1>2, TopFacts
<1>4. Rel(frames[n]) <= funcs[frames[n].fn].len
  BY <1>2, <1>3
<1>5. RefersAt(x, p) => Target(f) = TargetAt(x, p)
  BY <1>1, <1>2, <1>3, <1>4, FrameReads
<1> QED  BY <1>3, <1>5

LEMMA InWalk ==
    ASSUME IInv, frames # << >>
    PROVE  /\ Top.at <= End(Top.fn) <=> Rel(Top) <= funcs[Top.fn].len
           /\ Top.at > End(Top.fn) => Rel(Top) = funcs[Top.fn].len + 1
<1>1. TypeOK /\ TablesOK /\ FramesOK
  BY DEF IInv
<1>2. PICK k, w, n : k = Top.fn /\ w = Rel(Top) /\ n = Len(frames)
  OBVIOUS
<1>3. k \in DOMAIN funcs /\ w \in 1 .. funcs[k].len + 1 /\ n \in DOMAIN frames /\ Top = frames[n]
  BY <1>1, <1>2, TopFacts
<1>4. Top.at \in Nat
  <2>1. frames[n] \in [fn : Nat, at : Nat]
    BY <1>1, <1>3, FramesFacts
  <2> QED  BY <1>3, <2>1
<1>5. funcs[k].start \in Nat /\ funcs[k].len \in Nat
  BY <1>1, <1>3, AtFacts
<1>6. w = Top.at - funcs[k].start /\ End(Top.fn) = funcs[k].start + funcs[k].len
  BY <1>2 DEF Rel, End
<1>7. \A at, s, l \in Nat : /\ at <= s + l <=> at - s <= l
                            /\ at > s + l /\ at - s <= l + 1 => at - s = l + 1
  OBVIOUS
<1>8. w <= funcs[k].len + 1
  BY <1>3, <1>5
<1>9. /\ Top.at <= End(Top.fn) <=> w <= funcs[k].len
      /\ Top.at > End(Top.fn) => w = funcs[k].len + 1
  BY ONLY <1>4, <1>5, <1>6, <1>7, <1>8
<1> QED  BY <1>2, <1>9

\* When nothing changes but the frames.
LEMMA AllKept ==
    ASSUME IInv, UNCHANGED <<world, insts, funcs>>
    PROVE  /\ ItemsKept /\ TablesOK' /\ Shapes' /\ DOMAIN funcs' = DOMAIN funcs
           /\ \A j, q : At(j, q)' = At(j, q)
           /\ \A i : Gives(i)' = Gives(i)
           /\ \A j \in DOMAIN funcs : Keeps(j) /\ Shape(j)'
           /\ \A k : Others(k)
           /\ insts' \in Seq(InstRec) /\ funcs' \in Seq([item : Items, start : Nat, len : Nat])
<1>1. TypeOK /\ TablesOK /\ Shapes
  BY DEF IInv
<1>2. \A j, q : At(j, q)' = At(j, q)
  BY DEF At
<1>3. \A i : Gives(i)' = Gives(i)
  BY DEF Gives, ToFunctionOps
<1>4. \A j \in DOMAIN funcs : Keeps(j)
  BY <1>2 DEF Keeps
<1>5. TablesOK'
  BY <1>1 DEF TablesOK, CodeOf, End, ToFunctionOps
<1>6. \A j \in DOMAIN funcs : Shape(j)'
  BY <1>1, <1>4, ShapeKept DEF Shapes
<1>7. Shapes'
  BY <1>6 DEF Shapes
<1>8. insts \in Seq(InstRec) /\ funcs \in Seq([item : Items, start : Nat, len : Nat])
  BY <1>1 DEF TypeOK
<1>9. ItemsKept
  BY DEF ItemsKept
<1>10. \A k : Others(k)
  BY <1>4 DEF Others
<1> QED  BY <1>2, <1>3, <1>4, <1>5, <1>6, <1>7, <1>8, <1>9, <1>10

\* What does not refer to an item, or is kept, is passed.
LEMMA PlainStep ==
    ASSUME IInv, frames # << >>, NEW k, k = Top.fn, NEW w, w = Rel(Top),
           NEW x, x = funcs[k].item, NEW p, p = Source(Top), w <= funcs[k].len,
           UNCHANGED <<world, insts, funcs, mirOf>>, Advance(1), status' = "lowering",
           ~Rewritten(x, p + 1), FieldOfImport(world.code[x], p + 1) \/ ~RefersAt(x, p)
    PROVE  IInv'
<1>1. /\ k \in DOMAIN funcs /\ x \in Items /\ w \in 1 .. funcs[k].len
      /\ p \in DOMAIN world.code[x] /\ p \in Nat \ {0} /\ p = w - Off(k)
      /\ At(k, w) = From(world.code[x][p], <<k, p>>)
      /\ Walk(k, w) /\ ~Rewritten(x, p)
  BY TopReads
<1>2. /\ ItemsKept /\ TablesOK' /\ DOMAIN funcs' = DOMAIN funcs
      /\ \A j, q : At(j, q)' = At(j, q)
      /\ \A i : Gives(i)' = Gives(i)
      /\ Shape(k)' /\ Others(k)
      /\ insts' \in Seq(InstRec) /\ funcs' \in Seq([item : Items, start : Nat, len : Nat])
  BY <1>1, AllKept
<1>3. TypeOK /\ TablesOK /\ IsWorld(world)
  BY DEF IInv, TypeOK
<1>4. PICK m : m = <<world.code[x][p].op, world.code[x][p].name>>
  OBVIOUS
<1>5. Meant(x, p) = <<m>>
  BY <1>1, <1>4, MeantAsIs
<1>6. (At(k, w).of)' = <<k, p>> /\ Gives(At(k, w))' = m
  <2>1. At(k, w).of = <<k, p>>
    BY <1>1 DEF From
  <2>2. At(k, w)' = At(k, w)
    BY <1>2
  <2>3. world.code[x][p].op \notin ToFunctionOps
    BY <1>1, <1>3, CodeFacts
  <2>4. At(k, w).op = world.code[x][p].op /\ At(k, w).name = world.code[x][p].name
    BY <1>1 DEF From
  <2>5. Gives(At(k, w))' = m
    BY <1>4, <2>2, <2>3, <2>4 DEF Gives, ToFunctionOps
  <2> QED  BY <2>1, <2>2, <2>5
<1>7. Walk(k, w + 1)'
  <2>1. \A q \in 1 .. funcs[k].len : q # w => At(k, q)' = At(k, q)
    BY <1>2
  <2>2. funcs'[k].len = funcs[k].len
    OBVIOUS
  <2> QED  BY <1>1, <1>2, <1>3, <1>5, <1>6, <2>1, <2>2, WalkStep
<1>8. w + 1 <= funcs'[k].len + 1
  <2>1. funcs[k].len \in Nat /\ w \in Nat
    BY <1>1, <1>3, AtFacts
  <2>2. funcs'[k].len = funcs[k].len /\ w <= funcs[k].len
    OBVIOUS
  <2> QED  BY ONLY <2>1, <2>2
<1>9. PICK n \in Nat \ {0} : n = 1
  OBVIOUS
<1>10. Walk(k, w + n)' /\ w + n <= funcs'[k].len + 1 /\ Advance(n)
  BY <1>7, <1>8, <1>9
<1> QED  BY <1>1, <1>2, <1>10, Advanced

----------------------------------------------------------------------------
(***************************************************************************)
(* Every action keeps the invariant.                                       *)
(***************************************************************************)
LEMMA SkipInstKeeps == IInv /\ SkipInst => IInv'
<1> SUFFICES ASSUME IInv, SkipInst PROVE IInv'
  OBVIOUS
<1>1. /\ frames # << >> /\ Top.at <= End(Top.fn) /\ ~Refers(Top) /\ Advance(1)
      /\ UNCHANGED <<world, insts, funcs, mirOf>> /\ status' = "lowering"
  BY DEF SkipInst, Walking, IInv, StatusOK
<1>2. PICK k, w, x, p : k = Top.fn /\ w = Rel(Top) /\ x = funcs[k].item /\ p = Source(Top)
  OBVIOUS
<1>3. w <= funcs[k].len
  BY <1>1, <1>2, InWalk
<1>4. ~RefersAt(x, p)
  BY <1>1, <1>2, <1>3, TopReads
<1>5. ~Rewritten(x, p + 1)
  BY <1>4 DEF RefersAt, Rewritten
<1> QED  BY <1>1, <1>2, <1>3, <1>4, <1>5, PlainStep

\* A value that is optional is kept.
LEMMA OptionalKept ==
    ASSUME IInv, frames # << >>, NEW k, k = Top.fn, NEW w, w = Rel(Top),
           NEW x, x = funcs[k].item, NEW p, p = Source(Top), w <= funcs[k].len, Optional(Top)
    PROVE  FieldOfImport(world.code[x], p + 1) /\ ~Rewritten(x, p + 1)
<1>1. /\ IsQualified(Top) /\ InFunction(Top) /\ Target(Top) \in Vars
  BY DEF Optional
<1>2. FieldOfImport(world.code[x], p + 1) /\ Target(Top) = TargetAt(x, p)
  <2>0. p \in Nat \ {0}
    BY TopReads
  <2>1. IsQualified(Top) <=> FieldOfImport(world.code[x], p + 1)
    BY <2>0, TopReads
  <2>3. RefersAt(x, p) => Target(Top) = TargetAt(x, p)
    <3> HAVE RefersAt(x, p)
    <3> QED  BY TopTarget
  <2>2. FieldOfImport(world.code[x], p + 1) => RefersAt(x, p)
    BY DEF RefersAt
  <2> QED  BY <1>1, <2>1, <2>2, <2>3
<1>3. x \in Functions
  BY <1>1 DEF InFunction
<1>4. TargetAt(x, p) = world.code[x][p + 1].name
  <2>1. ~Calls(x, p)
    <3>1. (p + 1) - 1 = p
      <4>1. p \in Nat
        BY TopReads
      <4> QED  BY ONLY <4>1
    <3>2. FieldOfImport(world.code[x], p + 1)
      BY <1>2
    <3>3. world.code[x][(p + 1) - 1].op = "LOAD_IDENT"
      BY ONLY <3>2 DEF FieldOfImport
    <3>4. world.code[x][p].op = "LOAD_IDENT"
      BY ONLY <3>1, <3>3
    <3> QED  BY <3>4 DEF Calls
  <2> QED  BY <1>2, <2>1 DEF TargetAt
<1>5. Kept(x, world.code[x][p + 1].name)
  BY <1>1, <1>2, <1>3, <1>4 DEF Kept
<1> QED  BY <1>2, <1>5 DEF Rewritten

LEMMA KeepOptionalKeeps == IInv /\ KeepOptional => IInv'
<1> SUFFICES ASSUME IInv, KeepOptional PROVE IInv'
  OBVIOUS
<1>1. /\ frames # << >> /\ Top.at <= End(Top.fn) /\ Optional(Top) /\ Advance(1)
      /\ UNCHANGED <<world, insts, funcs, mirOf>> /\ status' = "lowering"
  BY DEF KeepOptional, Resolved, Walking, IInv, StatusOK
<1>2. PICK k, w, x, p : k = Top.fn /\ w = Rel(Top) /\ x = funcs[k].item /\ p = Source(Top)
  OBVIOUS
<1>3. w <= funcs[k].len
  BY <1>1, <1>2, InWalk
<1>4. FieldOfImport(world.code[x], p + 1) /\ ~Rewritten(x, p + 1)
  BY <1>1, <1>2, <1>3, OptionalKept
<1> QED  BY <1>1, <1>2, <1>3, <1>4, PlainStep

LEMMA GoOnWithoutKeeps == IInv /\ GoOnWithout => IInv'
<1> SUFFICES ASSUME IInv, GoOnWithout PROVE IInv'
  OBVIOUS
<1>1. /\ frames # << >> /\ StandsOn(Top) /\ Optional(Top) /\ Advance(1)
      /\ UNCHANGED <<world, insts, funcs, mirOf>> /\ status' = "lowering"
  BY DEF GoOnWithout, IInv, StatusOK
<1>2. PICK k, w, x, p : k = Top.fn /\ w = Rel(Top) /\ x = funcs[k].item /\ p = Source(Top)
  OBVIOUS
<1>3. w <= funcs[k].len
  BY <1>1, <1>2 DEF StandsOn
<1>4. FieldOfImport(world.code[x], p + 1) /\ ~Rewritten(x, p + 1)
  BY <1>1, <1>2, <1>3, OptionalKept
<1> QED  BY <1>1, <1>2, <1>3, <1>4, PlainStep

LEMMA OpFacts ==
    ASSUME NEW op \in ToFunctionOps
    PROVE  op \in Texts /\ op \notin Jumps
<1>1. op = "CALL_FN" \/ op = "PUSH_CONST"
  BY DEF ToFunctionOps
<1>2. "CALL_FN" \in Texts /\ "PUSH_CONST" \in Texts
  BY DEF Texts
<1>3. "CALL_FN" \notin Jumps /\ "PUSH_CONST" \notin Jumps
  BY DEF Jumps
<1> QED  BY <1>1, <1>2, <1>3

\* An instruction that refers to a function of the program.
LEMMA RefFacts ==
    ASSUME NEW op \in ToFunctionOps, NEW kk \in Nat, NEW k \in Nat, NEW p \in Nat,
           NEW ins, ins = From(ToFunction(op, kk), <<k, p>>)
    PROVE  /\ ins \in InstRec /\ ins.op = op /\ ins.op \in ToFunctionOps /\ ins.op \notin Jumps
           /\ ins.num = kk /\ ins.of = <<k, p>>
<1>1. op \in Texts /\ op \notin Jumps
  BY OpFacts
<1>2. ins.op = op /\ ins.name = "" /\ ins.num = kk /\ ins.of = <<k, p>>
  BY DEF From, ToFunction
<1>3. ins = [op |-> op, name |-> "", num |-> kk, of |-> <<k, p>>]
  BY DEF From, ToFunction
<1>4. ins \in InstRec
  <2>1. \A o, e \in Texts : \A n \in Nat : \A f \in Nat \X Nat :
            [op |-> o, name |-> e, num |-> n, of |-> f] \in InstRec
    BY DEF InstRec
  <2>3. "" \in Texts
    BY DEF Texts
  <2>2. <<k, p>> \in Nat \X Nat
    OBVIOUS
  <2> QED  BY <1>1, <1>3, <2>1, <2>2, <2>3
<1> QED  BY <1>1, <1>2, <1>4

LEMMA MapFacts ==
    ASSUME IInv, NEW t \in Items, mirOf[t] # 0
    PROVE  mirOf[t] \in DOMAIN funcs /\ funcs[mirOf[t]].item = t /\ mirOf[t] \in Nat
  BY DEF IInv, MapOK, TypeOK

LEMMA GivesRef ==
    ASSUME ItemsKept, NEW kk \in DOMAIN funcs, NEW ins, ins.op \in ToFunctionOps, ins.num = kk,
           NEW k, NEW w, At(k, w)' = ins
    PROVE  Gives(At(k, w))' = <<ins.op, funcs[kk].item>>
  BY DEF Gives, ItemsKept, ToFunctionOps

LEMMA RewriteInstKeeps == IInv /\ RewriteInst => IInv'
<1> SUFFICES ASSUME IInv, RewriteInst PROVE IInv'
  OBVIOUS
<1>1. /\ frames # << >> /\ Top.at <= End(Top.fn) /\ Refers(Top) /\ mirOf[Target(Top)] # 0
      /\ ~IsQualified(Top) /\ Advance(1)
      /\ UNCHANGED <<world, funcs, mirOf>> /\ status' = "lowering"
  BY DEF RewriteInst, Resolved, Walking, IInv, StatusOK
<1>2. PICK k, w, x, p, t : /\ k = Top.fn /\ w = Rel(Top) /\ x = funcs[k].item /\ p = Source(Top)
                           /\ t = Target(Top)
  OBVIOUS
<1>3. w <= funcs[k].len
  BY <1>1, <1>2, InWalk
<1>4. /\ k \in DOMAIN funcs /\ x \in Items /\ w \in 1 .. funcs[k].len
      /\ p \in DOMAIN world.code[x] /\ p \in Nat \ {0} /\ p = w - Off(k)
      /\ Top.at = funcs[k].start + w
      /\ insts[Top.at] = From(world.code[x][p], <<k, p>>)
      /\ Walk(k, w) /\ ~Rewritten(x, p)
  BY <1>1, <1>2, <1>3, TopReads
<1>5. /\ IsQualified(Top) <=> FieldOfImport(world.code[x], p + 1)
      /\ IsCall(Top) <=> Calls(x, p)
      /\ Refers(Top) <=> RefersAt(x, p)
  <2>0. /\ IInv /\ frames # << >> /\ k = Top.fn /\ w = Rel(Top) /\ x = funcs[k].item
        /\ p = Source(Top) /\ w <= funcs[k].len
    BY <1>1, <1>2, <1>3
  <2> QED  BY ONLY <2>0, TopReads
<1>6. /\ TypeOK /\ TablesOK /\ Shapes /\ IsWorld(world) /\ Shape(k)
      /\ funcs[k].len \in Nat /\ k \in Nat /\ w \in Nat
      /\ funcs \in Seq([item : Items, start : Nat, len : Nat])
  <2>1. TypeOK /\ TablesOK /\ Shapes /\ IsWorld(world) /\ Shape(k)
    BY <1>4 DEF IInv, TypeOK, Shapes
  <2>2. funcs \in Seq([item : Items, start : Nat, len : Nat])
    BY <2>1 DEF TypeOK
  <2>3. k \in Nat
    BY <1>4, <2>2
  <2>4. funcs[k].len \in Nat
    BY <1>4, <2>1, AtFacts
  <2> QED  BY <1>4, <2>1, <2>2, <2>3, <2>4
<1>7. t = TargetAt(x, p) /\ t \in Items
  <2>1. RefersAt(x, p)
    BY <1>1, <1>5
  <2>2. t = TargetAt(x, p)
    BY <1>1, <1>2, <1>3, <2>1, TopTarget
  <2> QED  BY <1>4, <1>6, <2>1, <2>2, TargetIsItem
<1>8. PICK kk : kk = mirOf[t]
  OBVIOUS
<1>9. kk \in DOMAIN funcs /\ kk \in Nat /\ funcs[kk].item = t
  BY <1>1, <1>2, <1>7, <1>8, MapFacts
<1>10. ~FieldOfImport(world.code[x], p + 1) /\ (Loads(x, p) \/ Calls(x, p))
  BY <1>1, <1>5 DEF RefersAt
<1>11. PICK m : m = MeantAlone(x, p)
  OBVIOUS
<1>12. Meant(x, p) = <<m>> /\ ~Rewritten(x, p + 1)
  BY <1>4, <1>10, <1>11, MeantByName DEF Rewritten
<1>13. PICK op \in ToFunctionOps :
         /\ m = <<op, t>>
         /\ (IF IsCall(Top) THEN ToFunction("CALL_FN", kk) ELSE Reference(t, kk)) = ToFunction(op, kk)
  <2>1. CASE IsCall(Top)
    <3>1. ~Loads(x, p)
      BY <1>5, <2>1 DEF Calls, Loads
    <3>2. m = <<"CALL_FN", t>>
      BY <1>7, <1>11, <3>1 DEF MeantAlone
    <3>3. "CALL_FN" \in ToFunctionOps
      BY DEF ToFunctionOps
    <3> QED  BY <2>1, <3>2, <3>3
  <2>2. CASE ~IsCall(Top)
    <3>1. Loads(x, p) /\ ~Calls(x, p)
      BY <1>5, <1>10, <2>2
    <3>2. t = world.code[x][p].name
      BY <1>7, <1>10, <3>1 DEF TargetAt
    <3>3. m = Refer(t)
      BY <1>11, <3>1, <3>2 DEF MeantAlone
    <3>4. CASE t \in Functions
      BY <2>2, <3>3, <3>4 DEF Refer, Reference, ToFunctionOps
    <3>5. CASE t \notin Functions
      BY <2>2, <3>3, <3>5 DEF Refer, Reference, ToFunctionOps
    <3> QED  BY <3>4, <3>5
  <2> QED  BY <2>1, <2>2
<1>14. PICK ins : ins = From(ToFunction(op, kk), <<k, p>>)
  OBVIOUS
<1>15. /\ ins \in InstRec /\ ins.op = op /\ ins.op \in ToFunctionOps /\ ins.op \notin Jumps
       /\ ins.num = kk /\ ins.of = <<k, p>>
  <2>1. p \in Nat /\ k \in Nat /\ kk \in Nat
    BY <1>4, <1>6, <1>9
  <2> QED  BY <1>14, <2>1, RefFacts
<1>16. insts' = [insts EXCEPT ![funcs[k].start + w] = ins]
  <2>1. Place(Top.at) = <<k, p>>
    BY <1>4 DEF Place, From
  <2>2. insts' = [insts EXCEPT ![Top.at] = From(ToFunction(op, kk), <<k, p>>)]
    BY <1>2, <1>8, <1>13, <2>1 DEF RewriteInst
  <2> QED  BY <1>4, <1>14, <2>2
<1>17. /\ insts' \in Seq(InstRec) /\ ItemsKept /\ TablesOK'
       /\ At(k, w)' = ins
       /\ \A q \in 1 .. funcs[k].len : q # w => At(k, q)' = At(k, q)
       /\ Others(k)
  <2>1. ins.op \in ToFunctionOps => ins.num \in DOMAIN funcs
    BY <1>9, <1>15
  <2>2. world' = world /\ funcs' = funcs
    BY <1>1
  <2> QED  BY <1>4, <1>6, <1>15, <1>16, <2>1, <2>2, Rewrote
<1>18. Gives(At(k, w))' = m
  BY <1>9, <1>13, <1>15, <1>17, GivesRef
<1>19. (At(k, w).of)' = <<k, p>> /\ At(k, w).of = <<k, p>> /\ At(k, w).op' \notin Jumps
  <2>1. At(k, w) = insts[Top.at]
    BY <1>4 DEF At
  <2> QED  BY <1>4, <1>15, <1>17, <2>1 DEF From
<1>20. Walk(k, w + 1)'
  <2>1. funcs'[k].len = funcs[k].len
    BY <1>1
  <2> QED  BY <1>2, <1>4, <1>6, <1>12, <1>17, <1>18, <1>19, <2>1, WalkStep
<1>21. Shape(k)'
  <2>1. funcs'[k].len = funcs[k].len
    BY <1>1
  <2> QED  BY <1>4, <1>6, <1>17, <1>19, <2>1, ShapeRewritten
<1>22. PICK n \in Nat \ {0} : n = 1
  OBVIOUS
<1>23. Walk(k, w + n)' /\ w + n <= funcs'[k].len + 1 /\ Advance(n)
  <2>1. w + 1 <= funcs[k].len + 1
    BY <1>3, <1>6
  <2>2. funcs'[k].len = funcs[k].len
    BY <1>1
  <2> QED  BY <1>1, <1>20, <1>22, <2>1, <2>2
<1>24. /\ DOMAIN funcs' = DOMAIN funcs /\ funcs' \in Seq([item : Items, start : Nat, len : Nat])
  BY <1>1, <1>6
<1> QED  BY <1>1, <1>2, <1>4, <1>17, <1>21, <1>23, <1>24, Advanced

\* An instruction that does nothing any more.
Passed == {"PUSH_NULL", "DROP"}
Nameless == ""
LEMMA PlainFacts ==
    ASSUME NEW op \in Passed, NEW k \in Nat, NEW p \in Nat,
           NEW ins, ins = From(Plain(op), <<k, p>>)
    PROVE  /\ ins \in InstRec /\ ins.op = op /\ ins.op \notin ToFunctionOps /\ ins.op \notin Jumps
           /\ ins.name = Nameless /\ ins.of = <<k, p>>
<1>1. op = "PUSH_NULL" \/ op = "DROP"
  BY DEF Passed
<1>2. "PUSH_NULL" \in Texts /\ "DROP" \in Texts /\ "" \in Texts
  BY DEF Texts
<1>3. /\ "PUSH_NULL" \notin Jumps /\ "DROP" \notin Jumps
      /\ "PUSH_NULL" \notin ToFunctionOps /\ "DROP" \notin ToFunctionOps
  BY DEF Jumps, ToFunctionOps
<1>4. ins = [op |-> op, name |-> "", num |-> 0, of |-> <<k, p>>]
  BY DEF From, Plain
<1>5. \A o, e \in Texts : \A n \in Nat : \A f \in Nat \X Nat :
        [op |-> o, name |-> e, num |-> n, of |-> f] \in InstRec
  BY DEF InstRec
<1>6. <<k, p>> \in Nat \X Nat /\ op \in Texts
  BY <1>1, <1>2
<1>7. ins \in InstRec
  BY <1>2, <1>4, <1>5, <1>6
<1>8. ins.op = op /\ ins.name = Nameless /\ ins.of = <<k, p>>
  BY DEF From, Plain, Nameless
<1> QED  BY <1>1, <1>3, <1>7, <1>8

LEMMA RewriteQualifiedKeeps == IInv /\ RewriteQualified => IInv'
<1> SUFFICES ASSUME IInv, RewriteQualified PROVE IInv'
  OBVIOUS
<1>1. /\ frames # << >> /\ Top.at <= End(Top.fn) /\ Refers(Top) /\ mirOf[Target(Top)] # 0
      /\ IsQualified(Top) /\ ~Optional(Top) /\ Advance(3)
      /\ world' = world /\ mirOf' = mirOf /\ status' = "lowering"
  BY DEF RewriteQualified, Resolved, Walking, IInv, StatusOK
<1>2. PICK k, w, x, p, t : /\ k = Top.fn /\ w = Rel(Top) /\ x = funcs[k].item /\ p = Source(Top)
                           /\ t = Target(Top)
  OBVIOUS
<1>3. w <= funcs[k].len
  BY <1>1, <1>2, InWalk
<1>4. /\ k \in DOMAIN funcs /\ x \in Items /\ w \in 1 .. funcs[k].len
      /\ p \in DOMAIN world.code[x] /\ p \in Nat \ {0} /\ p = w - Off(k)
      /\ Top.at = funcs[k].start + w
      /\ insts[Top.at] = From(world.code[x][p], <<k, p>>)
      /\ Walk(k, w) /\ ~Rewritten(x, p)
  <2>0. /\ IInv /\ frames # << >> /\ k = Top.fn /\ w = Rel(Top) /\ x = funcs[k].item
        /\ p = Source(Top) /\ w <= funcs[k].len
    BY <1>1, <1>2, <1>3
  <2>1. /\ k \in DOMAIN funcs /\ x \in Items /\ w \in 1 .. funcs[k].len
        /\ p \in DOMAIN world.code[x] /\ p \in Nat \ {0} /\ p = w - Off(k)
    BY ONLY <2>0, TopReads
  <2>2. Top.at = funcs[k].start + w
    BY ONLY <2>0, TopReads
  <2>3. Walk(k, w) /\ ~Rewritten(x, p)
    BY ONLY <2>0, TopReads
  <2>4. insts[Top.at] = From(world.code[x][p], <<k, p>>)
    <3>1. w \in w .. funcs[k].len
      BY <1>3, <2>1
    <3>2. At(k, w) = From(CodeOf(k)[w - Off(k)], <<k, w - Off(k)>>)
      BY <2>3, <3>1 DEF Walk
    <3>3. At(k, w) = From(world.code[x][p], <<k, p>>)
      BY <1>2, <2>1, <3>2 DEF CodeOf
    <3> QED  BY <2>2, <3>3 DEF At
  <2> QED  BY <2>1, <2>2, <2>3, <2>4
<1>5. /\ FieldOfImport(world.code[x], p + 1) /\ w + 1 <= funcs[k].len
      /\ insts[Top.at + 1] = From(world.code[x][p + 1], <<k, p + 1>>)
  <2>0. /\ IInv /\ frames # << >> /\ k = Top.fn /\ w = Rel(Top) /\ x = funcs[k].item
        /\ p = Source(Top) /\ w <= funcs[k].len
    BY <1>1, <1>2, <1>3
  <2>1. IsQualified(Top)
    BY <1>1
  <2>2. FieldOfImport(world.code[x], p + 1)
    <3>1. IsQualified(Top) <=> FieldOfImport(world.code[x], p + 1)
      BY ONLY <2>0, TopReads
    <3> QED  BY ONLY <2>1, <3>1
  <2>3. w + 1 <= funcs[k].len
    <3>1. IsQualified(Top) => w + 1 <= funcs[k].len
      BY ONLY <2>0, TopReads
    <3> QED  BY ONLY <2>1, <3>1
  <2>4. insts[Top.at + 1] = From(world.code[x][p + 1], <<k, p + 1>>)
    <3>1. w + 1 \in w .. funcs[k].len
      <4>1. w \in 1 .. funcs[k].len /\ w + 1 <= funcs[k].len
        BY <1>4, <2>3
      <4> QED  BY ONLY <4>1
    <3>2. At(k, w + 1) = From(CodeOf(k)[(w + 1) - Off(k)], <<k, (w + 1) - Off(k)>>)
      <4>1. Walk(k, w)
        BY <1>4
      <4> QED  BY ONLY <3>1, <4>1 DEF Walk
    <3>3. funcs[k].start \in Nat /\ funcs[k].len \in Nat /\ Len(CodeOf(k)) \in Nat
      <4>1. funcs[k].start \in Nat /\ funcs[k].len \in Nat
        BY <1>4, <2>0, AtFacts DEF IInv
      <4>2. x \in Items /\ IsWorld(world)
        BY <1>4, <2>0 DEF IInv, TypeOK
      <4>3. Len(CodeOf(k)) \in Nat
        BY <2>0, <4>2, CodeFacts DEF CodeOf
      <4> QED  BY ONLY <4>1, <4>3
    <3>4. (w + 1) - Off(k) = p + 1
      <4>1. PICK o, l, c : l = funcs[k].len /\ c = Len(CodeOf(k)) /\ o = l - c
        OBVIOUS
      <4>2. o = Off(k) /\ l \in Nat /\ c \in Nat /\ w \in Nat /\ p = w - o
        BY <1>4, <3>3, <4>1 DEF Off
      <4>3. \A a, b, d, e \in Nat : e = d - (a - b) => (d + 1) - (a - b) = e + 1
        OBVIOUS
      <4>4. (w + 1) - (l - c) = p + 1
        <5>1. l \in Nat /\ c \in Nat /\ w \in Nat /\ p \in Nat /\ p = w - (l - c)
          BY <1>4, <4>1, <4>2
        <5> QED  BY ONLY <4>3, <5>1
      <4> QED  BY ONLY <4>1, <4>2, <4>4
    <3>5. funcs[k].start + (w + 1) = Top.at + 1
      <4>1. w \in Nat /\ Top.at = funcs[k].start + w
        BY <1>4
      <4> QED  BY ONLY <3>3, <4>1
    <3>6. At(k, w + 1) = insts[Top.at + 1]
      BY ONLY <3>5 DEF At
    <3>7. CodeOf(k)[p + 1] = world.code[x][p + 1]
      BY ONLY <2>0 DEF CodeOf
    <3> QED  BY ONLY <3>2, <3>4, <3>6, <3>7
  <2> QED  BY ONLY <2>2, <2>3, <2>4
<1>6. /\ TypeOK /\ TablesOK /\ Shapes /\ IsWorld(world) /\ Shape(k)
      /\ funcs[k].len \in Nat /\ funcs[k].start \in Nat /\ k \in Nat /\ w \in Nat \ {0}
  <2>1. TypeOK /\ TablesOK /\ Shapes /\ IsWorld(world) /\ Shape(k)
    BY <1>4 DEF IInv, TypeOK, Shapes
  <2>2. funcs \in Seq([item : Items, start : Nat, len : Nat])
    BY <2>1 DEF TypeOK
  <2>3. k \in Nat
    BY <1>4, <2>2
  <2>4. funcs[k].len \in Nat /\ funcs[k].start \in Nat
    BY <1>4, <2>1, AtFacts
  <2> QED  BY <1>4, <2>1, <2>3, <2>4
<1>7. t = TargetAt(x, p) /\ t \in Items
  <2>1. RefersAt(x, p)
    BY <1>5 DEF RefersAt
  <2>2. t = TargetAt(x, p)
    BY <1>1, <1>2, <1>3, <2>1, TopTarget
  <2> QED  BY <1>4, <1>6, <2>1, <2>2, TargetIsItem
<1>8. t = world.code[x][p + 1].name
  <2>1. ~Calls(x, p)
    BY <1>4, <1>5 DEF FieldOfImport, Calls
  <2> QED  BY <1>5, <1>7, <2>1 DEF TargetAt
<1>9. PICK kk : kk = mirOf[t]
  OBVIOUS
<1>10. kk \in DOMAIN funcs /\ kk \in Nat /\ funcs[kk].item = t
  BY <1>1, <1>2, <1>7, <1>9, MapFacts
<1>11. Rewritten(x, p + 1)
  <2>1. ~(InFunction(Top) /\ t \in Vars)
    BY <1>1, <1>2 DEF Optional
  <2>2. ~Kept(x, t)
    BY <1>2, <1>7, <2>1 DEF Kept, InFunction
  <2> QED  BY <1>5, <1>8, <2>2 DEF Rewritten
<1>12. PICK op \in ToFunctionOps : Refer(t) = <<op, t>> /\ Reference(t, kk) = ToFunction(op, kk)
  <2>1. CASE t \in Functions
    BY <2>1 DEF Refer, Reference, ToFunctionOps
  <2>2. CASE t \notin Functions
    BY <2>2 DEF Refer, Reference, ToFunctionOps
  <2> QED  BY <2>1, <2>2
<1>0. PICK o1 \in Passed, o2 \in Passed : o1 = "PUSH_NULL" /\ o2 = "DROP"
  BY DEF Passed
<1>13. PICK a, b, c : /\ a = From(Plain(o1), <<k, p>>)
                      /\ b = From(Plain(o2), <<k, p + 1>>)
                      /\ c = From(ToFunction(op, kk), <<k, p + 1>>)
  OBVIOUS
<1>14. /\ a \in InstRec /\ a.op = o1 /\ a.op \notin ToFunctionOps /\ a.op \notin Jumps
       /\ a.name = Nameless /\ a.of = <<k, p>>
  <2>1. p \in Nat /\ k \in Nat
    BY <1>4, <1>6
  <2> QED  BY <1>13, <2>1, PlainFacts
<1>15. /\ b \in InstRec /\ b.op = o2 /\ b.op \notin ToFunctionOps /\ b.op \notin Jumps
       /\ b.name = Nameless /\ b.of = <<k, p + 1>>
  <2>1. p + 1 \in Nat /\ k \in Nat
    BY <1>4, <1>6
  <2> QED  BY <1>13, <2>1, PlainFacts
<1>16. /\ c \in InstRec /\ c.op = op /\ c.op \in ToFunctionOps /\ c.op \notin Jumps
       /\ c.num = kk /\ c.of = <<k, p + 1>>
  <2>1. p + 1 \in Nat /\ k \in Nat /\ kk \in Nat
    BY <1>4, <1>6, <1>10
  <2> QED  BY <1>13, <2>1, RefFacts
<1>17. PICK at : at = Top.at
  OBVIOUS
<1>18. Insertion(k, at, a, b, c)
  <2>1. Place(at) = <<k, p>> /\ Place(at + 1) = <<k, p + 1>>
    BY <1>4, <1>5, <1>17 DEF Place, From
  <2>2. funcs[k].start + (BehindQualified(at) - funcs[k].start) = at + 1
    <3>1. \A m, n \in Nat : n + ((m + 1) - n) = m + 1
      OBVIOUS
    <3>2. at \in Nat
      BY <1>4, <1>6, <1>17
    <3> QED  BY <1>6, <3>1, <3>2 DEF BehindQualified
  <2>3. (at + 1) + 1 = at + 2
    BY <1>4, <1>6, <1>17
  <2>4. InsertInst([insts EXCEPT ![at] = a, ![at + 1] = b], k, BehindQualified(at) - funcs[k].start, c)
    BY <1>0, <1>2, <1>9, <1>12, <1>13, <1>17, <2>1 DEF RewriteQualified
  <2>5. /\ insts' = InsertAt([insts EXCEPT ![at] = a, ![at + 1] = b], (at + 1) + 1, c)
        /\ funcs' = Moved(funcs, k, at + 1)
    BY <2>2, <2>4 DEF InsertInst
  <2> QED  BY <2>3, <2>5 DEF Insertion, Tripled
<1>19. /\ insts' \in Seq(InstRec) /\ ItemsKept /\ TablesOK'
       /\ At(k, w)' = a /\ At(k, w + 1)' = b /\ At(k, w + 2)' = c /\ Shifted(k, w)
       /\ funcs' \in Seq([item : Items, start : Nat, len : Nat]) /\ DOMAIN funcs' = DOMAIN funcs
       /\ Others(k)
  <2>1. at = funcs[k].start + w /\ c.num \in DOMAIN funcs
    BY <1>4, <1>10, <1>16, <1>17
  <2> QED  BY <1>1, <1>4, <1>5, <1>6, <1>14, <1>15, <1>16, <1>18, <2>1, Inserted
<1>20. PICK m1, m2, m3 : m1 = <<"PUSH_NULL", "">> /\ m2 = <<"DROP", "">> /\ m3 = Refer(t)
  OBVIOUS
<1>21. Meant(x, p) = <<m1>> /\ Meant(x, p + 1) = <<m2, m3>>
  BY <1>4, <1>8, <1>11, <1>20, MeantByPair
<1>22. Gives(At(k, w))' = m1 /\ Gives(At(k, w + 1))' = m2
  BY <1>0, <1>14, <1>15, <1>19, <1>20 DEF Gives, ToFunctionOps, Nameless
<1>23. Gives(At(k, w + 2))' = m3
  <2>1. PICK v : v = w + 2
    OBVIOUS
  <2>2. Gives(At(k, v))' = <<c.op, funcs[kk].item>>
    BY <1>10, <1>16, <1>19, <2>1, GivesRef
  <2> QED  BY <1>10, <1>12, <1>16, <1>20, <2>1, <2>2
<1>24. /\ (At(k, w).of)' = <<k, p>> /\ (At(k, w + 1).of)' = <<k, p + 1>>
       /\ (At(k, w + 2).of)' = <<k, p + 1>>
       /\ At(k, w).op' \notin Jumps /\ At(k, w + 1).op' \notin Jumps /\ At(k, w + 2).op' \notin Jumps
  BY <1>14, <1>15, <1>16, <1>19
<1>25. Walk(k, w + 3)' /\ w + 2 <= funcs[k].len
  <2>1. /\ TypeOK /\ TablesOK /\ ItemsKept /\ k \in DOMAIN funcs /\ w \in 1 .. funcs[k].len
        /\ Walk(k, w) /\ x = funcs[k].item /\ p = w - Off(k)
    BY <1>2, <1>4, <1>6, <1>19
  <2>2. Rewritten(x, p + 1) /\ Meant(x, p) = <<m1>> /\ Meant(x, p + 1) = <<m2, m3>> /\ Shifted(k, w)
    BY <1>11, <1>19, <1>21
  <2>3. /\ (At(k, w).of)' = <<k, p>> /\ Gives(At(k, w))' = m1
        /\ (At(k, w + 1).of)' = <<k, p + 1>> /\ Gives(At(k, w + 1))' = m2
        /\ (At(k, w + 2).of)' = <<k, p + 1>> /\ Gives(At(k, w + 2))' = m3
    BY ONLY <1>22, <1>23, <1>24
  <2> QED  BY ONLY <2>1, <2>2, <2>3, WalkPair
<1>26. Shape(k)'
  <2>1. At(k, w).of = <<k, p>> /\ At(k, w + 1).of = <<k, p + 1>>
    <3>1. At(k, w) = insts[Top.at]
      BY <1>4 DEF At
    <3>2. At(k, w + 1) = insts[Top.at + 1]
      <4>1. funcs[k].start + (w + 1) = Top.at + 1
        BY <1>4, <1>6
      <4> QED  BY <4>1 DEF At
    <3> QED  BY <1>4, <1>5, <3>1, <3>2 DEF From
  <2> QED  BY <1>4, <1>5, <1>6, <1>19, <1>24, <2>1, ShapeInserted
<1>27. PICK n \in Nat \ {0} : n = 3
  OBVIOUS
<1>28. Walk(k, w + n)' /\ w + n <= funcs'[k].len + 1 /\ Advance(n)
  <2>1. w + 3 <= funcs[k].len + 1 + 1 /\ funcs'[k].len = funcs[k].len + 1
    BY <1>6, <1>19, <1>25 DEF Shifted
  <2> QED  BY <1>1, <1>25, <1>27, <2>1
<1> QED  BY <1>1, <1>2, <1>19, <1>26, <1>28, Advanced

LEMMA FrameSame ==
    ASSUME UNCHANGED <<world, insts, funcs>>, NEW f
    PROVE  /\ Rel(f)' = Rel(f) /\ (StandsOn(f)' <=> StandsOn(f))
           /\ \A y : TargetAt(y, Source(f))' = TargetAt(y, Source(f))
<1>1. Rel(f)' = Rel(f)
  BY DEF Rel
<1>2. Source(f)' = Source(f)
  BY DEF Source, Rel, Off, CodeOf
<1>3. PICK p, x : p = Source(f) /\ x = funcs[f.fn].item
  OBVIOUS
<1>4. /\ RefersAt(x, p)' <=> RefersAt(x, p)
      /\ \A y : TargetAt(y, p)' = TargetAt(y, p)
  BY WorldSame
<1>5. StandsOn(f)' <=> StandsOn(f)
  BY <1>1, <1>2, <1>3, <1>4 DEF StandsOn
<1>6. \A y : TargetAt(y, Source(f))' = TargetAt(y, Source(f))
  BY <1>2, <1>3, <1>4
<1> QED  BY <1>1, <1>5, <1>6

\* The rest of the type invariant.
LEMMA TypeIntro ==
    ASSUME TypeOK, UNCHANGED <<world, insts, funcs>>,
           frames' \in Seq([fn : Nat, at : Nat]), mirOf' \in [Items -> Nat],
           status' \in {"start", "lowering", "failing", "done", "unsupported"}
    PROVE  TypeOK'
<1>1. Items' = Items
  BY WorldSame
<1> QED  BY <1>1 DEF TypeOK, IsWorld

\* No walk goes on.
LEMMA AllStand ==
    ASSUME IInv, UNCHANGED <<world, insts, funcs, mirOf, frames>>,
           status' \in {"start", "lowering", "failing", "done", "unsupported"}
    PROVE  TypeOK' /\ TablesOK' /\ FramesOK' /\ Walks' /\ Waits' /\ MapOK' /\ Shapes'
<1>1. /\ TypeOK /\ TablesOK /\ FramesOK /\ Walks /\ Waits /\ MapOK /\ Shapes
      /\ TablesOK' /\ Shapes' /\ ItemsKept /\ \A j \in DOMAIN funcs : Keeps(j)
  BY AllKept DEF IInv
<1>2. FramesOK'
  BY <1>1 DEF FramesOK, Rel
<1>3. Walks'
  <2>1. ASSUME NEW n \in DOMAIN frames PROVE Walk(frames[n].fn, Rel(frames[n]))'
    <3>1. PICK j, v, g : g = frames[n] /\ j = g.fn /\ v = Rel(g)
      OBVIOUS
    <3>2. j \in DOMAIN funcs /\ v \in 1 .. funcs[j].len + 1 /\ Walk(j, v)
      BY <1>1, <3>1 DEF FramesOK, Walks
    <3>3. Walk(j, v)'
      BY <1>1, <3>2, WalkKept
    <3>4. frames'[n].fn = j /\ Rel(frames[n])' = v
      BY <3>1 DEF Rel
    <3> QED  BY <3>3, <3>4
  <2> QED  BY <2>1 DEF Walks
<1>4. Waits'
  <2>1. ASSUME NEW n \in 1 .. Len(frames) - 1
        PROVE  /\ StandsOn(frames[n])'
               /\ TargetAt(funcs[frames[n].fn].item, Source(frames[n]))' = funcs[frames[n + 1].fn].item
    <3>1. PICK g, y : g = frames[n] /\ y = funcs[g.fn].item
      OBVIOUS
    <3>2. StandsOn(g) /\ TargetAt(y, Source(g)) = funcs[frames[n + 1].fn].item
      BY <1>1, <3>1 DEF Waits
    <3>3. StandsOn(g)' /\ TargetAt(y, Source(g))' = TargetAt(y, Source(g))
      BY <3>2, FrameSame
    <3>4. frames'[n] = g /\ funcs'[g.fn].item = y
      BY <3>1
    <3>5. StandsOn(frames[n])' /\ TargetAt(funcs[frames[n].fn].item, Source(frames[n]))' = TargetAt(y, Source(g))
      BY <3>3, <3>4
    <3> QED  BY <3>2, <3>5
  <2> QED  BY <2>1 DEF Waits
<1>5. MapOK'
  <2> SUFFICES ASSUME NEW y \in Items, mirOf[y] # 0, NEW j, j = mirOf[y]
               PROVE  /\ j \in DOMAIN funcs /\ funcs[j].item = y
                      /\ ~Finishing(j)' => Whole(y, j)'
    BY WorldSame DEF MapOK
  <2>1. j \in DOMAIN funcs /\ funcs[j].item = y /\ (~Finishing(j) => Whole(y, j))
    BY <1>1 DEF MapOK
  <2>2. Finishing(j)' <=> Finishing(j)
    BY <1>1 DEF Finishing
  <2> QED  BY <1>1, <2>1, <2>2, WholeKept
<1>6. TypeOK'
  <2>1. frames' \in Seq([fn : Nat, at : Nat]) /\ mirOf' \in [Items -> Nat]
    BY <1>1 DEF TypeOK
  <2> QED  BY <1>1, <2>1, TypeIntro
<1> QED  BY <1>1, <1>2, <1>3, <1>4, <1>5, <1>6

\* The target is refused: the walk that named it still stands there.
LEMMA RefuseTargetKeeps == IInv /\ RefuseTarget => IInv'
<1> SUFFICES ASSUME IInv, RefuseTarget PROVE IInv'
  OBVIOUS
<1>1. /\ frames # << >> /\ Top.at <= End(Top.fn) /\ Refers(Top)
      /\ UNCHANGED <<world, insts, funcs, mirOf, frames>> /\ status' = "failing"
  BY DEF RefuseTarget, Walking, IInv, StatusOK
<1>2. PICK k, w, x, p : k = Top.fn /\ w = Rel(Top) /\ x = funcs[k].item /\ p = Source(Top)
  OBVIOUS
<1>3. w <= funcs[k].len
  BY <1>1, <1>2, InWalk
<1>4. RefersAt(x, p)
  BY <1>1, <1>2, <1>3, TopReads
<1>5. StandsOn(Top)
  BY <1>2, <1>3, <1>4 DEF StandsOn
<1>6. PICK f : f = Top
  OBVIOUS
<1>7. StandsOn(f)' /\ Top' = f
  BY <1>1, <1>5, <1>6, FrameSame DEF Top
<1>8. StandsOn(Top)'
  BY <1>1, <1>7 DEF StandsOn, Source, Rel
<1>9. StatusOK'
  BY <1>1, <1>8 DEF StatusOK
<1>10. status' \in {"start", "lowering", "failing", "done", "unsupported"}
  BY <1>1
<1> QED  BY <1>1, <1>9, <1>10, AllStand DEF IInv

LEMMA FrontFacts ==
    ASSUME NEW S, NEW s \in Seq(S), s # << >>
    PROVE  /\ Front(s) \in Seq(S) /\ Len(Front(s)) = Len(s) - 1
           /\ DOMAIN Front(s) = 1 .. Len(s) - 1
           /\ \A i \in 1 .. Len(s) - 1 : Front(s)[i] = s[i]
<1>1. PICK n \in Nat : n + 1 = Len(s)
  <2>1. Len(s) \in Nat \ {0}
    OBVIOUS
  <2>2. Len(s) - 1 \in Nat /\ (Len(s) - 1) + 1 = Len(s)
    BY <2>1
  <2> QED  BY <2>2
<1>2. Front(s) = SubSeq(s, 1, n) /\ Len(s) - 1 = n
  BY <1>1 DEF Front
<1>3. /\ SubSeq(s, 1, n) \in Seq(S) /\ Len(SubSeq(s, 1, n)) = n
      /\ \A i \in 1 .. n : SubSeq(s, 1, n)[i] = s[i]
  BY <1>1
<1>4. DOMAIN SubSeq(s, 1, n) = 1 .. n
  BY <1>3
<1> QED  BY <1>2, <1>3, <1>4

\* A walk ends, and the one that waits for it is on top again.
LEMMA Popped ==
    ASSUME IInv, UNCHANGED <<world, insts, funcs>>, frames # << >>, frames' = Front(frames),
           NEW k, k = Top.fn
    PROVE  /\ frames' \in Seq([fn : Nat, at : Nat]) /\ Len(frames') = Len(frames) - 1
           /\ \A i \in 1 .. Len(frames) - 1 : frames'[i] = frames[i]
           /\ FramesOK' /\ Walks' /\ Waits'
           /\ \A j : j # k => (Finishing(j)' <=> Finishing(j))
           /\ ~Finishing(k)'
<1>1. /\ TypeOK /\ TablesOK /\ FramesOK /\ Walks /\ Waits
      /\ ItemsKept /\ \A j \in DOMAIN funcs : Keeps(j)
  BY AllKept DEF IInv
<1>2. PICK m : m = Len(frames)
  OBVIOUS
<1>3. /\ m \in DOMAIN frames /\ Top = frames[m] /\ m \in Nat \ {0} /\ DOMAIN frames = 1 .. m
      /\ k \in DOMAIN funcs
      /\ \A i \in 1 .. m - 1 : frames[i].fn # k /\ i \in DOMAIN frames
      /\ frames \in Seq([fn : Nat, at : Nat])
  BY <1>1, <1>2, TopFacts, FramesFacts
<1>4. /\ frames' \in Seq([fn : Nat, at : Nat]) /\ Len(frames') = m - 1
      /\ DOMAIN frames' = 1 .. m - 1
      /\ \A i \in 1 .. m - 1 : frames'[i] = frames[i]
  BY <1>2, <1>3, FrontFacts
<1>5. ASSUME NEW i \in 1 .. m - 1
      PROVE  /\ frames[i].fn \in DOMAIN funcs
             /\ Rel(frames[i]) \in 1 .. funcs[frames[i].fn].len + 1
             /\ Walk(frames[i].fn, Rel(frames[i]))
             /\ frames'[i] = frames[i]
  BY <1>1, <1>3, <1>4 DEF FramesOK, Walks
<1>6. FramesOK'
  <2>1. ASSUME NEW i \in 1 .. m - 1
        PROVE  /\ frames'[i].fn \in DOMAIN funcs'
               /\ Rel(frames[i])' \in 1 .. funcs'[frames'[i].fn].len + 1
    BY <1>5 DEF Rel
  <2>2. ASSUME NEW i \in 1 .. m - 1, NEW j \in 1 .. i - 1
        PROVE  frames'[j].fn < frames'[i].fn
    <3>1. j \in 1 .. m - 1 /\ i \in DOMAIN frames
      BY <1>3
    <3>2. frames[j].fn < frames[i].fn
      BY <1>1, <3>1 DEF FramesOK
    <3> QED  BY <1>4, <3>1, <3>2
  <2> QED  BY <1>4, <2>1, <2>2 DEF FramesOK
<1>7. Walks'
  <2>1. ASSUME NEW i \in 1 .. m - 1 PROVE Walk(frames[i].fn, Rel(frames[i]))'
    <3>1. PICK j, v, g : g = frames[i] /\ j = g.fn /\ v = Rel(g)
      OBVIOUS
    <3>2. Walk(j, v)'
      BY <1>1, <1>5, <3>1, WalkKept
    <3>3. frames'[i].fn = j /\ Rel(frames[i])' = v
      BY <1>5, <3>1 DEF Rel
    <3> QED  BY <3>2, <3>3
  <2> QED  BY <1>4, <2>1 DEF Walks
<1>8. Waits'
  <2>1. ASSUME NEW i \in 1 .. (m - 1) - 1
        PROVE  /\ StandsOn(frames[i])'
               /\ TargetAt(funcs[frames[i].fn].item, Source(frames[i]))'
                    = funcs'[frames'[i + 1].fn].item
    <3>1. PICK g, y : g = frames[i] /\ y = funcs[g.fn].item
      OBVIOUS
    <3>2. i \in 1 .. m - 1 /\ i + 1 \in 1 .. m - 1
      BY <1>3
    <3>3. StandsOn(g) /\ TargetAt(y, Source(g)) = funcs[frames[i + 1].fn].item
      BY <1>1, <1>2, <3>1, <3>2 DEF Waits
    <3>4. StandsOn(g)' /\ TargetAt(y, Source(g))' = TargetAt(y, Source(g))
      BY <3>3, FrameSame
    <3>5. frames'[i] = g /\ funcs'[g.fn].item = y /\ frames'[i + 1] = frames[i + 1]
      BY <1>4, <3>1, <3>2
    <3>6. StandsOn(frames[i])' /\ TargetAt(funcs[frames[i].fn].item, Source(frames[i]))' = TargetAt(y, Source(g))
      BY <3>4, <3>5
    <3> QED  BY <3>3, <3>5, <3>6
  <2> QED  BY <1>4, <2>1 DEF Waits
<1>9. \A j : j # k => (Finishing(j)' <=> Finishing(j))
  <2> SUFFICES ASSUME NEW j, j # k PROVE Finishing(j)' <=> Finishing(j)
    OBVIOUS
  <2>1. ASSUME Finishing(j) PROVE Finishing(j)'
    <3>1. PICK i \in DOMAIN frames : frames[i].fn = j
      BY <2>1 DEF Finishing
    <3>2. i \in 1 .. m - 1
      BY <1>3, <3>1
    <3> QED  BY <1>4, <3>1, <3>2 DEF Finishing
  <2>2. ASSUME Finishing(j)' PROVE Finishing(j)
    <3>1. PICK i \in DOMAIN frames' : frames'[i].fn = j
      BY <2>2 DEF Finishing
    <3> QED  BY <1>3, <1>4, <3>1 DEF Finishing
  <2> QED  BY <2>1, <2>2
<1>10. ~Finishing(k)'
  BY <1>3, <1>4 DEF Finishing
<1> QED  BY <1>2, <1>4, <1>6, <1>7, <1>8, <1>9, <1>10

\* What the map says of the functions, when a walk has ended.
LEMMA PoppedMap ==
    ASSUME IInv, UNCHANGED <<world, insts, funcs>>, frames # << >>, frames' = Front(frames),
           NEW x \in Items, NEW j, j = mirOf[x], j # 0, j = Top.fn => Whole(x, j)
    PROVE  j \in DOMAIN funcs /\ funcs[j].item = x /\ (~Finishing(j)' => Whole(x, j)')
<1>1. /\ TypeOK /\ TablesOK /\ MapOK /\ ItemsKept /\ \A i \in DOMAIN funcs : Keeps(i)
  BY AllKept DEF IInv
<1>2. j \in DOMAIN funcs /\ funcs[j].item = x /\ (~Finishing(j) => Whole(x, j))
  BY <1>1 DEF MapOK
<1>3. ASSUME ~Finishing(j)' PROVE Whole(x, j)
  <2>1. CASE j = Top.fn
    BY <2>1
  <2>2. CASE j # Top.fn
    <3>1. Finishing(j)' <=> Finishing(j)
      BY <2>2, Popped
    <3> QED  BY <1>2, <1>3, <3>1
  <2> QED  BY <2>1, <2>2
<1> QED  BY <1>1, <1>2, <1>3, WholeKept

LEMMA FinishItemKeeps == IInv /\ FinishItem => IInv'
<1> SUFFICES ASSUME IInv, FinishItem PROVE IInv'
  OBVIOUS
<1>1. /\ frames # << >> /\ Top.at > End(Top.fn) /\ UNCHANGED <<world, insts, funcs>>
      /\ mirOf' = mirOf /\ frames' = Front(frames)
      /\ status' = IF Len(frames) = 1 THEN "done" ELSE "lowering"
  BY DEF FinishItem, IInv, StatusOK
<1>2. PICK k, w : k = Top.fn /\ w = Rel(Top)
  OBVIOUS
<1>3. /\ TypeOK /\ TablesOK /\ FramesOK /\ Walks
      /\ TablesOK' /\ Shapes' /\ Items' = Items
  BY <1>1, AllKept, WorldSame DEF IInv
<1>4. /\ Len(frames) \in DOMAIN frames /\ Top = frames[Len(frames)] /\ Len(frames) \in Nat \ {0}
      /\ k \in DOMAIN funcs
  BY <1>1, <1>2, <1>3, TopFacts
<1>5. w = funcs[k].len + 1 /\ Walk(k, w)
  BY <1>1, <1>2, <1>3, <1>4, InWalk DEF Walks
<1>6. \A x \in Items : x = funcs[k].item => Whole(x, k)
  BY <1>3, <1>4, <1>5, WholeFromWalk
<1>7. /\ frames' \in Seq([fn : Nat, at : Nat]) /\ Len(frames') = Len(frames) - 1
      /\ FramesOK' /\ Walks' /\ Waits'
  BY <1>1, Popped
<1>8. MapOK'
  <2> SUFFICES ASSUME NEW x \in Items, mirOf[x] # 0, NEW j, j = mirOf[x]
               PROVE  j \in DOMAIN funcs /\ funcs[j].item = x /\ (~Finishing(j)' => Whole(x, j)')
    BY <1>1, <1>3 DEF MapOK
  <2>1. funcs[j].item = x
    BY MapFacts
  <2>2. j = Top.fn => Whole(x, j)
    BY <1>2, <1>6, <2>1
  <2> QED  BY <1>1, <2>2, PoppedMap
<1>9. TypeOK'
  <2>1. mirOf' \in [Items -> Nat]
    BY <1>1, <1>3 DEF TypeOK
  <2> QED  BY <1>1, <1>3, <1>7, <2>1, TypeIntro
<1>10. StatusOK'
  <2>1. Len(frames) # 1 => frames' # << >>
    BY <1>4, <1>7
  <2> QED  BY <1>1, <2>1 DEF StatusOK
<1> QED  BY <1>3, <1>7, <1>8, <1>9, <1>10 DEF IInv

LEMMA FailItemKeeps == IInv /\ FailItem => IInv'
<1> SUFFICES ASSUME IInv, FailItem PROVE IInv'
  OBVIOUS
<1>1. /\ frames # << >> /\ UNCHANGED <<world, insts, funcs>>
      /\ frames' = Front(frames)
      /\ status' = IF Len(frames) = 1 THEN "unsupported" ELSE "failing"
  BY DEF FailItem, IInv, StatusOK
<1>2. PICK k, y : k = Top.fn /\ y = funcs[k].item
  OBVIOUS
<1>3. /\ TypeOK /\ TablesOK /\ FramesOK /\ Waits
      /\ TablesOK' /\ Shapes' /\ Items' = Items
  BY <1>1, AllKept, WorldSame DEF IInv
<1>4. PICK m : m = Len(frames)
  OBVIOUS
<1>5. m \in Nat \ {0} /\ k \in DOMAIN funcs
  BY <1>1, <1>2, <1>3, <1>4, TopFacts
<1>6. /\ frames' \in Seq([fn : Nat, at : Nat]) /\ Len(frames') = m - 1
      /\ \A i \in 1 .. m - 1 : frames'[i] = frames[i]
      /\ FramesOK' /\ Walks' /\ Waits'
  BY <1>1, <1>4, Popped
<1>7. mirOf \in [Items -> Nat] /\ y \in Items
  <2>1. mirOf \in [Items -> Nat]
    BY <1>3 DEF TypeOK
  <2>2. y \in Items
    BY <1>2, <1>3, <1>5, AtFacts
  <2> QED  BY <2>1, <2>2
<1>8. mirOf' = [mirOf EXCEPT ![y] = 0]
  BY <1>2 DEF FailItem, Forget
<1>9. MapOK'
  <2> SUFFICES ASSUME NEW x \in Items, mirOf'[x] # 0, NEW j, j = mirOf'[x]
               PROVE  j \in DOMAIN funcs /\ funcs[j].item = x /\ (~Finishing(j)' => Whole(x, j)')
    BY <1>1, <1>3 DEF MapOK
  <2>1. x # y /\ mirOf[x] = j
    BY <1>7, <1>8
  <2>2. funcs[j].item = x
    BY <2>1, MapFacts
  <2>3. j # Top.fn
    BY <1>2, <2>1, <2>2
  <2> QED  BY <1>1, <2>1, <2>3, PoppedMap
<1>10. TypeOK'
  <2>1. mirOf' \in [Items -> Nat]
    BY <1>7, <1>8
  <2> QED  BY <1>1, <1>3, <1>6, <2>1, TypeIntro
<1>11. StatusOK'
  <2>1. CASE m = 1
    BY <1>1, <1>4, <2>1 DEF StatusOK
  <2>2. CASE m # 1
    <3>1. m - 1 \in 1 .. m - 1 /\ frames' # << >>
      BY <1>5, <1>6, <2>2
    <3>2. PICK f : f = frames[m - 1]
      OBVIOUS
    <3>3. StandsOn(f)
      BY <1>3, <1>4, <3>1, <3>2 DEF Waits
    <3>4. StandsOn(f)'
      BY <1>1, <3>3, FrameSame
    <3>5. Top' = f
      BY <1>6, <3>1, <3>2 DEF Top, Last
    <3>6. StandsOn(Top)'
      BY <3>4, <3>5 DEF StandsOn, Source, Rel
    <3> QED  BY <1>1, <3>1, <3>6, <1>4, <2>2 DEF StatusOK
  <2> QED  BY <2>1, <2>2
<1> QED  BY <1>3, <1>6, <1>9, <1>10, <1>11 DEF IInv

\* An item is lowered for a walk that names it, or as the first.
LEMMA Lowered ==
    ASSUME IInv, NEW x \in Items, NEW recorded \in BOOLEAN, LowerItem(x, recorded),
           frames # << >> =>
              StandsOn(Top) /\ TargetAt(funcs[Top.fn].item, Source(Top)) = x
    PROVE  IInv'
<1>0. /\ TypeOK /\ TablesOK /\ FramesOK /\ Walks /\ Waits /\ MapOK /\ Shapes
      /\ world' = world /\ status' = "lowering" /\ AppendFunction(x)
  BY DEF IInv, LowerItem
<1>1. PICK new, m, n : new = Len(funcs) + 1 /\ m = Len(frames) /\ n = Len(world.code[x])
  OBVIOUS
<1>2. /\ insts' \in Seq(InstRec) /\ funcs' \in Seq([item : Items, start : Nat, len : Nat])
      /\ DOMAIN funcs' = 1 .. new /\ DOMAIN funcs = 1 .. Len(funcs) /\ Len(funcs) \in Nat
      /\ funcs'[new] = [item |-> x, start |-> Len(insts), len |-> n]
      /\ \A j \in DOMAIN funcs : funcs'[j] = funcs[j] /\ Keeps(j)
      /\ \A q \in 1 .. n : At(new, q)' = From(world.code[x][q], <<new, q>>)
      /\ ItemsKept /\ TablesOK'
  BY <1>0, <1>1, Appended
<1>3. /\ new \in Nat \ {0} /\ new \in DOMAIN funcs' /\ new \notin DOMAIN funcs
      /\ \A j \in DOMAIN funcs' : j = new \/ j \in DOMAIN funcs
      /\ \A j \in DOMAIN funcs : j < new
  BY <1>1, <1>2
<1>4. /\ funcs'[new].item = x /\ funcs'[new].start = Len(insts) /\ funcs'[new].len = n
      /\ Len(insts) \in Nat /\ n \in Nat \ {0}
  <2>1. Len(insts) \in Nat
    BY <1>0 DEF TypeOK
  <2>2. IsWorld(world)
    BY <1>0 DEF TypeOK
  <2> QED  BY <1>1, <1>2, <2>1, <2>2, CodeFacts
<1>5. Walk(new, 1)' /\ Shape(new)'
  BY <1>0, <1>1, <1>2, <1>4, NewFunction
<1>6. PICK e : e = [fn |-> new, at |-> Len(insts) + 1]
  OBVIOUS
<1>7. e \in [fn : Nat, at : Nat] /\ e.fn = new /\ e.at = Len(insts) + 1
  BY <1>3, <1>4, <1>6
<1>8. /\ frames' \in Seq([fn : Nat, at : Nat]) /\ Len(frames') = m + 1
      /\ DOMAIN frames' = 1 .. m + 1 /\ DOMAIN frames = 1 .. m /\ m \in Nat
      /\ \A i \in 1 .. m : frames'[i] = frames[i]
      /\ frames'[m + 1] = e
  <2>1. frames' = Append(frames, e)
    BY <1>1, <1>6 DEF LowerItem
  <2>2. frames \in Seq([fn : Nat, at : Nat]) /\ DOMAIN frames = 1 .. m /\ m \in Nat
    BY <1>0, <1>1, FramesFacts
  <2> QED  BY <1>1, <1>7, <2>1, <2>2, AppendFacts
<1>9. Rel(e)' = 1
  <2>1. Rel(e)' = e.at - funcs'[e.fn].start
    BY DEF Rel
  <2> QED  BY <1>4, <1>7, <2>1
<1>10. ASSUME NEW i \in 1 .. m
       PROVE  /\ frames'[i] = frames[i] /\ frames[i].fn \in DOMAIN funcs
              /\ Keeps(frames[i].fn) /\ funcs'[frames[i].fn] = funcs[frames[i].fn]
              /\ Rel(frames[i]) \in 1 .. funcs[frames[i].fn].len + 1
              /\ Walk(frames[i].fn, Rel(frames[i]))
  BY <1>0, <1>2, <1>8 DEF FramesOK, Walks
<1>11. \A j : j # new => (Finishing(j)' <=> Finishing(j))
  <2> SUFFICES ASSUME NEW j, j # new PROVE Finishing(j)' <=> Finishing(j)
    OBVIOUS
  <2>1. ASSUME Finishing(j) PROVE Finishing(j)'
    <3>1. PICK i \in 1 .. m : frames[i].fn = j
      BY <1>8, <2>1 DEF Finishing
    <3>2. i \in DOMAIN frames' /\ frames'[i].fn = j
      BY <1>8, <3>1
    <3> QED  BY <3>2 DEF Finishing
  <2>2. ASSUME Finishing(j)' PROVE Finishing(j)
    <3>1. PICK i \in 1 .. m + 1 : frames'[i].fn = j
      BY <1>8, <2>2 DEF Finishing
    <3>2. i \in 1 .. m
      <4>1. i # m + 1
        BY <1>7, <1>8, <3>1
      <4> QED  BY <1>8, <4>1
    <3> QED  BY <1>8, <3>1, <3>2 DEF Finishing
  <2> QED  BY <2>1, <2>2
<1>12. Finishing(new)'
  <2>1. m + 1 \in DOMAIN frames' /\ frames'[m + 1].fn = new
    BY <1>7, <1>8
  <2> QED  BY <2>1 DEF Finishing
<1>13. mirOf' \in [Items -> Nat] /\ \A y \in Items : mirOf'[y] = mirOf[y] \/ (y = x /\ mirOf'[y] = new)
  <2>1. mirOf \in [Items -> Nat]
    BY <1>0 DEF TypeOK
  <2>2. mirOf' = IF recorded THEN [mirOf EXCEPT ![x] = new] ELSE mirOf
    BY <1>1 DEF LowerItem
  <2>3. CASE recorded
    BY <1>3, <2>1, <2>2, <2>3
  <2>4. CASE ~recorded
    BY <2>1, <2>2, <2>4
  <2> QED  BY <2>3, <2>4
<1>14. TypeOK'
  <2>1. Items' = Items
    BY <1>0, WorldSame
  <2>2. IsWorld(world)'
    BY <1>0 DEF TypeOK, IsWorld
  <2> QED  BY <1>0, <1>2, <1>8, <1>13, <2>1, <2>2 DEF TypeOK
<1>15. FramesOK'
  <2>1. ASSUME NEW i \in 1 .. m + 1
        PROVE  frames'[i].fn \in DOMAIN funcs' /\ Rel(frames[i])' \in 1 .. funcs'[frames'[i].fn].len + 1
    <3>1. CASE i \in 1 .. m
      <4>1. PICK f : f = frames[i]
        OBVIOUS
      <4>2. frames'[i] = f /\ f.fn \in DOMAIN funcs /\ funcs'[f.fn] = funcs[f.fn]
            /\ Rel(f) \in 1 .. funcs[f.fn].len + 1
        BY <1>10, <3>1, <4>1
      <4>3. Rel(frames[i])' = Rel(f)
        BY <4>2 DEF Rel
      <4>4. frames'[i].fn = f.fn /\ funcs'[f.fn].len = funcs[f.fn].len
        BY <4>2
      <4>5. f.fn \in DOMAIN funcs'
        <5>1. DOMAIN funcs \subseteq DOMAIN funcs'
          BY <1>2 DEF ItemsKept
        <5> QED  BY <4>2, <5>1
      <4>6. Rel(frames[i])' \in 1 .. funcs'[f.fn].len + 1
        BY ONLY <4>2, <4>3, <4>4
      <4> QED  BY ONLY <4>4, <4>5, <4>6
    <3>2. CASE i = m + 1
      <4>1. frames'[i] = e
        BY <1>8, <3>2
      <4>2. Rel(frames[i])' = 1
        BY <1>9, <4>1 DEF Rel
      <4> QED  BY <1>3, <1>4, <1>7, <4>1, <4>2
    <3> QED  BY <1>8, <3>1, <3>2
  <2>2. ASSUME NEW i \in 1 .. m + 1, NEW j \in 1 .. i - 1
        PROVE  frames'[j].fn < frames'[i].fn
    <3>1. j \in 1 .. m
      BY <1>8
    <3>2. CASE i \in 1 .. m
      <4>1. i \in DOMAIN frames
        BY <1>8, <3>2
      <4>2. frames[j].fn < frames[i].fn
        BY <1>0, <4>1 DEF FramesOK
      <4> QED  BY <1>8, <3>1, <3>2, <4>2
    <3>3. CASE i = m + 1
      <4>1. frames'[j].fn \in DOMAIN funcs
        BY <1>10, <3>1
      <4> QED  BY <1>3, <1>7, <1>8, <3>3, <4>1
    <3> QED  BY <1>8, <3>2, <3>3
  <2> QED  BY <1>8, <2>1, <2>2 DEF FramesOK
<1>16. Walks'
  <2>1. ASSUME NEW i \in 1 .. m + 1 PROVE Walk(frames[i].fn, Rel(frames[i]))'
    <3>1. CASE i \in 1 .. m
      <4>1. PICK f, j, v : f = frames[i] /\ j = f.fn /\ v = Rel(f)
        OBVIOUS
      <4>2. /\ frames'[i] = f /\ j \in DOMAIN funcs /\ Keeps(j) /\ funcs'[j] = funcs[j]
            /\ v \in 1 .. funcs[j].len + 1 /\ Walk(j, v)
        BY <1>10, <3>1, <4>1
      <4>3. Walk(j, v)'
        BY <1>0, <1>2, <4>2, WalkKept
      <4>4. Rel(frames[i])' = v /\ frames'[i].fn = j
        BY <4>1, <4>2 DEF Rel
      <4> QED  BY <4>3, <4>4
    <3>2. CASE i = m + 1
      <4>1. frames'[i] = e
        BY <1>8, <3>2
      <4>2. Rel(frames[i])' = 1 /\ frames'[i].fn = new
        BY <1>7, <1>9, <4>1 DEF Rel
      <4> QED  BY <1>5, <4>2
    <3> QED  BY <1>8, <3>1, <3>2
  <2> QED  BY <1>8, <2>1 DEF Walks
<1>17. Waits'
  <2>1. ASSUME NEW i \in 1 .. m
        PROVE  /\ StandsOn(frames[i])'
               /\ TargetAt(funcs[frames[i].fn].item, Source(frames[i]))'
                    = funcs'[frames'[i + 1].fn].item
    <3>1. PICK f, j : f = frames[i] /\ j = f.fn
      OBVIOUS
    <3>2. /\ frames'[i] = f /\ j \in DOMAIN funcs /\ Keeps(j) /\ funcs'[j] = funcs[j]
      BY <1>10, <3>1
    <3>3. /\ StandsOn(f)' <=> StandsOn(f)
          /\ TargetAt(funcs[j].item, Source(f))' = TargetAt(funcs[j].item, Source(f))
      BY <1>2, <3>1, <3>2, RelKept
    <3>4. StandsOn(f) /\ TargetAt(funcs[j].item, Source(f)) = funcs'[frames'[i + 1].fn].item
      <4>1. CASE i = m
        <5>1. frames # << >> /\ Top = f
          BY <1>1, <1>8, <3>1, <4>1 DEF Top, Last
        <5>2. frames'[i + 1].fn = new
          BY <1>7, <1>8, <4>1
        <5> QED  BY <1>4, <3>1, <5>1, <5>2
      <4>2. CASE i \in 1 .. m - 1
        <5>1. StandsOn(f) /\ TargetAt(funcs[j].item, Source(f)) = funcs[frames[i + 1].fn].item
          BY <1>0, <1>1, <3>1, <4>2 DEF Waits
        <5>2. i + 1 \in 1 .. m
          BY <1>8, <4>2
        <5>3. frames'[i + 1] = frames[i + 1] /\ funcs'[frames[i + 1].fn] = funcs[frames[i + 1].fn]
          BY <1>10, <5>2
        <5> QED  BY <5>1, <5>3
      <4>3. i = m \/ i \in 1 .. m - 1
        BY <1>8
      <4> QED  BY <4>1, <4>2, <4>3
    <3>5. frames'[i].fn = j
      BY <3>1, <3>2
    <3>6. StandsOn(frames[i])' <=> StandsOn(f)'
      BY <3>1, <3>2
    <3>7. TargetAt(funcs[frames[i].fn].item, Source(frames[i]))' = TargetAt(funcs[j].item, Source(f))'
      BY <3>1, <3>2
    <3> QED  BY <3>3, <3>4, <3>6, <3>7
  <2>2. (m + 1) - 1 = m
    BY <1>8
  <2> QED  BY <1>8, <2>1, <2>2 DEF Waits
<1>18. MapOK'
  <2> SUFFICES ASSUME NEW y \in Items, mirOf'[y] # 0, NEW j, j = mirOf'[y]
               PROVE  /\ j \in DOMAIN funcs' /\ funcs'[j].item = y
                      /\ ~Finishing(j)' => Whole(y, j)'
    BY <1>0, WorldSame DEF MapOK
  <2>1. CASE j = new /\ y = x
    BY <1>3, <1>4, <1>12, <2>1
  <2>2. CASE mirOf[y] = j
    <3>1. j \in DOMAIN funcs /\ funcs[j].item = y /\ (~Finishing(j) => Whole(y, j))
      BY <1>0, <2>2 DEF MapOK
    <3>2. funcs'[j].item = y /\ Keeps(j) /\ j # new /\ j \in DOMAIN funcs'
      BY <1>2, <1>3, <3>1 DEF ItemsKept
    <3>3. ASSUME ~Finishing(j)' PROVE Whole(y, j)'
      <4>1. Whole(y, j)
        BY <1>11, <3>1, <3>2, <3>3
      <4> QED  BY <1>0, <1>2, <3>1, <3>2, <4>1, WholeKept
    <3> QED  BY <3>1, <3>2, <3>3
  <2> QED  BY <1>13, <2>1, <2>2
<1>19. Shapes'
  <2>1. ASSUME NEW j \in DOMAIN funcs' PROVE Shape(j)'
    <3>1. CASE j = new
      BY <1>5, <3>1
    <3>2. CASE j \in DOMAIN funcs
      BY <1>0, <1>2, <3>2, ShapeKept DEF Shapes
    <3> QED  BY <1>3, <3>1, <3>2
  <2> QED  BY <2>1 DEF Shapes
<1>20. StatusOK'
  <2>1. frames' # << >>
    BY <1>8
  <2> QED  BY <1>0, <2>1 DEF StatusOK
<1> QED  BY <1>2, <1>14, <1>15, <1>16, <1>17, <1>18, <1>19, <1>20 DEF IInv

LEMMA BeginKeeps == IInv /\ Begin => IInv'
<1> SUFFICES ASSUME IInv, Begin PROVE IInv'
  OBVIOUS
<1>1. frames = << >> /\ status = "start" /\ IsWorld(world)
  BY DEF Begin, IInv, StatusOK, TypeOK
<1>2. CASE world.root \in world.refused
  <2>1. /\ UNCHANGED <<world, insts, funcs, mirOf, frames>> /\ status' = "unsupported"
        /\ UNCHANGED <<world, insts, funcs>>
    BY <1>2 DEF Begin
  <2>2. StatusOK'
    BY <2>1 DEF StatusOK
  <2>3. status' \in {"start", "lowering", "failing", "done", "unsupported"}
    BY <2>1
  <2> QED  BY <2>1, <2>2, <2>3, AllStand DEF IInv
<1>3. CASE world.root \notin world.refused
  <2>1. PICK x, r : x = world.root /\ r = (world.root \in Functions)
    OBVIOUS
  <2>2. x \in Items /\ r \in BOOLEAN
    BY <1>1, <2>1, NamesFacts
  <2>3. LowerItem(x, r)
    BY <1>3, <2>1 DEF Begin
  <2> QED  BY <1>1, <2>2, <2>3, Lowered
<1> QED  BY <1>2, <1>3

LEMMA LowerTargetKeeps == IInv /\ LowerTarget => IInv'
<1> SUFFICES ASSUME IInv, LowerTarget PROVE IInv'
  OBVIOUS
<1>1. /\ frames # << >> /\ Top.at <= End(Top.fn) /\ Refers(Top)
      /\ LowerItem(Target(Top), TRUE)
  BY DEF LowerTarget, Walking, IInv, StatusOK
<1>2. PICK k, w, x, p, t : /\ k = Top.fn /\ w = Rel(Top) /\ x = funcs[k].item /\ p = Source(Top)
                           /\ t = Target(Top)
  OBVIOUS
<1>3. w <= funcs[k].len
  BY <1>1, <1>2, InWalk
<1>4. RefersAt(x, p) /\ p \in Nat
  BY <1>1, <1>2, <1>3, TopReads
<1>5. t = TargetAt(x, p)
  BY <1>1, <1>2, <1>3, <1>4, TopTarget
<1>6. t \in Items
  BY <1>4, <1>5, TargetIsItem DEF IInv, TypeOK
<1>7. StandsOn(Top)
  BY <1>2, <1>3, <1>4 DEF StandsOn
<1>8. PICK r \in BOOLEAN : r = TRUE
  OBVIOUS
<1>9. LowerItem(t, r)
  BY <1>1, <1>2, <1>8
<1>10. TargetAt(funcs[Top.fn].item, Source(Top)) = t
  BY <1>2, <1>5
<1> QED  BY <1>6, <1>7, <1>9, <1>10, Lowered

\* Nothing happens.
LEMMA StutterKeeps == IInv /\ UNCHANGED vars => IInv'
<1> SUFFICES ASSUME IInv, UNCHANGED vars PROVE IInv'
  OBVIOUS
<1>1. UNCHANGED <<world, insts, funcs, mirOf, frames>> /\ status' = status
  BY DEF vars
<1>2. status' \in {"start", "lowering", "failing", "done", "unsupported"}
  BY <1>1 DEF IInv, TypeOK
<1>3. PICK f : f = Top
  OBVIOUS
<1>4. StandsOn(f)' <=> StandsOn(f)
  BY <1>1, FrameSame
<1>5. Top' = f
  BY <1>1, <1>3 DEF Top
<1>6. StandsOn(Top)' <=> StandsOn(Top)
  BY <1>3, <1>4, <1>5 DEF StandsOn, Source, Rel
<1>7. Items' = Items
  BY <1>1, WorldSame
<1>8. StatusOK'
  BY <1>1, <1>6, <1>7 DEF IInv, StatusOK
<1> QED  BY <1>1, <1>2, <1>8, AllStand DEF IInv

LEMMA InitFits == Init => IInv
<1> SUFFICES ASSUME Init PROVE IInv
  OBVIOUS
<1>1. /\ IsWorld(world) /\ insts = << >> /\ funcs = << >> /\ frames = << >>
      /\ mirOf = [x \in Items |-> 0] /\ status = "start"
  BY WorldsAssumption DEF Init
<1>2. TypeOK
  BY <1>1 DEF TypeOK
<1>3. TablesOK /\ FramesOK /\ Walks /\ Waits /\ MapOK /\ Shapes /\ StatusOK
  BY <1>1 DEF TablesOK, FramesOK, Walks, Waits, MapOK, Shapes, StatusOK
<1> QED  BY <1>2, <1>3 DEF IInv

LEMMA NextKeeps == IInv /\ [Next]_vars => IInv'
<1> SUFFICES ASSUME IInv, [Next]_vars PROVE IInv'
  OBVIOUS
<1>1. CASE Begin
  BY <1>1, BeginKeeps
<1>2. CASE SkipInst
  BY <1>2, SkipInstKeeps
<1>3. CASE LowerTarget
  BY <1>3, LowerTargetKeeps
<1>4. CASE RefuseTarget
  BY <1>4, RefuseTargetKeeps
<1>5. CASE KeepOptional
  BY <1>5, KeepOptionalKeeps
<1>6. CASE RewriteQualified
  BY <1>6, RewriteQualifiedKeeps
<1>7. CASE RewriteInst
  BY <1>7, RewriteInstKeeps
<1>8. CASE FinishItem
  BY <1>8, FinishItemKeeps
<1>9. CASE FailItem
  BY <1>9, FailItemKeeps
<1>10. CASE GoOnWithout
  BY <1>10, GoOnWithoutKeeps
<1>11. CASE Finished \/ UNCHANGED vars
  BY <1>11, StutterKeeps DEF Finished
<1> QED  BY <1>1, <1>2, <1>3, <1>4, <1>5, <1>6, <1>7, <1>8, <1>9, <1>10, <1>11 DEF Next

----------------------------------------------------------------------------
(***************************************************************************)
(* What holds of every assembly.                                           *)
(***************************************************************************)
\* Whatever is appended, rewritten, inserted and taken back, every function that is
\* still walked is what is meant before the place of its walk and what was lowered
\* from there on (HOPEvalMirRewriteTopInitCalls, H2MirProgramBuilderInsertInst).
THEOREM AssemblyInvariant == Spec => []IInv
<1>1. Init => IInv
  BY InitFits
<1>2. IInv /\ [Next]_vars => IInv'
  BY NextKeeps
<1> QED  BY <1>1, <1>2, PTL DEF Spec

LEMMA PlaceKept == IInv => WaitingKeepPlace
<1> SUFFICES ASSUME IInv, NEW n \in 1 .. Len(frames) - 1
             PROVE  /\ frames[n].fn < frames[n + 1].fn
                    /\ Refers(frames[n])
                    /\ Target(frames[n]) = funcs[frames[n + 1].fn].item
  BY DEF WaitingKeepPlace
<1>1. TypeOK /\ TablesOK /\ FramesOK /\ Walks /\ Waits
  BY DEF IInv
<1>2. Len(frames) \in Nat /\ DOMAIN frames = 1 .. Len(frames)
  BY <1>1, FramesFacts
<1>3. n \in DOMAIN frames /\ n + 1 \in DOMAIN frames /\ n \in 1 .. (n + 1) - 1
  BY <1>2
<1>4. frames[n].fn < frames[n + 1].fn
  BY <1>1, <1>3 DEF FramesOK
<1>5. PICK f, x, p : f = frames[n] /\ x = funcs[f.fn].item /\ p = Source(f)
  OBVIOUS
<1>6. /\ Rel(f) <= funcs[f.fn].len /\ RefersAt(x, p)
      /\ TargetAt(x, p) = funcs[frames[n + 1].fn].item
  BY <1>1, <1>5 DEF Waits, StandsOn
<1>7. Rel(frames[n]) <= funcs[frames[n].fn].len
  BY <1>5, <1>6
<1>8. /\ Refers(f) <=> RefersAt(x, p)
      /\ RefersAt(x, p) => Target(f) = TargetAt(x, p)
  BY <1>1, <1>3, <1>5, <1>7, FrameReads
<1> QED  BY <1>4, <1>5, <1>6, <1>8

\* The index an item's walk had reached when it had another lowered first is still
\* that of the instruction which names the other (HOPEvalMirLowerFunction, called
\* for the target and followed by a use of instIndex).
THEOREM WaitingKeptPlace == Spec => []WaitingKeepPlace
BY AssemblyInvariant, PlaceKept, PTL

LEMMA LandsAsMeant ==
    ASSUME IInv, NEW k \in DOMAIN funcs, NEW q \in 1 .. funcs[k].len
    PROVE  JumpLands(k, q)
<1> SUFFICES ASSUME At(k, q).op \in {"JUMP", "JUMP_IF_FALSE"}, NEW to, to = At(k, q).num + 1
             PROVE  /\ to \in 1 .. funcs[k].len
                    /\ \/ At(k, to).of = <<k, to>>
                       \/ \E r \in 1 .. to - 1 : At(k, r).of = At(k, r + 1).of
  BY DEF JumpLands
<1>1. TypeOK /\ TablesOK /\ Shape(k)
  BY DEF IInv, Shapes
<1>2. funcs[k].len \in Nat /\ At(k, q) \in InstRec
  BY <1>1, AtFacts
<1>3. At(k, q).num < funcs[k].len
  BY <1>1 DEF Shape
<1>4. to \in 1 .. funcs[k].len
  <2>1. At(k, q).num \in Nat
    BY <1>2 DEF InstRec
  <2> QED  BY <1>2, <1>3, <2>1
<1> QED  BY <1>1, <1>4 DEF Shape

LEMMA MeantWhenWhole == IInv => RewrittenAsMeant
<1> SUFFICES ASSUME IInv, NEW x \in Items, mirOf[x] # 0, ~Finishing(mirOf[x]),
                    NEW k, k = mirOf[x]
             PROVE  /\ At(k, 1).of = <<k, 1>>
                    /\ \A q \in 1 .. funcs[k].len : InOrder(x, k, q) /\ JumpLands(k, q)
  BY DEF RewrittenAsMeant
<1>1. k \in DOMAIN funcs /\ Whole(x, k)
  BY DEF IInv, MapOK
<1> QED  BY <1>1, LandsAsMeant DEF Whole

\* Each item in the map whose walk has ended has its source, whole and in order, with
\* every reference leading to a function of the item it names, and its jumps stay
\* inside it and land where they did unless the function grew before them
\* (HOPEvalMirRewriteTopInitCalls, HOPEvalMirRewriteQualifiedValueLoad).
THEOREM AssembledAsMeant == Spec => []RewrittenAsMeant
BY AssemblyInvariant, MeantWhenWhole, PTL
=============================================================================
