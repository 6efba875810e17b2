----------------------------- MODULE Formatter ------------------------------
(***************************************************************************)
(* `hop fmt` on a file that is being edited (hop_support.c, FormatOneFile; *)
(* os_libc.c, H2OSWriteFileAtomic): the file is read, formatted, written   *)
(* beside itself and renamed.  A file is one function: its statements and  *)
(* the text of what it returns.                                            *)
(***************************************************************************)
EXTENDS FormatBody, FormatExpr

CONSTANTS
    Statements,     \* what the programmer may write as a statement
    Returns,        \* the texts the programmer may write behind `return`
    MaxStatements   \* bound on the length of the body

VARIABLES
    file,     \* what the path names: [body, ret]
    saved,    \* the file as the programmer saved it last
    buf,      \* source, later formatted: the formatter's copy
    pc,       \* "idle" | "read" | "formatted" | "written"
    raced,    \* what the programmer saved while the formatter was at work may be lost
    written   \* the file is what the formatter wrote

vars == <<file, saved, buf, pc, raced, written>>

Empty == [body |-> <<>>, ret |-> <<"a">>]

Init ==
    /\ file = Empty /\ saved = Empty /\ buf = Empty
    /\ pc = "idle" /\ raced = FALSE /\ written = FALSE

-----------------------------------------------------------------------------
(* The programmer.                                                         *)

Save(f) ==
    /\ file' = f /\ saved' = f
    /\ raced' = (pc # "idle")
    /\ written' = FALSE
    /\ UNCHANGED <<buf, pc>>

AddStatement ==
    \E s \in Statements :
        /\ Len(file.body) < MaxStatements /\ file.ret = Empty.ret
        /\ Meaning(Append(file.body, s)).ok
        /\ Save([file EXCEPT !.body = Append(@, s)])

\* Bound: another expression is returned only by a function without statements.
EditReturn ==
    /\ file = Empty
    /\ \E r \in Returns \ {Empty.ret} : Save([file EXCEPT !.ret = r])

-----------------------------------------------------------------------------
(* The formatter.                                                          *)

FormatFile(f) ==
    [body |-> FormatBody(f.body), ret |-> FormatReturn(Parse(f.ret).t)]

ReadFile ==
    /\ pc = "idle"
    /\ buf' = file /\ pc' = "read"
    /\ UNCHANGED <<file, saved, raced, written>>

\* H2Format, and the comparison with the source.
Format ==
    /\ pc = "read" /\ Parse(buf.ret).ok
    /\ buf' = FormatFile(buf) /\ buf' # buf
    /\ pc' = "formatted"
    /\ UNCHANGED <<file, saved, raced, written>>

\* The formatter ends without having written: a syntax error, nothing to
\* change, --check, a write that failed, or a kill at any point.
Leave ==
    /\ pc # "idle"
    /\ buf' = Empty /\ pc' = "idle"
    /\ raced' = (raced /\ file # saved)
    /\ UNCHANGED <<file, saved, written>>

WriteTemporary ==
    /\ pc = "formatted"
    /\ pc' = "written"
    /\ UNCHANGED <<file, saved, buf, raced, written>>

Rename ==
    /\ pc = "written"
    /\ file' = buf /\ written' = TRUE
    /\ buf' = Empty /\ pc' = "idle"
    /\ UNCHANGED <<saved, raced>>

Next ==
    \/ AddStatement \/ EditReturn
    \/ ReadFile \/ Format \/ Leave \/ WriteTemporary \/ Rename

Spec == Init /\ [][Next]_vars

-----------------------------------------------------------------------------
(* What is checked.                                                        *)

Plain(f) ==
    /\ NamesAgree(f.body) /\ SumsTyped(f.body)
    /\ ~Collides(RewriteReturn(Parse(f.ret).t), <<>>)

\* Formatting changes neither which declaration a name refers to, nor the type
\* of a declaration, nor a conversion, nor the grouping of operators: whatever
\* moment the formatter ran at, the file means what the programmer saved last,
\* unless that was while the formatter was at work (format.c, H2Format;
\* hop_support.c:2551).
FmtKeepsMeaning ==
    (file # saved /\ ~raced /\ Plain(saved)) =>
        /\ Meaning(file.body) = Meaning(saved.body)
        /\ Parse(file.ret).ok /\ Shape(Parse(file.ret).t) = Shape(Parse(saved.ret).t)

\* Formatting what was formatted changes nothing (docs/fmt.md:11): no rewrite
\* makes room for another one, and what is written can be read again.
FmtIdempotent ==
    (written /\ ~Collides(RewriteReturn(Parse(saved.ret).t), <<>>) /\ ~raced) =>
        FormatFile(file) = file
=============================================================================
