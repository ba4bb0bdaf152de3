----------------------------- MODULE MCSpecFile -----------------------------
(* opd -d: sessions driven by a debugging specification.                   *)
EXTENDS MessageLog

Bp(at, items)   == [kind |-> "bp",    at |-> at, items |-> items]
Watched(at, v)  == [kind |-> "watch", at |-> at, items |-> <<v>>]
Item(x)         == [kind |-> "item",  at |-> "", items |-> <<x>>]
Blank           == Item("")

SpecParts  == ("f" :> <<"f">>) @@ ("g" :> <<"g">>) @@ ("g.c:10" :> <<"g", "c:10">>)
                @@ ("x" :> <<"x">>) @@ ("xy" :> <<"xy">>) @@ ("y" :> <<"y">>) @@ ("" :> <<"">>)
SpecBegins == {<<"x", "xy">>} \cup {<<"", part>> : part \in {"f", "g", "c:10", "x", "xy", "y"}}

(* A breakpoint with two expressions, one on the line of the breakpoint    *)
(* and one on its own, of which the second begins with the first; and two  *)
(* watchpoints, one of them at a line of a file.  It is read by the        *)
(* process of rank 0, which logs more.                                     *)
SpecFile      == <<Bp("f", <<"x">>), Item("xy"), Watched("g.c:10", "y"), Watched("g", "x")>>
FileFunctions == SpecFunctions(SpecFile)
FileProc      == SpecProc(SpecFile, 0)
FileEntry      == <<"opd_breakscript", "">>

(* What is asked of a specification for its changes to be read.            *)
ASSUME FileIsToldApart ==
  /\ {SpecFile[i].at : i \in DOMAIN SpecFile} \cup {"x", "xy", "y", ""} \subseteq DOMAIN Parts
  /\ ToldApart({"g.c:10", "g"})

(* The layout of the example of docs/USAGE: a blank line before the first  *)
(* @bp.                                                                    *)
UsageFile      == <<Blank, Bp("f", <<>>), Item("x")>>
UsageFunctions == SpecFunctions(UsageFile)
UsageProc      == SpecProc(UsageFile, 0)
UsageEntry     == FileEntry

(* Two breakpoints, of which gdb does not find the first.                  *)
TwoFile        == <<Bp("f", <<>>), Bp("g", <<>>)>>
TwoFunctions   == SpecFunctions(TwoFile)
TwoProc        == SpecProc(TwoFile, 0)
TwoEntry       == FileEntry
FirstUnknown   == {<<"script_bp", "f">>}
=============================================================================
