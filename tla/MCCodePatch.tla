---------------------------- MODULE MCCodePatch ----------------------------
(***************************************************************************)
(* Two words of one VM page.  From word 10 no slot is in reach, from word  *)
(* 11 the slot 14 is; page 13 is in reach of both, page 30 of none.        *)
(***************************************************************************)
EXTENDS HKCodePatch

CONSTANTS r10, r11, s10, t11, m10

Plain == [op |-> "plain", to |-> 0]
Unhooked == [w \in Words |-> Plain]
OnePage == {Words}
KindOf ==
    [h \in Hooks |-> CASE h \in {r10, r11} -> "relocating"
                       [] h = s10 -> "static"
                       [] h = t11 -> "terminal"
                       [] h = m10 -> "memory"]
TargetOf == [h \in Hooks |-> IF h \in {r11, t11} THEN 11 ELSE 10]
SizeOf == [h \in Hooks |-> IF h = m10 THEN 2 ELSE 1]
Undo == [h \in Hooks |-> [w \in 10 .. 11 |-> Plain]]
\* Some replacements are near enough to be branched to directly.
ReplacementOf == [h \in Hooks |-> IF h \in {s10, t11} THEN 9 ELSE 90]
ForeignOnes == {[op |-> "plain", to |-> 99]}
Anything == {Plain} \cup ForeignOnes \cup {Branch(a) : a \in {9, 90} \cup Backing}
ExpectationOf ==
    [h \in Hooks |-> CASE h = s10 -> {Plain}
                       [] h = m10 -> Anything \ ForeignOnes
                       [] OTHER   -> Anything]
Together == {{r10, r11, s10}, {r11, t11, m10}, {s10, r10, m10}}
=============================================================================
