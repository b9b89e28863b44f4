------------------------------- MODULE MCMcm -------------------------------
(***************************************************************************)
(* Mods A and B.  The XML files declare A with a category and a slider,    *)
(* and B.  A Lua script that comes and goes renames A, so that it ties     *)
(* with B in the sort, defines A's slider once more with another default,  *)
(* and adds a toggle whose value it owns and reports.                      *)
(***************************************************************************)
EXTENDS Mcm

CONSTANTS A, B, a1, a2

MCModIds == {A, B}
MCItemIds == {a1, a2}
MCPlaceholder == [m \in {A, B} |-> IF m = A THEN 0 ELSE 1]
MCOwned == {<<A, a2>>}

ItemDecl(m, kind, i, d) == [op |-> "item", mod |-> m, kind |-> kind, id |-> i, def |-> d]
MCXml ==
  <<[op |-> "mod", mod |-> A, name |-> NoName],
    ItemDecl(A, "cat", a2, 0),
    ItemDecl(A, "slider", a1, 0),
    [op |-> "mod", mod |-> B, name |-> NoName]>>
MCXmlOne == <<ItemDecl(A, "slider", a1, 0)>>
Script ==
  <<[op |-> "mod", mod |-> A, name |-> 1],
    ItemDecl(A, "slider", a1, 1),
    ItemDecl(A, "toggle", a2, 0),
    [op |-> "live", mod |-> A, id |-> a2]>>
MCCppBuilds == {<< >>}
MCLuaBuilds == {<< >>, Script}
=============================================================================
