---------------------------- MODULE CalleeLookup ----------------------------
(***************************************************************************)
(* How the repository map decides which symbol a call refers to            *)
(* (worker/src/scan/resolve.js).  A callee is the receiver written before  *)
(* the last dot, if any, and a name; a symbol is a definition of a name in *)
(* a file, inside a class or not.                                          *)
(***************************************************************************)
EXTENDS Naturals, FiniteSets

CONSTANTS
    None,       \* null: no receiver, no class, no target
    Self,       \* the receivers this and self
    Super,      \* the receiver super
    Chains      \* receivers that are dotted chains themselves

\* The one element of S; more than one is ambiguous and left unresolved.
Unique(S) == IF Cardinality(S) = 1 THEN CHOOSE s \in S : TRUE ELSE None

IsMethod(s) == s.class # None

\* A plain name: the only definition of the repository, else those of the calling file, else
\* those of the files it imports.
PickCallee(found, file, imports) ==
    LET local == {s \in found : s.file = file}
    IN  CASE Cardinality(found) = 1 -> Unique(found)
          [] Cardinality(found) # 1 /\ local # {} -> Unique(local)
          [] OTHER -> Unique({s \in found : s.file \in imports})

\* The receiver of a member call is usually a value of unknown type, so only methods in sight
\* are candidates, unless the whole text is the qualified name of one symbol.
PickMember(found, on, file, imports) ==
    LET methods == {s \in found : IsMethod(s)}
        exact == Unique({s \in methods : s.class = on})
    IN  CASE on = Super -> None
          [] on = Self -> Unique({s \in methods : s.file = file})
          [] on \notin {Super, Self} /\ exact # None -> exact
          [] on \in Chains /\ exact = None -> None
          [] OTHER -> Unique({s \in methods : s.file = file \/ s.file \in imports})

LookupCallee(callee, index, file, imports) ==
    LET found == {s \in index : s.name = callee.name}
    IN  IF callee.on = None THEN PickCallee(found, file, imports)
        ELSE PickMember(found, callee.on, file, imports)
=============================================================================
