---------------------------- MODULE AtomicImport ----------------------------
(***************************************************************************)
(* What an import with an approval step promises, with no connection, no   *)
(* transaction and no queue: the content of an import appears in the       *)
(* catalog in one step, whole, and only after its user has accepted it.    *)
(* It may also never appear, or be removed again with its project.         *)
(***************************************************************************)
EXTENDS Naturals

CONSTANTS Imports,  \* the imports that may be asked for
          Items     \* what a document may hold

VARIABLES wanted,   \* per import: the content asked for, {} before
          accepted, \* the imports their users have accepted
          content   \* per import: what of it the catalog holds

vars == <<wanted, accepted, content>>

Init == /\ wanted = [i \in Imports |-> {}]
        /\ accepted = {}
        /\ content = [i \in Imports |-> {}]

Request(i, W) == /\ wanted[i] = {}
                 /\ wanted' = [wanted EXCEPT ![i] = W]
                 /\ UNCHANGED <<accepted, content>>

Accept(i) == /\ accepted' = accepted \cup {i}
             /\ UNCHANGED <<wanted, content>>

Store(i) == /\ i \in accepted
            /\ content' = [content EXCEPT ![i] = wanted[i]]
            /\ UNCHANGED <<wanted, accepted>>

\* The project is deleted, with every import it holds.
Remove(S) == /\ content' = [i \in Imports |-> IF i \in S THEN {} ELSE content[i]]
             /\ UNCHANGED <<wanted, accepted>>

Next == \/ \E i \in Imports, W \in SUBSET Items : Request(i, W)
        \/ \E i \in Imports : Accept(i) \/ Store(i)
        \/ \E S \in SUBSET Imports : Remove(S)

Spec == Init /\ [][Next]_vars
=============================================================================
