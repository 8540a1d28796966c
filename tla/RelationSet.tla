------------------------------ MODULE RelationSet ------------------------------
(***************************************************************************)
(* What a relation promises those who use it: it is a set of rows, which an *)
(* operator changes as a whole.  TupleStore implements it.                  *)
(*                                                                          *)
(* The promise is weaker in two cases, and says by how much.  The process   *)
(* may die in the middle of an operator: what it leaves lies between the    *)
(* rows that were there and those that were to be.  And the index of the    *)
(* relation may have gone wrong: then an insertion may be refused or cost a *)
(* row, and what an update makes of a row may be missing; but no operator   *)
(* then touches a row that it was not told to, and compacting the relation  *)
(* makes all promises good again.                                           *)
(***************************************************************************)
CONSTANTS Rows,      \* the rows a relation can hold
          text,      \* the text of a row
          NoImage    \* no assignment, for an update whose set string is malformed

VARIABLES rows,      \* the relation
          open,      \* is it open?
          running,   \* the operator that has begun and not ended
          trusted    \* is the index right?

setVars == <<rows, open, running, trusted>>

Operator == [command : {"erase", "update", "compact"},
             cond    : SUBSET Rows,
             image   : [Rows -> Rows] \cup {NoImage}]

None == [command |-> "none", cond |-> {}, image |-> NoImage]

\* The rows the running operator is to leave alone, those it is to replace or
\* delete, and those an update is to put in their place.
Spared == rows \ running.cond
Chosen == rows \cap running.cond
Made   == {running.image[d] : d \in Chosen}

\* Trust is lost at any time, and found again by compacting only.
TrustNoMore == trusted' => trusted

SetInit == rows = {} /\ open = TRUE /\ running = None /\ trusted = TRUE

Open == ~open /\ open' = TRUE /\ UNCHANGED <<rows, running, trusted>>

\* Closed in an orderly way or not: no operator is running.
Close == /\ open /\ running = None
         /\ open' = FALSE
         /\ TrustNoMore
         /\ UNCHANGED <<rows, running>>

\* (An insertion that is refused changes nothing, but for the trust perhaps.)
Insert(d) == /\ open /\ running = None
             /\ TrustNoMore
             /\ \/ rows' = rows \cup {d}
                \/ ~trusted' /\ \E lost \in rows : rows' = (rows \ {lost}) \cup {d}
             /\ UNCHANGED <<open, running>>

Mistrust == open /\ trusted' = FALSE /\ UNCHANGED <<rows, open, running>>

Begin == /\ open /\ running = None
         /\ running' \in Operator
         /\ running'.command = "update" => rows # {}
         /\ UNCHANGED <<rows, open, trusted>>

End(command) == /\ running.command = command
                /\ running' = None
                /\ UNCHANGED open

EndErase == End("erase") /\ rows' = Spared /\ UNCHANGED trusted

EndUpdate == /\ End("update") /\ running.image # NoImage
             /\ Spared \subseteq rows' /\ rows' \subseteq Spared \cup Made
             /\ trusted => rows' = Spared \cup Made
             /\ UNCHANGED trusted

\* A malformed set string has cost the first row chosen, if there was one.
FailUpdate == /\ End("update") /\ running.image = NoImage
              /\ IF Chosen = {} THEN rows' = rows
                 ELSE \E d \in Chosen : /\ rows \ {d} \subseteq rows' /\ rows' \subseteq rows
                                        /\ trusted => rows' = rows \ {d}
              /\ TrustNoMore

\* Rows of one text are one row to rl_compact.
EndCompact == /\ End("compact")
              /\ trusted' = TRUE
              /\ rows' \subseteq rows
              /\ \A d \in rows : \E e \in rows' : text[e] = text[d]
              /\ \A d, e \in rows' : text[d] = text[e] => d = e
              /\ trusted => rows' = rows

\* The process dies with an operator running.  Of an update, a row is lost only
\* between the deletion of one row and the writing of what takes its place.
Die(command) == /\ running.command = command
                /\ running' = None
                /\ open' = FALSE
                /\ TrustNoMore

DieErasing == Die("erase") /\ Spared \subseteq rows' /\ rows' \subseteq rows

DieUpdating ==
    /\ Die("update")
    /\ IF running.image = NoImage THEN rows' = rows
       ELSE /\ Spared \subseteq rows' /\ rows' \subseteq rows \cup Made
            /\ trusted => \A d, e \in Chosen :
                  {d, e, running.image[d], running.image[e]} \cap rows' = {} =>
                      running.image[d] = running.image[e]

DieCompacting == Die("compact") /\ rows' = rows

SetNext == \/ Open \/ Close
           \/ \E d \in Rows : Insert(d)
           \/ Mistrust
           \/ Begin
           \/ EndErase \/ EndUpdate \/ FailUpdate \/ EndCompact
           \/ DieErasing \/ DieUpdating \/ DieCompacting

SetSpec == SetInit /\ [][SetNext]_setVars

===============================================================================
