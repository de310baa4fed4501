--------------------------- MODULE MCBatchRoster ---------------------------
(***************************************************************************)
(* A small instance of BatchRoster: two spellings of one name, another name, *)
(* and the blank one that the portal's list may hold as well.                *)
(***************************************************************************)
EXTENDS BatchRoster

CONSTANTS i1, i2, i3, john, JOHN, jane

MCNorm == [w \in Written |-> IF w = john THEN JOHN ELSE w]

ById(id) == [id |-> id, name |-> None]
ByName(name) == [id |-> None, name |-> name]
Asks(entries) == [single |-> None, batch |-> entries, session |-> TRUE]

MCJobs ==
  {Asks(entries) : entries \in
     {<< >>,
      <<ById(i2), ByName(john), ByName(JOHN)>>,
      <<ByName(john), ById(i1), ById(i2)>>,
      <<ByName(jane), ById(i3), ByName(john)>>,
      <<ByName(Blank), ById(i1)>>,
      <<[id |-> i1, name |-> jane], ById(i1)>>,
      <<[id |-> Blank, name |-> john]>>,
      <<[id |-> None, name |-> None]>>}}
  \cup {[single |-> ById(i1), batch |-> None, session |-> TRUE],
        [single |-> ById(i1), batch |-> <<ById(i1)>>, session |-> TRUE],
        [single |-> None, batch |-> None, session |-> TRUE],
        [single |-> None, batch |-> <<ById(i1)>>, session |-> FALSE]}

Listed(id, name) == [id |-> id, name |-> name]

MCPortals ==
  {<<Listed(i1, JOHN), Listed(i2, jane)>>,
   <<Listed(i1, john), Listed(i2, JOHN)>>,
   <<Listed(i1, JOHN), Listed(i1, JOHN), Listed(i2, jane)>>,
   <<Listed(i1, JOHN), Listed(i2, Blank)>>}

=============================================================================
