-------------------------- MODULE MCChangeProposal --------------------------
(* Small instances of the proposal engine for TLC: one proposal over one task   *)
(* and one seat with everything that can happen to it, or two proposals of      *)
(* updates and deletes over the same two tasks, approved at once.               *)
EXTENDS ChangeProposal

\* Which of the two.
VARIABLE part

OneProposal == CHOOSE p \in Proposals : TRUE
OneTask     == CHOOSE t \in Tasks : TRUE

OfOne == \A p \in Proposals : /\ p # OneProposal => ops[p] = <<>>
                              /\ \A i \in 1 .. Len(ops[p]) : ops[p][i].row \in Seats \cup {OneTask}

OfTwo == \A p \in Proposals : \A i \in 1 .. Len(ops[p]) : ops[p][i].kind \in {"update", "delete"}

\* The proposals are interchangeable, and so are the tasks: one proposal is staged first, and
\* for one task first.
InOrder == \A p \in Proposals \ {OneProposal} :
               /\ status[OneProposal] = "none" => ops[p] = <<>>
               /\ ops[OneProposal] # <<>> => ops[OneProposal][1].row = OneTask

MCInit ==
    /\ Init
    /\ part \in {"one", "two"}
    /\ part = "two" => \A r \in Seats : ~present[r]

MCNext ==
    /\ Next
    /\ UNCHANGED part
    /\ part = "one" => OfOne' /\ \A t \in Tasks \ {OneTask} : UNCHANGED <<present[t], updated_at[t]>>
    /\ part = "two" => OfTwo' /\ InOrder' /\ UNCHANGED <<rejecting, edits, crashes>>

MCSpec == MCInit /\ [][MCNext]_<<vars, part>> /\ ApproveFairness
=============================================================================
