---------------------------- MODULE TopicRegister ----------------------------
(***************************************************************************)
(* What JoinTopic and LeaveTopic of a name promise their callers: each     *)
(* takes effect at one moment between its call and its return, whoever     *)
(* else is calling.  member is what Publish goes by: whether the name is   *)
(* joined.  A join that returns nil found the name joined or joined it, a  *)
(* join that fails changed nothing; a leave has left the name not joined,  *)
(* also if it returns an error.  Close changes nothing.                    *)
(***************************************************************************)
CONSTANT Callers

VARIABLES
    member,   \* the name is joined
    at,       \* the call a caller is in; "joined" when its join has taken effect
    result    \* what its last call returned

Begin(c, operation) ==
    /\ at[c] = "idle" /\ at' = [at EXCEPT ![c] = operation]
    /\ UNCHANGED <<member, result>>

Answer(c, r) == at' = [at EXCEPT ![c] = "idle"] /\ result' = [result EXCEPT ![c] = r]

Join(c) ==
    /\ at[c] = "join" /\ at' = [at EXCEPT ![c] = "joined"]
    /\ ~ member /\ member' = TRUE
    /\ UNCHANGED result

\* A join that finds the name joined may be answered in the step that calls it.
JoinReturns(c) ==
    /\ at[c] = "joined" \/ (at[c] \in {"idle", "join"} /\ member)
    /\ Answer(c, "joined")
    /\ UNCHANGED member

JoinFails(c) == at[c] = "join" /\ Answer(c, "error") /\ UNCHANGED member

LeaveReturns(c) == at[c] = "leave" /\ member' = FALSE /\ Answer(c, "left")

LeaveFails(c) == at[c] = "leave" /\ member /\ member' = FALSE /\ Answer(c, "error")

CloseReturns(c) == at[c] = "close" /\ Answer(c, "closed") /\ UNCHANGED member

Init ==
    /\ member = FALSE
    /\ at = [c \in Callers |-> "idle"] /\ result = [c \in Callers |-> "none"]

Next ==
    \E c \in Callers :
        \/ \E operation \in {"join", "leave", "close"} : Begin(c, operation)
        \/ Join(c) \/ JoinReturns(c) \/ JoinFails(c)
        \/ LeaveReturns(c) \/ LeaveFails(c) \/ CloseReturns(c)

Spec == Init /\ [][Next]_<<member, at, result>>
=============================================================================
