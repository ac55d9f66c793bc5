----------------------------- MODULE RemoteCall -----------------------------
(* What the object broker of Termin 4 promises its users, without sockets,   *)
(* threads or numbers: a call is executed at most once, an answered call has *)
(* been executed, and whoever gives up a call never learns whether it was or *)
(* still will be executed.                                                   *)

CONSTANT Calls      \* the calls that may be made

VARIABLES
    state,          \* what the caller knows of each call
    executions      \* the calls whose method has been invoked

remoteVars == <<state, executions>>

RemoteTypeOK ==
    /\ state \in [Calls -> {"new", "open", "answered", "givenUp"}]
    /\ executions \subseteq Calls

RemoteInit ==
    /\ state = [c \in Calls |-> "new"]
    /\ executions = {}

Move(c, from, to) == state[c] = from /\ state' = [state EXCEPT ![c] = to]

Open(c) == Move(c, "new", "open") /\ UNCHANGED executions

Execute(c) ==
    /\ state[c] # "new"
    /\ c \notin executions
    /\ executions' = executions \cup {c}
    /\ UNCHANGED state

Answer(c) == c \in executions /\ Move(c, "open", "answered") /\ UNCHANGED executions

GiveUp(c) == Move(c, "open", "givenUp") /\ UNCHANGED executions

RemoteNext == \E c \in Calls : Open(c) \/ Execute(c) \/ Answer(c) \/ GiveUp(c)

RemoteSpec == RemoteInit /\ [][RemoteNext]_remoteVars
==============================================================================
