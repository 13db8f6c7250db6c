--------------------------- MODULE ManagedProcess ---------------------------
(***************************************************************************)
(* A child process in a process group of its own, and the four ways the    *)
(* harness is done with one: wait for it, shut it down, let it drop, or    *)
(* find that it ended: src/src/managed_process.rs.                         *)
(*                                                                         *)
(* The leader of a group is the process that was spawned; it may have      *)
(* children, which outlive it: a leader that ends leaves some, and if it    *)
(* had none those are gone at once.                                        *)
(* A limit of time may pass whenever it is waited for.                     *)
(***************************************************************************)

CONSTANTS
    Process,    \* the programs the harness starts
    None        \* no process

ASSUME ProcessAssumption == None \notin Process

VARIABLES
    leader,     \* the processes whose leader lives
    rest,       \* those whose leader ended and whose children live
    told,       \* the strongest signal each group was sent
    at,         \* the process the harness is busy ending
    how         \* where it is in that

procVars == <<leader, rest, told, at, how>>

Waiting == {"wait", "term", "kill"}
Resting == {"rest", "restTerm", "restKill"}
Dropping == {"dropTerm", "dropKill"}

\* group_exists: signal 0 reaches somebody.
group_exists(p) == p \in leader \cup rest

ProcTypeOK ==
    /\ leader \subseteq Process
    /\ rest \subseteq Process \ leader
    /\ told \in [Process -> {"nothing", "term", "kill"}]
    /\ \A p \in Process : told[p] # "nothing" => group_exists(p)
    /\ at \in Process \cup {None}
    /\ how \in Waiting \cup Resting \cup Dropping \cup {"idle", "ok", "failed", "dropped"}
    /\ (at = None) = (how = "idle")

ProcInit ==
    leader = {} /\ rest = {} /\ told = [p \in Process |-> "nothing"] /\ at = None /\ how = "idle"

\* ManagedProcess::spawn: nobody else is in the group.
Spawned(p) ==
    /\ leader' = leader \cup {p}
    /\ rest' = rest \ {p}
    /\ told' = [told EXCEPT ![p] = "nothing"]

\* signal_group with SIGTERM and with SIGKILL.
Term(p) == [told EXCEPT ![p] = IF @ = "kill" THEN "kill" ELSE "term"]
Kill(p) == [told EXCEPT ![p] = "kill"]

----------------------------------------------------------------------------
\* The processes themselves, which may end at any time and need not heed SIGTERM.

LeaderExits(p) ==
    /\ p \in leader
    /\ leader' = leader \ {p}
    /\ rest' = rest \cup {p}
    /\ UNCHANGED <<told, at, how>>

\* With the last of them the group is gone, and what it was told with it.
RestExits(p) ==
    /\ p \in rest
    /\ rest' = rest \ {p}
    /\ told' = [told EXCEPT ![p] = "nothing"]
    /\ UNCHANGED <<leader, at, how>>

----------------------------------------------------------------------------
\* The harness: what it does with the process it is at.

Begin(p, step) == how = "idle" /\ at' = p /\ how' = step /\ UNCHANGED <<leader, rest>>
Then(step)     == how' = step /\ UNCHANGED <<leader, rest, at>>

\* wait: with a limit, and without a signal.
BeginWait(p) == Begin(p, "wait") /\ UNCHANGED told

\* shutdown: a leader that ended is not sent anything.
BeginShutdown(p) ==
    IF p \in leader THEN Begin(p, "term") /\ told' = Term(p)
                    ELSE Begin(p, "rest") /\ UNCHANGED told

\* Drop: returns at once if nobody is left.
BeginDrop(p) ==
    IF group_exists(p) THEN Begin(p, "dropTerm") /\ told' = Term(p)
                       ELSE Begin(p, "dropped") /\ UNCHANGED told

LeaderGone ==
    /\ how \in Waiting
    /\ at \notin leader
    /\ Then("rest")
    /\ UNCHANGED told

\* Mutant of WaitExpires: a process that ignores SIGTERM is waited for without a limit.
WaitForTerm ==
    /\ how \in Waiting \ {"term"}
    /\ at \in leader
    /\ Then("failed")
    /\ UNCHANGED told

\* The limit passes with the leader still there.
WaitExpires ==
    /\ how \in Waiting
    /\ at \in leader
    /\ \/ how = "wait" /\ Then("failed") /\ UNCHANGED told
       \/ how = "term" /\ Then("kill") /\ told' = Kill(at)
       \/ how = "kill" /\ Then("failed") /\ UNCHANGED told

\* ensure_descendants_stopped: nobody is left in the group.
RestGone ==
    /\ how \in Resting
    /\ ~group_exists(at)
    /\ Then("ok")
    /\ UNCHANGED told

RestStays ==
    /\ how \in Resting
    /\ group_exists(at)
    /\ \/ how = "rest" /\ Then("restTerm") /\ told' = Term(at)
       \/ how = "restTerm" /\ Then("restKill") /\ told' = Kill(at)
       \/ how = "restKill" /\ Then("failed") /\ UNCHANGED told

DropDone ==
    /\ how \in Dropping
    /\ ~group_exists(at)
    /\ Then("dropped")
    /\ UNCHANGED told

\* Mutant of DropExpires: only the leader is killed when the time is over.
DropKillsLeader ==
    /\ how \in Dropping
    /\ group_exists(at)
    /\ \/ how = "dropTerm" /\ Then("dropKill") /\ UNCHANGED told
       \/ how = "dropKill" /\ Then("dropped") /\ UNCHANGED told

DropExpires ==
    /\ how \in Dropping
    /\ group_exists(at)
    /\ told' = Kill(at)
    /\ Then(IF how = "dropTerm" THEN "dropKill" ELSE "dropped")

Ending ==
    LeaderGone \/ WaitExpires \/ RestGone \/ RestStays \/ DropDone \/ DropExpires

\* What nobody has to fear: a group that is gone, or that will not survive.
Doomed(p) == group_exists(p) => told[p] = "kill"

=============================================================================
