----------------------------- MODULE OpenAPTMain -----------------------------
(***************************************************************************)
(* The start-up of the server program (src/src/openapt.cpp, the Linux      *)
(* branches): main() registers the SIGINT handler, parses the arguments,   *)
(* runs check_duplicate_process, TestAll (DEBUG is true unless changed in *)
(* the source), CheckAndKillProgramOnPort(8000), and app.run() on port     *)
(* 8000.  Several copies of the program are started over time, and each   *)
(* walks this sequence concurrently with the others: one action per step, *)
(* pc[p] naming the next step of copy p.                                   *)
(*  - the /proc scan of check_duplicate_process is one atomic snapshot of  *)
(*    the live copies; readdir's order of the pids is unspecified, so the  *)
(*    kills happen in any order of the snapshot;                           *)
(*  - SIGTERM has its default action (only SIGINT has a handler).  kill() *)
(*    and the kill command return once the signal is sent: the victim is   *)
(*    signalled, runs no more of its code, is still listed in /proc and    *)
(*    keeps its port until the kernel ends it (Terminate).  A copy that    *)
(*    signals itself dies before kill() returns;                           *)
(*  - kill() of a copy that has exited since the scan fails (ESRCH);       *)
(*  - a process that is not a copy of the program may hold port 8000 from *)
(*    the start;                                                           *)
(*  - app.run() on a port that is taken fails, and main exits.             *)
(***************************************************************************)
EXTENDS Integers, Sequences, SequencesExt, FiniteSets

CONSTANTS
    Procs,      \* copies of the program, each started at most once
    Foreign,    \* another program that may listen on port 8000
    None        \* port 8000 is free

ASSUME Foreign \notin Procs /\ None \notin Procs \cup {Foreign}

Steps == {"idle", "dup", "kill", "test", "port", "run", "serving", "dead"}

VARIABLES
    pc,         \* the step each copy is at; "idle" not started, "dead" exited
    toKill,     \* the pids check_duplicate_process has still to kill
    port,       \* the process listening on port 8000, or None
    launched,   \* ghost: the copies in the order they were started
    signalled,  \* processes sent SIGTERM that the kernel has not ended yet
    kills,      \* ghost: <<killer, victim>> for every kill() that succeeded
    interrupted \* ghost: the copies a SIGINT ended

vars == <<pc, toKill, port, launched, signalled, kills, interrupted>>

Alive(q) == pc[q] \notin {"idle", "dead"}

\* Copy p moves to step next while the processes in victims exit (p among
\* them when it exits itself); an exiting listener frees port 8000.
StepAnd(p, next, victims) ==
    /\ pc' = [q \in Procs |-> IF q \in victims THEN "dead"
                              ELSE IF q = p THEN next ELSE pc[q]]
    /\ port' = IF port \in victims THEN None ELSE port

Exit(p) == StepAnd(p, "dead", {p})

-----------------------------------------------------------------------------

Init ==
    /\ pc = [q \in Procs |-> "idle"]
    /\ toKill = [q \in Procs |-> <<>>]
    /\ port \in {None, Foreign}
    /\ launched = <<>>
    /\ signalled = {}
    /\ kills = {}
    /\ interrupted = {}

\* A copy is started: registerInterruptHandler, then parse_args, where an
\* unknown option prints the help and exits.
Launch(p) ==
    /\ pc[p] = "idle"
    /\ \E known \in BOOLEAN : IF known THEN StepAnd(p, "dup", {}) ELSE Exit(p)
    /\ launched' = Append(launched, p)
    /\ UNCHANGED <<toKill, signalled, kills, interrupted>>

\* Mutant: the scan tolerates one other copy (pids.size() <= 2).
check_duplicate_processOffByOne(p) ==
    LET pids == {q \in Procs : Alive(q)} IN
    /\ pc[p] = "dup"
    /\ IF Cardinality(pids) <= 2
       THEN StepAnd(p, "test", {}) /\ UNCHANGED toKill
       ELSE /\ \E order \in SetToSeqs(pids) : toKill' = [toKill EXCEPT ![p] = order]
            /\ StepAnd(p, "kill", {})
    /\ UNCHANGED <<launched, signalled, kills, interrupted>>

\* check_duplicate_process: the pids whose /proc/<pid>/cmdline is this
\* program's argv[0], its own pid included.  One pid means no duplicate;
\* otherwise every one of them, in readdir order, is sent SIGTERM.  (An
\* opendir("/proc") failure, which exits, is not modelled.)
check_duplicate_process(p) ==
    LET pids == {q \in Procs : Alive(q)} IN
    /\ pc[p] = "dup"
    /\ IF Cardinality(pids) <= 1
       THEN StepAnd(p, "test", {}) /\ UNCHANGED toKill
       ELSE /\ \E order \in SetToSeqs(pids) : toKill' = [toKill EXCEPT ![p] = order]
            /\ StepAnd(p, "kill", {})
    /\ UNCHANGED <<launched, signalled, kills, interrupted>>

\* One iteration of the kill loop: kill(pid, SIGTERM).  The killer's own
\* pid kills it; another copy that has not exited is signalled; a pid that
\* has exited makes kill fail and the killer exit(EXIT_FAILURE).
DuplicateKill(p) ==
    LET q == Head(toKill[p])
        rest == Tail(toKill[p])
    IN /\ pc[p] = "kill"
       /\ CASE q = p ->
                 /\ Exit(p)
                 /\ kills' = kills \cup {<<p, p>>}
                 /\ UNCHANGED signalled
             [] Alive(q) ->
                 /\ StepAnd(p, IF rest = <<>> THEN "test" ELSE "kill", {})
                 /\ signalled' = signalled \cup {q}
                 /\ kills' = kills \cup {<<p, q>>}
             [] OTHER ->
                 /\ Exit(p)
                 /\ UNCHANGED <<signalled, kills>>
       /\ toKill' = [toKill EXCEPT ![p] = rest]
       /\ UNCHANGED <<launched, interrupted>>

\* LoadUrl and TestAll: an exception escaping them is caught by main,
\* which exits.
TestAll(p) ==
    /\ pc[p] = "test"
    /\ \E ok \in BOOLEAN : IF ok THEN StepAnd(p, "port", {}) ELSE Exit(p)
    /\ UNCHANGED <<toKill, launched, signalled, kills, interrupted>>

\* CheckAndKillProgramOnPort(8000): a test bind.  A free port gives true;
\* a taken one is looked up with lsof and std::system("kill <pid>") sends
\* its holder SIGTERM, and true is returned without waiting for it to
\* exit.  A failing socket(), popen, lsof or kill gives false, and main
\* calls quit().
CheckAndKillProgramOnPort(p) ==
    /\ pc[p] = "port"
    /\ \E ok \in BOOLEAN :
         IF ~ok THEN Exit(p) /\ UNCHANGED <<signalled, kills>>
         ELSE IF port = None THEN StepAnd(p, "run", {}) /\ UNCHANGED <<signalled, kills>>
         ELSE /\ StepAnd(p, "run", {})
              /\ signalled' = signalled \cup {port}
              /\ kills' = kills \cup {<<p, port>>}
    /\ UNCHANGED <<toKill, launched, interrupted>>

\* app.port(8000).run(): listens on the port if it is still free.
Run(p) ==
    /\ pc[p] = "run"
    /\ IF port = None
       THEN /\ pc' = [pc EXCEPT ![p] = "serving"]
            /\ port' = p
       ELSE Exit(p)
    /\ UNCHANGED <<toKill, launched, signalled, kills, interrupted>>

\* SIGINT: interruptHandler calls quit(), which exits.
interruptHandler(p) ==
    /\ Alive(p)
    /\ Exit(p)
    /\ interrupted' = interrupted \cup {p}
    /\ UNCHANGED <<toKill, launched, signalled, kills>>

\* The kernel ends a signalled process: a copy exits, and the listener on
\* port 8000, a copy or the foreign program, releases the port.
Terminate(q) ==
    /\ q \in signalled
    /\ signalled' = signalled \ {q}
    /\ pc' = IF q \in Procs THEN [pc EXCEPT ![q] = "dead"] ELSE pc
    /\ port' = IF port = q THEN None ELSE port
    /\ UNCHANGED <<toKill, launched, kills, interrupted>>

\* A signalled copy runs no more of its code.
Next ==
    \/ \E p \in Procs \ signalled :
        \/ Launch(p)
        \/ check_duplicate_process(p)
        \/ DuplicateKill(p)
        \/ TestAll(p)
        \/ CheckAndKillProgramOnPort(p)
        \/ Run(p)
        \/ interruptHandler(p)
    \/ \E q \in signalled : Terminate(q)

Spec == Init /\ [][Next]_vars

\* The steps of a copy's main thread, which runs whenever it is not blocked.
ProgramStep(p) ==
    \/ check_duplicate_process(p)
    \/ DuplicateKill(p)
    \/ TestAll(p)
    \/ CheckAndKillProgramOnPort(p)
    \/ Run(p)

\* Each copy's main thread keeps running, and the kernel ends a signalled
\* process.  Starting a copy and SIGINT are the user's and get no fairness.
FairSpec ==
    /\ Spec
    /\ \A p \in Procs : WF_vars(p \notin signalled /\ ProgramStep(p))
    /\ \A q \in Procs \cup {Foreign} : WF_vars(Terminate(q))

-----------------------------------------------------------------------------
(* Properties.                                                             *)

\* The position of a started copy in the start order.
StartIndex(q) == SelectInSeq(launched, LAMBDA x : x = q)

\* check_duplicate_process is meant to leave a single copy going on to
\* serve: at no time are two copies past it (testing, checking the port,
\* starting or running the server).
OnePastDuplicateCheck ==
    Cardinality({q \in Procs \ signalled : pc[q] \in {"test", "port", "run", "serving"}}) <= 1

\* The comment of check_duplicate_process: a copy that finds the program
\* already running kills the previous copy.  Every copy a kill() ends was
\* started before its killer: no copy kills itself or a newer one.
KillsOnlyPrevious ==
    \A k \in kills : k[2] \in Procs => StartIndex(k[2]) < StartIndex(k[1])

\* CheckAndKillProgramOnPort is meant to clear port 8000 for app.run():
\* a copy that has passed the port check ends up serving, unless a SIGINT
\* or another copy's kill() ends it first.
CheckedCopyServes ==
    \A p \in Procs :
        pc[p] = "run" ~> (pc[p] = "serving" \/ p \in interrupted \/ \E k \in kills : k[2] = p)

=============================================================================
