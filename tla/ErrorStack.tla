----------------------------- MODULE ErrorStack ------------------------------
(***************************************************************************)
(* ErrorStack (src/src/atom/error/error_stack.cpp).  errorStack holds every *)
(* reported error; compressedErrorStack is rebuilt from it by              *)
(* UpdateCompressedErrors after each InsertErrorCompressed and is meant to *)
(* hold each (message, module) once with the time it last occurred, newest *)
(* first.  An error is reduced to its message, module and timestamp; the   *)
(* function, line and file fields are carried along by the code but never  *)
(* compared.  std::time(nullptr) is the variable now, advanced by Tick.    *)
(***************************************************************************)
EXTENDS Integers, Sequences, SequencesExt, FiniteSets, TLC

CONSTANTS
    Messages,   \* error messages
    Modules,    \* module names
    MaxTime,    \* bound on the wall clock
    MaxErrors,  \* bound on Len(errorStack)
    Ops         \* the member functions a run calls

ASSUME /\ MaxTime \in Nat /\ MaxErrors \in Nat
       /\ Ops \subseteq {"InsertError", "InsertErrorCompressed",
                         "SetFilteredModules", "ClearFilteredModules"}

VARIABLES
    errorStack,             \* std::vector<ErrorInfo> errorStack
    compressedErrorStack,   \* std::vector<ErrorInfo> compressedErrorStack
    filteredModules,        \* the filtered module names (only membership is read)
    now,                    \* std::time(nullptr)
    occurred,               \* ghost: the last time each (message, module) was reported
    synced                  \* ghost: the last insert rebuilt compressedErrorStack

vars == <<errorStack, compressedErrorStack, filteredModules, now, occurred, synced>>

Keys == Messages \X Modules
Never == -1

Key(e) == <<e.errorMessage, e.moduleName>>

-----------------------------------------------------------------------------

\* The ErrorInfo built by both inserts, stamped with the current time.
NewError(m, mod) == [errorMessage |-> m, moduleName |-> mod, timestamp |-> now]

\* One iteration of the loop of UpdateCompressedErrors: the first entry of
\* the compressed list with e's key takes e's timestamp, or e is appended.
CompressStep(acc, e) ==
    LET i == SelectInSeq(acc, LAMBDA c : Key(c) = Key(e))
    IN IF i > 0 THEN [acc EXCEPT ![i].timestamp = e.timestamp] ELSE Append(acc, e)

\* Mutant: the comparator of the sort swapped (oldest first).
SortCompressedErrorStackOldest(s) ==
    {t \in {[i \in DOMAIN s |-> s[p[i]]] : p \in Permutations(DOMAIN s)} :
        \A i \in 1..(Len(t) - 1) : t[i].timestamp <= t[i + 1].timestamp}

\* SortCompressedErrorStack: std::sort by timestamp, greatest first.  The
\* sort is not stable, so entries with equal timestamps may end up in any
\* order: the set of results.
SortCompressedErrorStack(s) ==
    {t \in {[i \in DOMAIN s |-> s[p[i]]] : p \in Permutations(DOMAIN s)} :
        \A i \in 1..(Len(t) - 1) : t[i].timestamp >= t[i + 1].timestamp}

\* UpdateCompressedErrors: clear, fold the whole errorStack, then sort.
UpdateCompressedErrors(stack) ==
    SortCompressedErrorStack(FoldLeft(CompressStep, <<>>, stack))

\* The ghost bookkeeping of a report of (m, mod) now.
Report(m, mod) == occurred' = [occurred EXCEPT ![<<m, mod>>] = now]

Init ==
    /\ errorStack = <<>>
    /\ compressedErrorStack = <<>>
    /\ filteredModules = {}
    /\ now = 0
    /\ occurred = [k \in Keys |-> Never]
    /\ synced = TRUE

\* InsertError: append; the compressed list is left as it was.
InsertError(m, mod) ==
    /\ Len(errorStack) < MaxErrors
    /\ errorStack' = Append(errorStack, NewError(m, mod))
    /\ Report(m, mod)
    /\ synced' = FALSE
    /\ UNCHANGED <<compressedErrorStack, filteredModules, now>>

\* InsertErrorCompressed: the first error with the same message and module
\* takes the current time, or a new error is appended; then
\* UpdateCompressedErrors.
InsertErrorCompressed(m, mod) ==
    LET i == SelectInSeq(errorStack, LAMBDA e : Key(e) = <<m, mod>>)
        stack == IF i > 0 THEN [errorStack EXCEPT ![i].timestamp = now]
                          ELSE Append(errorStack, NewError(m, mod))
    IN /\ i > 0 \/ Len(errorStack) < MaxErrors
       /\ errorStack' = stack
       /\ compressedErrorStack' \in UpdateCompressedErrors(stack)
       /\ Report(m, mod)
       /\ synced' = TRUE
       /\ UNCHANGED <<filteredModules, now>>

SetFilteredModules(ms) ==
    /\ filteredModules' = ms
    /\ UNCHANGED <<errorStack, compressedErrorStack, now, occurred, synced>>

ClearFilteredModules ==
    /\ filteredModules' = {}
    /\ UNCHANGED <<errorStack, compressedErrorStack, now, occurred, synced>>

\* The wall clock advances by a second.
Tick ==
    /\ now < MaxTime
    /\ now' = now + 1
    /\ UNCHANGED <<errorStack, compressedErrorStack, filteredModules, occurred, synced>>

Next ==
    \/ "InsertError" \in Ops /\ \E m \in Messages, mod \in Modules : InsertError(m, mod)
    \/ "InsertErrorCompressed" \in Ops /\ \E m \in Messages, mod \in Modules : InsertErrorCompressed(m, mod)
    \/ "SetFilteredModules" \in Ops /\ \E ms \in SUBSET Modules : SetFilteredModules(ms)
    \/ "ClearFilteredModules" \in Ops /\ ClearFilteredModules
    \/ Tick

Spec == Init /\ [][Next]_vars

-----------------------------------------------------------------------------
(* Properties.                                                             *)

\* What GetCompressedErrors should report: each (message, module) reported
\* so far, once, with the last time it was reported.
Reference == {[errorMessage |-> k[1], moduleName |-> k[2], timestamp |-> occurred[k]] :
                k \in {k \in Keys : occurred[k] # Never}}

\* After each InsertErrorCompressed (UpdateCompressedErrors and its sort),
\* the compressed list holds each error reported so far, by either insert,
\* exactly once, newest first.
CompressedOrdered ==
    synced =>
        /\ {Key(e) : e \in Range(compressedErrorStack)} = {Key(e) : e \in Reference}
        /\ Len(compressedErrorStack) = Cardinality(Reference)
        /\ \A i \in 1..(Len(compressedErrorStack) - 1) :
               compressedErrorStack[i].timestamp >= compressedErrorStack[i + 1].timestamp

\* After each InsertErrorCompressed (UpdateCompressedErrors and its sort),
\* the compressed list holds each reported error exactly once with its
\* latest time, newest first.
CompressedIsLatest ==
    synced =>
        /\ Range(compressedErrorStack) = Reference
        /\ Len(compressedErrorStack) = Cardinality(Reference)
        /\ \A i \in 1..(Len(compressedErrorStack) - 1) :
               compressedErrorStack[i].timestamp >= compressedErrorStack[i + 1].timestamp

=============================================================================
