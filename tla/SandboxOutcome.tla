--------------------------- MODULE SandboxOutcome ---------------------------
(***************************************************************************)
(* What a native sandbox promises its callers (spec section 4.1 and 5),   *)
(* without the processes, shells and locks that implement it: one         *)
(* terminal outcome, set once and only after the sandbox has stopped      *)
(* accepting shells and no shell is being started; every blocked Kill,    *)
(* Abort and WaitForResult returns the error that outcome dictates;       *)
(* NewShell is admitted only while shells are accepted.  Module Sandbox    *)
(* implements it under the mapping given there.                          *)
(***************************************************************************)
CONSTANT Callers

VARIABLES
    outcome,    \* "none" until resolved, then "success", "failure", "aborted"
    accepting,  \* new shells may still be started
    pending,    \* caller -> the call it is blocked in, or "none"
    answer      \* caller -> the last call it returned from and its error

avars == <<outcome, accepting, pending, answer>>

Outcomes == {"none", "success", "failure", "aborted"}
Calls == {"newShell", "kill", "abort", "waitResult"}
Errors == {"nil", "terminated", "aborted", "malformed"}

\* The error a blocking call returns once the sandbox has outcome out:
\* Abort reports ErrSandboxTerminated unless an Abort resolved the sandbox,
\* Kill and WaitForResult report ErrSandboxAborted exactly when one did.
Answer(o, out) ==
    IF o = "abort"
    THEN IF out = "aborted" THEN "nil" ELSE "terminated"
    ELSE IF out = "aborted" THEN "aborted" ELSE "nil"

AInit ==
    /\ outcome = "none"
    /\ accepting = TRUE
    /\ pending = [c \in Callers |-> "none"]
    /\ answer = [c \in Callers |-> [op |-> "none", err |-> "nil"]]

\* NewShell is admitted while shells are accepted.
StartShell(c) ==
    /\ pending[c] = "none"
    /\ accepting
    /\ pending' = [pending EXCEPT ![c] = "newShell"]
    /\ UNCHANGED <<outcome, accepting, answer>>

\* NewShell is refused once the sandbox stopped accepting shells.
RejectShell(c) ==
    /\ pending[c] = "none"
    /\ ~accepting
    /\ answer' = [answer EXCEPT ![c] = [op |-> "newShell", err |-> "terminated"]]
    /\ UNCHANGED <<outcome, accepting, pending>>

\* An admitted NewShell returns the shell or a spawn error.
ShellStarted(c) ==
    /\ pending[c] = "newShell"
    /\ \E e \in {"nil", "malformed"} :
          answer' = [answer EXCEPT ![c] = [op |-> "newShell", err |-> e]]
    /\ pending' = [pending EXCEPT ![c] = "none"]
    /\ UNCHANGED <<outcome, accepting>>

\* Kill, Abort or WaitForResult is called and blocks.
Call(c, o) ==
    /\ pending[c] = "none"
    /\ o \in {"kill", "abort", "waitResult"}
    /\ pending' = [pending EXCEPT ![c] = o]
    /\ UNCHANGED <<outcome, accepting, answer>>

\* The sandbox stops accepting shells.
StopIntake ==
    /\ accepting' = FALSE
    /\ UNCHANGED <<outcome, pending, answer>>

\* The outcome is fixed, once: by natural completion (success or failure)
\* or a Kill (failure), or, only while an Abort is in progress, aborted.
Resolve ==
    /\ outcome = "none"
    /\ ~accepting
    /\ \A c \in Callers : pending[c] # "newShell"
    /\ \/ outcome' \in {"success", "failure"}
       \/ /\ \E c \in Callers : pending[c] = "abort"
          /\ outcome' = "aborted"
    /\ UNCHANGED <<accepting, pending, answer>>

\* A blocked call returns once the outcome is fixed.
Return(c) ==
    /\ pending[c] \in {"kill", "abort", "waitResult"}
    /\ outcome # "none"
    /\ answer' = [answer EXCEPT ![c] =
                    [op |-> pending[c], err |-> Answer(pending[c], outcome)]]
    /\ pending' = [pending EXCEPT ![c] = "none"]
    /\ UNCHANGED <<outcome, accepting>>

ANext ==
    \/ \E c \in Callers :
          \/ StartShell(c) \/ RejectShell(c) \/ ShellStarted(c)
          \/ \E o \in Calls : Call(c, o)
          \/ Return(c)
    \/ StopIntake
    \/ Resolve

ASpec == AInit /\ [][ANext]_avars

=============================================================================
