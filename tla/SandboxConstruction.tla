------------------------- MODULE SandboxConstruction -------------------------
(***************************************************************************)
(* newSandbox and fetchContext (src/engines/native/sandbox.go): acquire a  *)
(* working folder and a temporary user (or borrow the current user), fetch *)
(* and unpack the task's context, start the process; on any error the     *)
(* deferred function removes what was acquired.  Every OS call may fail.   *)
(***************************************************************************)
EXTENDS Naturals, NativeConfig

CONSTANT ContextKinds  \* payload.Context: "none", or the extension of the download

ASSUME ConstructionAssumption ==
    ContextKinds \subseteq {"none", "zip", "gz", "tar.gz", "other"}

VARIABLES
    step,     \* next statement of newSandbox/fetchContext, or "returned"
    context,  \* the payload's context
    workingFolder, \* "none", "present", "removed"
    user,     \* "none", "owned" (created), "ambient" (current), "removed"
    process,  \* "none", "started"
    err,      \* newSandbox's err: "nil", "infra", "malformed"
    result    \* what newSandbox returned: "pending", "sandbox", or an error

cvars == <<step, context, workingFolder, user, process, err, result>>

\* Mutant: the deferred function forgets to remove the created user.
FailKeepUser(e) ==
    /\ err' = e
    /\ result' = e
    /\ workingFolder' =
          IF workingFolder = "present" THEN "removed" ELSE workingFolder
    /\ step' = "returned"
    /\ UNCHANGED <<context, process, user>>

\* Leave newSandbox with error e: the deferred function removes the
\* created user and the working folder.
Fail(e) ==
    /\ err' = e
    /\ result' = e
    /\ user' = IF CreateUser /\ user = "owned" THEN "removed" ELSE user
    /\ workingFolder' =
          IF workingFolder = "present" THEN "removed" ELSE workingFolder
    /\ step' = "returned"
    /\ UNCHANGED <<context, process>>

\* Go on with statement s.
Goto(s) ==
    /\ step' = s
    /\ UNCHANGED <<context, workingFolder, user, process, err, result>>

\* Where newSandbox goes once it has its user.
AfterUser == IF context = "none" THEN "start" ELSE "download"

-----------------------------------------------------------------------------

\* TemporaryStorage.NewFolder()
NewFolder ==
    /\ step = "folder"
    /\ \/ /\ workingFolder' = "present"
          /\ step' = "user"
          /\ UNCHANGED <<context, user, process, err, result>>
       \/ Fail("infra")

\* system.CreateUser(workingFolder.Path(), groups)
CreateSystemUser ==
    /\ step = "user"
    /\ \/ /\ user' = "owned"
          /\ step' = AfterUser
          /\ UNCHANGED <<context, workingFolder, process, err, result>>
       \/ Fail("infra")

\* system.CurrentUser()
CurrentUser ==
    /\ step = "currentUser"
    /\ \/ /\ user' = "ambient"
          /\ step' = AfterUser
          /\ UNCHANGED <<context, workingFolder, process, err, result>>
       \/ Fail("infra")

\* fetchContext: util.Download, os.Chmod and system.ChangeOwner; any error
\* is returned by newSandbox as a MalformedPayloadError.
Download ==
    /\ step = "download"
    /\ Goto("chmod") \/ Fail("malformed")

Chmod ==
    /\ step = "chmod"
    /\ Goto("chown") \/ Fail("malformed")

ChangeOwner ==
    /\ step = "chown"
    /\ Goto("unpack") \/ Fail("malformed")

\* The switch on filepath.Ext(filename): ".zip" is unzipped, ".gz" is
\* gunzipped (and a resulting ".tar" untarred); any other extension is
\* left as it is and fetchContext returns nil.
Unpack ==
    /\ step = "unpack"
    /\ CASE context = "zip" -> Goto("start") \/ Fail("malformed")
         [] context = "gz" -> Goto("start") \/ Fail("malformed")
         [] context = "tar.gz" -> Goto("untar") \/ Fail("malformed")
         [] OTHER -> Goto("start")

\* unpack.Untar(unpackedFile)
Untar ==
    /\ step = "untar"
    /\ Goto("start") \/ Fail("malformed")

\* system.StartProcess: a spawn error is a MalformedPayloadError; success
\* returns the sandbox with its process.
StartProcess ==
    /\ step = "start"
    /\ \/ /\ process' = "started"
          /\ result' = "sandbox"
          /\ step' = "returned"
          /\ UNCHANGED <<context, workingFolder, user, err>>
       \/ Fail("malformed")

-----------------------------------------------------------------------------

ConstructionInit ==
    /\ step = IF CreateUser THEN "folder" ELSE "currentUser"
    /\ context \in ContextKinds
    /\ workingFolder = "none"
    /\ user = "none"
    /\ process = "none"
    /\ err = "nil"
    /\ result = "pending"

ConstructionNext ==
    \/ NewFolder \/ CreateSystemUser \/ CurrentUser
    \/ Download \/ Chmod \/ ChangeOwner \/ Unpack \/ Untar
    \/ StartProcess

ConstructionSpec == ConstructionInit /\ [][ConstructionNext]_cvars

-----------------------------------------------------------------------------
(* Properties.                                                             *)

\* Spec 7: a construction failure unwinds every allocation: no created
\* user or working folder survives a failed newSandbox, while a borrowed
\* (current) user is never removed; a returned sandbox holds its process,
\* its working folder and its user.
NoLeakOnFailure ==
    /\ result \in {"infra", "malformed"} =>
          /\ workingFolder # "present"
          /\ user # "owned"
          /\ process = "none"
    /\ ~CreateUser => user # "removed"
    /\ result = "sandbox" =>
          /\ user = IF CreateUser THEN "owned" ELSE "ambient"
          /\ workingFolder = IF CreateUser THEN "present" ELSE "none"

\* Spec 8 (scenario of section 10): a context whose archive extension is not
\* recognised makes construction fail; newSandbox never returns a sandbox
\* whose task was started on an unpacked context (fetchContext's switch at
\* sandbox.go L144-149 is what must refuse it).
UnrecognizedContextRejected ==
    context = "other" => result # "sandbox"

=============================================================================
