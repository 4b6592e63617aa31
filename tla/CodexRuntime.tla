---------------------------- MODULE CodexRuntime ----------------------------
(***************************************************************************)
(* One call of a Codex runtime.  The controlled runtime lets the process   *)
(* write to a scratch workspace and takes its proposal from a file in a    *)
(* temporary directory of the call; the read-only runtime takes what the   *)
(* process prints.                                                         *)
(***************************************************************************)
VARIABLES
    runtime,    \* "controlled" or "read_only"
    request,    \* policy enabled, caller authorized, directory usable
    step,
    process,    \* history: how the Codex process ended and what it left
    temp,       \* the temporary directory of the call
    answer,     \* the result
    escaped     \* the call is left by an exception

runtimeVars == <<runtime, request, step, process, temp, answer, escaped>>

-----------------------------------------------------------------------------
(* A process that was started ends by itself or is killed at its timeout,  *)
(* after any output: "events" and "usage" are JSON lines without and with  *)
(* a token count, and everything but "nothing" is text.                    *)
Started ==
    [end : {"zero", "nonzero", "timeout"},
     output : {"nothing", "garbled", "events", "usage"},
     proposal : {"missing", "invalid", "undecodable", "valid"}]

NotStarted(end) == [end |-> end, output |-> "nothing", proposal |-> "missing"]
NotRun == NotStarted("not_run")

Processes == Started \cup {NotStarted("not_found"), NotStarted("os_error")}

Answer(attempted, failure, usage) ==
    [attempted |-> attempted, failure |-> failure, usage |-> usage]

Pending == Answer(FALSE, "pending", FALSE)

Return(result) ==
    /\ step' = "done" /\ answer' = result
    /\ UNCHANGED <<process, escaped>>

Refuse(failure) == Return(Answer(FALSE, failure, FALSE)) /\ UNCHANGED temp

Continue(next) == step' = next /\ UNCHANGED <<process, temp, answer, escaped>>

-----------------------------------------------------------------------------
AdmissionRefusal ==
    IF runtime = "read_only"
      THEN IF request.directory THEN "none" ELSE "invalid_request"
    ELSE IF ~request.enabled THEN "disabled"
    ELSE IF ~request.authorized THEN "not_authorized"
    ELSE IF ~request.directory THEN "invalid_workspace"
    ELSE "none"

Admit ==
    /\ step = "admit"
    /\ \/ AdmissionRefusal = "none" /\ Continue("health")
       \/ AdmissionRefusal # "none" /\ Refuse(AdmissionRefusal)

(* The executable is looked up and asked whether the user is logged in.    *)
CheckHealth ==
    /\ step = "health"
    /\ \/ runtime = "controlled" /\ Continue("open")
       \/ runtime = "read_only" /\ Continue("execute")
       \/ \E kind \in {"cli_not_found", "not_authenticated", "not_ready"} :
             Refuse(kind)

(* The directory of the schema and the proposal.                           *)
OpenOutput ==
    /\ step = "open"
    /\ \/ /\ step' = "execute" /\ temp' = "open"
          /\ UNCHANGED <<process, answer, escaped>>
       \/ Refuse("process_error")

Execute ==
    /\ step = "execute"
    /\ process' \in Processes
    /\ step' = "answer"
    /\ UNCHANGED <<temp, answer, escaped>>

ProcessFailure(p) ==
    CASE p.end = "not_found" -> "cli_not_found"
      [] p.end = "timeout"   -> "timeout"
      [] p.end = "os_error"  -> "process_error"
      [] p.end = "nonzero"   -> "nonzero_exit"
      [] OTHER               -> "none"

(* Mutant: the usage is read only from the output of a process that ended  *)
(* well.                                                                   *)
Usage_OfSuccess(p) == p.output = "usage" /\ p.end = "zero"

(* The usage is read before it is known how the process ended.             *)
Usage(p) == p.output = "usage"

Readable(p) ==
    IF runtime = "controlled" THEN p.output \in {"events", "usage"}
                              ELSE p.output # "nothing"

OutputFailure(p) ==
    IF ~Readable(p) \/ (runtime = "controlled" /\ p.proposal # "valid")
      THEN "invalid_output" ELSE "none"

Verdict(p) ==
    IF ProcessFailure(p) # "none" THEN ProcessFailure(p) ELSE OutputFailure(p)

(* _read_coding_proposal handles an unreadable file and an invalid         *)
(* proposal, and not a file that is no UTF-8.                              *)
Undecodable(p) ==
    /\ runtime = "controlled" /\ ProcessFailure(p) = "none" /\ Readable(p)
    /\ p.proposal = "undecodable"

RemoveOutput == temp' = IF temp = "open" THEN "removed" ELSE temp

(* The result is made inside the with block of the temporary directory:    *)
(* an error on removing it replaces the result.                            *)
GiveAnswer ==
    /\ step = "answer"
    /\ \/ /\ ~Undecodable(process) /\ RemoveOutput
          /\ Return(Answer(TRUE, Verdict(process),
                           runtime = "controlled" /\ Usage(process)))
       \/ /\ Undecodable(process) /\ RemoveOutput
          /\ step' = "done" /\ escaped' = TRUE /\ UNCHANGED <<process, answer>>
       \/ /\ temp = "open" /\ temp' = "left"
          /\ Return(Answer(FALSE, "process_error", FALSE))

-----------------------------------------------------------------------------
RuntimeInit ==
    /\ runtime \in {"controlled", "read_only"}
    /\ request \in [enabled : BOOLEAN, authorized : BOOLEAN, directory : BOOLEAN]
    /\ runtime = "read_only" => request.enabled /\ request.authorized
    /\ step = "admit" /\ process = NotRun /\ temp = "none"
    /\ answer = Pending /\ escaped = FALSE

RuntimeNext ==
    /\ Admit \/ CheckHealth \/ OpenOutput \/ Execute \/ GiveAnswer
    /\ UNCHANGED <<runtime, request>>

-----------------------------------------------------------------------------
(* Safety.  A result says whether Codex was started, and a process that    *)
(* reported the tokens it used is accounted for however it ended; a        *)
(* success is a process that ended well and, in the controlled runtime,    *)
(* gave a valid proposal.  Only where the directory of the call could not  *)
(* be removed does the result deny what happened.                          *)
RuntimeHonest ==
    step = "done" /\ ~escaped /\ temp # "left" =>
        /\ answer.attempted <=> process # NotRun
        /\ runtime = "controlled" /\ process.output = "usage" => answer.usage
        /\ answer.failure = "none" =>
              /\ process.end = "zero" /\ process.output # "nothing"
              /\ runtime = "controlled" => process.proposal = "valid"
        /\ temp # "open"
=============================================================================
