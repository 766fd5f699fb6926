--------------------------- MODULE MCWorkerProcess ---------------------------
(***************************************************************************)
(* What runs in a worker process, for TLC: the runner, the provider's      *)
(* streams and the progress thread.  They share no state, so a behaviour   *)
(* is about one of them (focus) and the others stay in an initial state.   *)
(***************************************************************************)
EXTENDS MCEvaluationRunner, ProviderStream, WorkerProgress

VARIABLE focus

processVars == <<vars, streamVars, progressVars, focus>>

ProcessInit ==
    /\ focus \in {"runner", "stream", "progress"}
    /\ Init /\ StreamInit /\ ProgressInit
    /\ focus # "stream" =>
          call.protocol = "chat" /\ style = [ending |-> "LF", long |-> FALSE]

Execute == focus = "runner" /\ Next /\ UNCHANGED <<streamVars, progressVars, focus>>
Stream  == focus = "stream" /\ StreamNext /\ UNCHANGED <<vars, progressVars, focus>>
Report  == focus = "progress" /\ ProgressNext /\ UNCHANGED <<vars, streamVars, focus>>

ProcessSpec == ProcessInit /\ [][Execute \/ Stream \/ Report]_processVars
==============================================================================
