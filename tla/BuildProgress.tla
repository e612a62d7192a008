---------------------------- MODULE BuildProgress ----------------------------
(***************************************************************************)
(* What a build promises whatever crashes, restarts, is redelivered or     *)
(* lost: its stages are finished one at a time and in order, each once,    *)
(* and it is shown complete only when all stages before the final one are. *)
(***************************************************************************)
EXTENDS PipelineStages

VARIABLES
    finished,   \* the stages that have been done at some time
    complete    \* whether builds.status says complete

vars == <<finished, complete>>

Init == finished = {} /\ complete = FALSE

Finish(s) ==
    /\ s \notin finished
    /\ Earlier(s) \subseteq finished
    /\ finished' = finished \cup {s}

Next ==
    /\ UNCHANGED finished \/ \E s \in Stages : Finish(s)
    /\ complete' \in BOOLEAN
    /\ complete' => Earlier("finalize") \subseteq finished'

Spec == Init /\ [][Next]_vars
=============================================================================
