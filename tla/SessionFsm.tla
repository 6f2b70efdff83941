----------------------------- MODULE SessionFsm -----------------------------
(***************************************************************************)
(* What a session's fsm_state promises to whoever reads it: the states of  *)
(* schemas/enums.py and the moves between them.  They are the diagram of   *)
(* docs/fsm.md and one edge more: after MAX_REASKS rejected scene answers  *)
(* the graph fails the session while its state is still NEED_INPUT.        *)
(***************************************************************************)

VARIABLE fsm

\* "none" is the absence of a record; CREATED is never written to the store.
States == {"none", "face_check", "need_input", "planning", "awaiting_approval",
           "generating", "done", "failed", "cancelled"}
Terminal == {"done", "failed", "cancelled"}

Moves == {<<"none", "face_check">>,
          <<"face_check", "need_input">>,
          <<"face_check", "planning">>,
          <<"face_check", "failed">>,
          <<"need_input", "planning">>,
          <<"need_input", "failed">>,
          <<"planning", "awaiting_approval">>,
          <<"awaiting_approval", "generating">>,
          <<"awaiting_approval", "failed">>,
          <<"generating", "done">>,
          <<"generating", "failed">>}

Init == fsm = "none"

\* A move, or the cancellation of a session that is not over.
Step ==
    \/ <<fsm, fsm'>> \in Moves
    \/ fsm \notin Terminal \cup {"none"} /\ fsm' = "cancelled"

Spec == Init /\ [][Step]_fsm

=============================================================================
