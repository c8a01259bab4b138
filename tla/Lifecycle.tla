------------------------------- MODULE Lifecycle -------------------------------
(***************************************************************************)
(* The statuses of the Task and Execution aggregates and their             *)
(* allowedTransitions tables, as relations.                                *)
(***************************************************************************)
TaskStatus == {"CREATED", "QUEUED", "RUNNING", "WAITING", "COMPLETED", "FAILED", "CANCELLED"}
ExecStatus == {"CREATED", "RUNNING", "COMPLETED", "FAILED", "CANCELLED"}
Terminal == {"COMPLETED", "FAILED", "CANCELLED"}

TaskTransition ==
  {<<"CREATED", "QUEUED">>, <<"CREATED", "CANCELLED">>,
   <<"QUEUED", "RUNNING">>, <<"QUEUED", "CANCELLED">>,
   <<"RUNNING", "WAITING">>, <<"RUNNING", "COMPLETED">>,
   <<"RUNNING", "FAILED">>, <<"RUNNING", "CANCELLED">>,
   <<"WAITING", "RUNNING">>, <<"WAITING", "CANCELLED">>}
ExecTransition ==
  {<<"CREATED", "RUNNING">>, <<"CREATED", "CANCELLED">>,
   <<"RUNNING", "COMPLETED">>, <<"RUNNING", "FAILED">>, <<"RUNNING", "CANCELLED">>}
================================================================================
