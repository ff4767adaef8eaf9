------------------------------ MODULE MCTasksCore -----------------------------
(***************************************************************************)
(* Small instances of TasksCore.                                           *)
(***************************************************************************)
EXTENDS TasksImplementPool, TasksSnapshot

LaterRetries == {<< >>, <<1>>}
OneLaterRetry == {<<1>>}
MixedRetries == {<<0, 1>>}

NoSettings == {[maxInProgressTasks |-> 0, interval |-> 0, maxTokens |-> 0]}

RowsDlq == {[enable |-> TRUE, retention |-> 1, maxSize |-> 0]}
WithoutDlq == {[enable |-> FALSE, retention |-> 0, maxSize |-> 0]}

NoOverwrite == {{}}
FullOverwrite == {{}, OverwriteFields}
===============================================================================
