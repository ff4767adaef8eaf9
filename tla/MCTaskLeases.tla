----------------------------- MODULE MCTaskLeases -----------------------------
(***************************************************************************)
(* Small instances of TaskLeases.                                          *)
(***************************************************************************)
EXTENDS TaskLeases, TasksImplementPool

LaterRetry == {<<1>>}

AtMostOne == [maxInProgressTasks |-> 1, interval |-> 0, maxTokens |-> 0]
OneToken == [AtMostOne EXCEPT !.interval = 1, !.maxTokens = 1]
OneAtATime == {AtMostOne, OneToken}

OneDead == {[enable |-> TRUE, retention |-> 2, maxSize |-> 1]}
NoOverwrite == {{}}
===============================================================================
