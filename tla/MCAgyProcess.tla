--------------------------- MODULE MCAgyProcess ---------------------------
(* Small instances of AgyProcess for TLC.                                    *)
EXTENDS AgyProcess, TLC

CONSTANTS c, s, t

Ack == [event |-> "init", conv |-> c, model |-> "requested"]
Tool == [event |-> "step_update", conv |-> c, step |-> s, state |-> "DONE",
         type |-> "tool", tool |-> t]
Succeeded == [event |-> "result", conv |-> c, status |-> "SUCCESS", empty |-> FALSE]

(* A turn needs the first and the last line; two of either are an error.     *)
Short == {Ack, Succeeded}
Long == {Ack, Tool, Succeeded}
=============================================================================
