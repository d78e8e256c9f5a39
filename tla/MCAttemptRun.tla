---------------------------- MODULE MCAttemptRun ----------------------------
EXTENDS AttemptRun

Ack == [event |-> "init", conv |-> "c", model |-> "requested"]
Step(type) == [event |-> "step_update", conv |-> "c", step |-> "s", state |-> "DONE", type |-> type, tool |-> None]
Result(status) == [event |-> "result", conv |-> "c", status |-> status, empty |-> FALSE]

MCLines == {Ack, Step("tool"), Step("agent_response"), Result("SUCCESS"), Result("ERROR")}
=============================================================================
