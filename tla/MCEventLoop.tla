----------------------------- MODULE MCEventLoop -----------------------------
(* Small instances of EventLoop for TLC. *)
EXTENDS EventLoop
FlatApi == {"timeout", "interval", "clear", "job"}
NestedApi == ApiCalls
TwoDelays == {0, 1}
===============================================================================
