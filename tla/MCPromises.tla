------------------------------ MODULE MCPromises ------------------------------
(* Small instances of Promises for TLC. *)
EXTENDS Promises
CallbackApi == {"new", "then", "resolve", "reject", "static", "async", "finally", "withResolvers"}
JobApi == {"then", "static", "microtask", "eval"}
AllInputs == {Plain, Thenable, BadThen}
OneReason == {Thenable}
PlainOnly == {Plain}
NoReasons == {}
===============================================================================
