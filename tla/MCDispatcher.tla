---------------------------- MODULE MCDispatcher ----------------------------
(* Instances of Dispatcher: two messages, two generations that overlap,    *)
(* fetches of two messages and one or two retry delays.                    *)
EXTENDS Dispatcher
=============================================================================
