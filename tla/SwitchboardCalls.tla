--------------------------- MODULE SwitchboardCalls ---------------------------
(***************************************************************************)
(* The switchboard, with all its tables, does what module Calls promises.  *)
(* A call is pending while it is on its caller's requests and finished     *)
(* while it is on its replies.                                             *)
(***************************************************************************)
EXTENDS Switchboard

Requested == [c \in Client |-> Range(requests[c])]
Replied == [c \in Client |-> Range(replies[c])]
Sent == {<<c, out[c].tran>> : c \in {d \in Client : out[d].kind = "reply"}}

Promise == INSTANCE Calls WITH
    Gone <- Freed, connected <- clients, offered <- services, target <- tsvc,
    pending <- Requested, finished <- Replied, sent <- Sent

\* Every handler is one step of the promise, as seen by the callers: no call is
\* finished twice, answered twice or to another client, or revived, although a
\* transaction may be executed more than once (svrservice.c) and its worker,
\* its service or its caller may go at any point.
ImplementsCalls == Promise!Spec
================================================================================
