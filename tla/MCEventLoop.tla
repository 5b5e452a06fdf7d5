---------------------------- MODULE MCEventLoop ----------------------------
(***************************************************************************)
(* EventLoop with a message of every kind.                                 *)
(***************************************************************************)
EXTENDS EventLoop

CONSTANTS in, d1

M(inbox, kind, val, ok) == [inbox |-> inbox, kind |-> kind, val |-> val, ok |-> ok]
E(to, service, reply) == [to |-> to, service |-> service, reply |-> reply]

Publish(v) == M("ipfs", "publish", v, TRUE)
Stored == M("ipfs", "store", None, TRUE)
Refused == M("ipfs", "store", None, FALSE)
SetLimit(n) == M("crud", "limit", n, TRUE)
SetInterval == M("crud", "interval", TRUE, TRUE)
Denied == M("crud", "limit", 1, FALSE)
Ping == M("inbox", "ping", None, TRUE)

Messages == {Publish(1), Publish(2), Stored, Refused, SetInterval, Denied, Ping}
            \cup {SetLimit(n) : n \in Limit}

Local == E("entity", "inbox", FALSE)
LocalReply == E("entity", "inbox", TRUE)
ToPeer(s) == E("peer", s, FALSE)
Invalid == E("invalid", "inbox", FALSE)

Envelopes == {Local, LocalReply, Invalid} \cup {ToPeer(s) : s \in Service}

Quiet == [messages |-> {}, envelopes |-> {}, record |-> None, limit |-> 1,
          interval |-> FALSE, moves |-> FALSE, signals |-> FALSE]

(* A peer that publishes while deliveries, or the refresh worker, resolve  *)
(* its document; a peer that cannot always be reached, with a limit that   *)
(* falls or rises; replies; entities that flood the outbox.                *)
Workloads ==
    {[Quiet EXCEPT !.messages = {Publish(2)}, !.envelopes = {ToPeer("inbox")},
                   !.moves = TRUE],
     [Quiet EXCEPT !.messages = {Publish(1), Publish(2)}, !.interval = TRUE,
                   !.moves = TRUE],
     [Quiet EXCEPT !.messages = {SetLimit(1)}, !.envelopes = {ToPeer("crud")},
                   !.record = 1, !.limit = 3],
     [Quiet EXCEPT !.messages = {SetLimit(3)}, !.envelopes = {ToPeer("crud")},
                   !.record = 1],
     [Quiet EXCEPT !.messages = {Ping}, !.envelopes = {ToPeer(s) : s \in Service},
                   !.record = 1],
     [Quiet EXCEPT !.messages = {Stored, Denied}, !.envelopes = {Invalid}, !.record = 1],
     [Quiet EXCEPT !.messages = {SetInterval, Refused, Ping},
                   !.envelopes = {Local, LocalReply}, !.signals = TRUE]}

=============================================================================
