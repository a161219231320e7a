------------------------------ MODULE LogStream -----------------------------
(***************************************************************************)
(* The log and its readers: every log call of the program hands its event  *)
(* over an unbuffered channel to the goroutine of an Observable, which     *)
(* copies it to the buffer of each subscriber while it holds the lock; a   *)
(* GET /logs subscribes, drains its buffer with one goroutine and writes   *)
(* to its client, which may be slow or gone, with another.                 *)
(***************************************************************************)
EXTENDS Integers, Sequences

CONSTANTS
  Writers,      \* goroutines that log
  Clients,      \* requests of /logs
  Buffer,       \* capacity of a subscriber, 200 in the code
  Queue,        \* capacity of the channel of a request, 1024 in the code
  MaxEvents     \* bound on the log calls

VARIABLE ls

Init ==
  ls = [calls |-> 0,
        events |-> 0,                             \* numbered as the process receives them
        sending |-> {},                           \* whose log call hands an event over
        mux |-> FALSE,                            \* the process holds o.mux
        item |-> 0,                               \* the event it copies
        todo |-> {},                              \* the subscribers it has still to copy to
        listener |-> {},                          \* o.listener
        panicked |-> FALSE,                       \* a send on a closed channel
        client |-> [c \in Clients |->
          [pc |-> "new", buffer |-> << >>, closed |-> FALSE, queue |-> << >>,
           last |-> 0, ordered |-> TRUE]]]      \* what the client got last

\* Infoln, Warnln, Errorln, Debugln
Log(w) ==
  /\ w \notin ls.sending /\ ls.calls < MaxEvents
  /\ ls' = [ls EXCEPT !.calls = @ + 1, !.sending = @ \cup {w}]

\* process: receive and lock
Receive(w) ==
  /\ w \in ls.sending /\ ls.item = 0 /\ ~ls.mux
  /\ ls' = [ls EXCEPT !.events = @ + 1, !.item = ls.events + 1, !.sending = @ \ {w}, !.mux = TRUE,
                      !.todo = ls.listener]

\* Emit, which blocks while the buffer is full, in any order of the map
Emit(c) ==
  /\ ls.mux /\ c \in ls.todo
  /\ ls.client[c].closed \/ Len(ls.client[c].buffer) < Buffer
  /\ ls' = IF ls.client[c].closed
           THEN [ls EXCEPT !.panicked = TRUE, !.todo = @ \ {c}]
           ELSE [ls EXCEPT !.client[c].buffer = Append(@, ls.item), !.todo = @ \ {c}]

Unlock ==
  /\ ls.mux /\ ls.todo = {}
  /\ ls' = [ls EXCEPT !.mux = FALSE, !.item = 0]

-----------------------------------------------------------------------------
(* GET /logs *)

Subscribe(c) ==
  /\ ls.client[c].pc = "new" /\ ~ls.mux
  /\ ls' = [ls EXCEPT !.listener = @ \cup {c}, !.client[c].pc = "serve"]

\* The draining goroutine drops what does not fit.
Drain(c) ==
  LET s == ls.client[c] IN
  /\ s.buffer # << >>
  /\ ls' = [ls EXCEPT !.client[c].buffer = Tail(@),
                      !.client[c].queue = IF Len(@) < Queue THEN Append(@, Head(s.buffer)) ELSE @]

\* Mutant: the newest event is written first.
WriteNewest(c) ==
  LET s == ls.client[c] IN
  /\ s.pc = "serve" /\ s.queue # << >>
  /\ ls' = [ls EXCEPT !.client[c].queue = SubSeq(@, 1, Len(@) - 1),
                      !.client[c].last = s.queue[Len(s.queue)],
                      !.client[c].ordered = @ /\ s.queue[Len(s.queue)] > s.last]

\* The handler writes an event to the client, if it takes it.
Write(c) ==
  LET s == ls.client[c] IN
  /\ s.pc = "serve" /\ s.queue # << >>
  /\ ls' = [ls EXCEPT !.client[c].queue = Tail(@), !.client[c].last = Head(s.queue),
                      !.client[c].ordered = @ /\ Head(s.queue) > s.last]

\* The client is gone: the deferred UnSubscribe.
WriteFails(c) ==
  LET s == ls.client[c] IN
  /\ s.pc = "serve" /\ s.queue # << >>
  /\ ls' = [ls EXCEPT !.client[c].pc = "leave"]

UnSubscribe(c) ==
  /\ ls.client[c].pc = "leave" /\ ~ls.mux
  /\ ls' = [ls EXCEPT !.listener = @ \ {c}, !.client[c].pc = "gone",
                      !.client[c].closed = TRUE]

Serve(c) == Subscribe(c) \/ Drain(c) \/ Write(c) \/ WriteFails(c) \/ UnSubscribe(c)

Next ==
  \/ \E w \in Writers : Log(w) \/ Receive(w)
  \/ Unlock
  \/ \E c \in Clients : Emit(c) \/ Serve(c)

\* What the program itself runs: the process and the draining goroutines.
ProcessRuns == Unlock \/ \E c \in Clients : Emit(c)

-----------------------------------------------------------------------------

\* Nothing is sent on the channel of a subscriber that has left.
NoSendOnClosed == ~ls.panicked

\* A client may miss events but gets none twice and none out of order.
LogsInOrder == \A c \in Clients : ls.client[c].ordered

\* A log call is waiting.
Waiting(w) == w \in ls.sending
=============================================================================
