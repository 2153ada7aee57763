---------------------------- MODULE EventStream ----------------------------
(* The event log of one research run and a follower of its server-sent event *)
(* stream (GET /events), which reconnects with Last-Event-ID.  Events are    *)
(* their sequence numbers; a status change of the run and the events that    *)
(* report it commit together, so one step does both.                         *)
EXTENDS Naturals, Sequences, SequencesExt

CONSTANTS
  PageLimit,   \* events one read of the log returns (200 in the code)
  MaxEvents,   \* bound: events of the run
  MaxDrops     \* bound: lost connections

ASSUME StreamBounds ==
  /\ PageLimit \in Nat \ {0}
  /\ MaxEvents \in Nat
  /\ MaxDrops \in Nat

VARIABLES
  status,      \* research_runs.status, "none" before the run exists
  published,   \* next_event_seq - 1
  follower,    \* the open stream: where it is, its cursor and its batch
  received,    \* what the follower got, in order
  drops

streamVars == <<status, published, follower, received, drops>>

TERMINAL_RUN_STATUSES == {"failed", "cancelled", "completed"}
Statuses == {"none", "queued", "running", "interrupted"} \union TERMINAL_RUN_STATUSES

Closed == [at |-> "closed", cursor |-> 0, batch |-> <<>>, empty |-> FALSE]

StreamInit ==
  /\ status = "none" /\ published = 0
  /\ follower = Closed /\ received = <<>>
  /\ drops = 0

(* ResearchRunRepository._append_event: the run row is locked, so events are *)
(* numbered and become visible in one order.                                 *)
AppendEvents(new, n) ==
  /\ published + n <= MaxEvents
  /\ published' = published + n
  /\ status' = new

(* A commit of the service or of an execution.                               *)
Commit(new, n) ==
  /\ AppendEvents(new, n)
  /\ UNCHANGED <<follower, received, drops>>

(* cancel and resume, with the statuses they act on.                         *)
CancelRun == status \in {"queued", "running", "interrupted"} /\ Commit("cancelled", 1)
ResumeRun == status \in {"cancelled", "failed", "interrupted"} /\ Commit("queued", 1)

ListNewest(after) ==
  [i \in 1..(IF published - after < PageLimit
             THEN published - after ELSE PageLimit) |-> published - PageLimit + i]

(* ResearchRunRepository.list_events: the oldest events after the cursor.    *)
ListEvents(after) ==
  [i \in 1..(IF published - after < PageLimit
             THEN published - after ELSE PageLimit) |-> after + i]

LastEventId == IF received = <<>> THEN 0 ELSE Last(received)

(* A client opens the stream with the id of the last event it got.           *)
Connect ==
  /\ follower.at = "closed" /\ status # "none"
  /\ follower' = [Closed EXCEPT !.at = "listing", !.cursor = LastEventId]
  /\ UNCHANGED <<status, published, received, drops>>

StreamList ==
  /\ follower.at = "listing"
  /\ LET batch == ListEvents(follower.cursor) IN
     follower' = [follower EXCEPT !.at = "sending", !.batch = batch,
                                  !.empty = (batch = <<>>)]
  /\ UNCHANGED <<status, published, received, drops>>

StreamSend ==
  /\ follower.at = "sending" /\ follower.batch # <<>>
  /\ follower' = [follower EXCEPT !.cursor = Head(follower.batch),
                                  !.batch = Tail(follower.batch)]
  /\ received' = Append(received, Head(follower.batch))
  /\ UNCHANGED <<status, published, drops>>

(* The status is read after the events: only a pass that found none may end  *)
(* the stream of a finished run.                                             *)
StreamCheck ==
  /\ follower.at = "sending" /\ follower.batch = <<>>
  /\ follower' = IF status \in TERMINAL_RUN_STATUSES /\ follower.empty
                 THEN Closed ELSE [follower EXCEPT !.at = "listing"]
  /\ UNCHANGED <<status, published, received, drops>>

StreamDrop ==
  /\ follower.at # "closed" /\ drops < MaxDrops
  /\ follower' = Closed /\ drops' = drops + 1
  /\ UNCHANGED <<status, published, received>>

ReadStep == Connect \/ StreamList \/ StreamSend \/ StreamCheck \/ StreamDrop

StreamTypeOK ==
  /\ status \in Statuses /\ published \in 0..MaxEvents
  /\ follower.at \in {"closed", "listing", "sending"}
  /\ drops \in 0..MaxDrops

Delivery == INSTANCE EventDelivery
              WITH log <- [i \in 1..published |-> i], delivered <- received

(* The follower's connections may end, by themselves after a finished run or *)
(* by a drop between two events; the run may finish between the read of the  *)
(* events and the read of the status, or be resumed after the stream was     *)
(* closed: what the follower receives over all its connections still is the  *)
(* log, each event once and in order (stream_events, list_events).           *)
StreamImplementsDelivery == Delivery!Spec
=============================================================================
