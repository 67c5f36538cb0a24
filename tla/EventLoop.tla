----------------------------- MODULE EventLoop -----------------------------
(***************************************************************************)
(* What a node promises to those who send it requests, while its process   *)
(* lives: they are handled one at a time, each once; a request that is     *)
(* over was answered; one whose handler failed is reported, by a packet    *)
(* that is no answer; and one that waits for an answer of its own is       *)
(* resumed at most once, and is over after that, or is dropped.  The       *)
(* process may end at any moment, in a handler too: then nothing more is   *)
(* put, and what was open stays open.                                      *)
(***************************************************************************)
EXTENDS Naturals, Sequences

CONSTANTS
  Request,
  Answer,  \* packets that answer a request
  Notice   \* packets that only tell that a request failed

VARIABLES
  alive,    \* the process runs
  stage,    \* how far each request is
  current,  \* the request whose code is on the stack, if any
  ended,    \* requests whose own wait has ended
  replies   \* the packets put for each request

vars == <<alive, stage, current, ended, replies>>

Stage == {"idle", "queued", "open", "async", "dropped", "failed", "over"}
\* The requests whose wait may still end.
Waiting == {c \in Request : stage[c] \in {"async", "failed", "over"} /\ c \notin ended}

Init ==
  /\ alive = TRUE
  /\ stage = [c \in Request |-> "idle"]
  /\ current = {}
  /\ ended = {}
  /\ replies = [c \in Request |-> << >>]

Move(c, to) == stage' = [stage EXCEPT ![c] = to]
Reply(c, Packet) == \E p \in Packet : replies' = [replies EXCEPT ![c] = Append(@, p)]
Answered(c) == \E n \in 1..Len(replies[c]) : replies[c][n] \in Answer
NothingToDo == alive /\ current = {} /\ \A c \in Request : stage[c] # "queued"

Arrive(cs) ==
  /\ NothingToDo
  /\ \A c \in cs : stage[c] = "idle"
  /\ stage' = [c \in Request |-> IF c \in cs THEN "queued" ELSE stage[c]]
  /\ UNCHANGED <<alive, current, ended, replies>>

Begin(c) ==
  /\ alive /\ current = {} /\ stage[c] = "queued"
  /\ Move(c, "open") /\ current' = {c}
  /\ UNCHANGED <<alive, ended, replies>>

\* No handler takes the request.
Refuse(c) ==
  /\ alive /\ current = {} /\ stage[c] = "queued"
  /\ Move(c, "failed") /\ Reply(c, Notice)
  /\ UNCHANGED <<alive, current, ended>>

\* The code on the stack answers, a second time perhaps.
Put(c) ==
  /\ alive /\ current = {c}
  /\ Reply(c, Answer)
  /\ UNCHANGED <<alive, stage, current, ended>>

\* The handler is through: at the latest now there is an answer.
Finish(c) ==
  /\ alive /\ current = {c} /\ stage[c] = "open"
  /\ Move(c, "over") /\ current' = {}
  /\ Reply(c, Answer) \/ (Answered(c) /\ UNCHANGED replies)
  /\ UNCHANGED <<alive, ended>>

\* The handler has thrown.
Fail(c) ==
  /\ alive /\ current = {c} /\ stage[c] = "open"
  /\ Move(c, "failed") /\ current' = {}
  /\ Reply(c, Notice)
  /\ UNCHANGED <<alive, ended>>

\* The handler leaves the answer to what it waits for.
Suspend(c) ==
  /\ alive /\ current = {c} /\ stage[c] = "open" /\ c \notin ended
  /\ Move(c, "async") /\ current' = {}
  /\ UNCHANGED <<alive, ended, replies>>

\* What the request waited for has come.
Resume(c) ==
  /\ NothingToDo /\ c \in Waiting
  /\ current' = {c} /\ ended' = ended \cup {c}
  /\ UNCHANGED <<alive, stage, replies>>

\* The resumed code is through.
Conclude(c) ==
  /\ alive /\ current = {c} /\ c \in ended
  /\ \/ stage[c] = "async" /\ Answered(c) /\ Move(c, "over")
     \/ stage[c] \in {"failed", "over"} /\ UNCHANGED stage
  /\ current' = {}
  /\ UNCHANGED <<alive, ended, replies>>

\* What the request waited for is refused: it is not resumed.
Drop(c) ==
  /\ NothingToDo /\ c \in Waiting
  /\ \/ stage[c] = "async" /\ Move(c, "dropped")
     \/ stage[c] # "async" /\ UNCHANGED stage
  /\ ended' = ended \cup {c}
  /\ UNCHANGED <<alive, current, replies>>

\* The process ends, perhaps as the wait of a request does.  A request that was
\* resumed and is answered is over.
Die ==
  /\ alive
  /\ alive' = FALSE /\ current' = {}
  /\ \/ UNCHANGED <<stage, ended>>
     \/ \E c \in Waiting \cup ended :
          /\ ended' = ended \cup {c}
          /\ \/ stage[c] = "async" /\ Answered(c) /\ Move(c, "over")
             \/ UNCHANGED stage
  /\ UNCHANGED replies

Next ==
  \/ \E cs \in SUBSET Request : Arrive(cs)
  \/ \E c \in Request :
       \/ Begin(c) \/ Refuse(c) \/ Put(c) \/ Finish(c) \/ Fail(c) \/ Suspend(c)
       \/ Resume(c) \/ Conclude(c) \/ Drop(c)
  \/ Die

Spec == Init /\ [][Next]_vars
=============================================================================
