------------------------------ MODULE NodeImpl ------------------------------
(***************************************************************************)
(* The interest dispatcher of a node: class NodeImpl of                    *)
(* node/src/node-impl.cpp over an ndn-cxx Face.                            *)
(*                                                                         *)
(* One thread runs the Face's event loop.  An interest is handed, within   *)
(* one pass of the loop, to onInterest once for every interest filter its  *)
(* name matches; a "call" is such a pair of an interest and a filter.  The *)
(* application code a call runs (its handler, then the callback given to   *)
(* show) is nondeterministic: it may put data, show one interest, throw,   *)
(* route again or change the prefix at each of its steps.                  *)
(***************************************************************************)
EXTENDS Naturals, Sequences, SequencesExt

CONSTANTS
  Component,   \* name components
  Prefix,      \* the names m_prefix may be set to
  Path,        \* the paths the application may route; << >> is "/"
  Interest,    \* the interests other nodes send
  NameOf,      \* the name of each interest
  Validator,   \* the interest validators the application may route with
  Rejects,     \* the pairs of a validator and an interest it throws at
  AppData,     \* the data packets the application may hand to the node
  MaxPut       \* bound: packets on the wire up to which a call may put more

Name == Seq(Component)
Root == << >>
AnyData == [type : {"blob", "nack"}, fresh : BOOLEAN, sig : {"none", "valid"}]

ASSUME NodeAssumption ==
  /\ Prefix \subseteq Name
  /\ Path \subseteq Name /\ Root \in Path
  /\ NameOf \in [Interest -> Name]
  /\ Rejects \subseteq Validator \X Interest
  /\ AppData \subseteq AnyData
  /\ MaxPut \in Nat

Filter == {pre \o p : pre \in Prefix, p \in Path}
Call == Interest \X Filter

\* The Data that onFailed makes: no name, content type Nack, signed.
ErrorData == [type |-> "nack", fresh |-> FALSE, sig |-> "none"]
\* What the face is given to put: an lp::Nack or a Data, with the state its
\* signature leaves in, where the code put it from - a handler or callback, the
\* node in the handler's place, or onFailed - and what it was made of.
Packet == [kind : {"Data", "Nack"}, sig : {"none", "valid", "stale"},
           by : {"app", "node", "failure"}, given : AppData \cup {ErrorData}]
Failed == {"failed", "misrouted"}
Closed == {"done"} \cup Failed
Phase == {"idle", "queued", "open", "async"} \cup Closed

VARIABLES
  up,          \* the process has not died of an uncaught exception
  prefix,      \* m_prefix
  handlers,    \* the keys of m_handlers
  validators,  \* m_validators
  processors,  \* the keys of m_processors
  announced,   \* m_prefix when registerPrefixes ran
  serving,     \* serveForever was called
  registering, \* filters whose registration the forwarder has not answered
  filters,     \* interest filters in force
  running,     \* the application code on the stack, none or one of
               \* <<call, "handler">> and <<call, "callback">>
  phase,       \* where each call is
  pathOf,      \* the path handleInterest found for it
  sent,        \* its *sent flag
  pit,         \* the interest its handler showed
  wire         \* the packets put for it, in order

config == <<prefix, handlers, validators, processors>>
face == <<announced, serving, registering, filters>>
calls == <<running, phase, pathOf, sent, pit, wire>>
vars == <<up, config, face, calls>>

TypeOK ==
  /\ up \in BOOLEAN
  /\ prefix \in Prefix
  /\ handlers \subseteq Path
  /\ validators \in [Path -> SUBSET Validator]
  /\ processors \subseteq Path
  /\ announced \in Prefix
  /\ serving \in BOOLEAN
  /\ registering \subseteq Filter
  /\ filters \subseteq Filter
  /\ running \subseteq Call \X {"handler", "callback"}
  /\ phase \in [Call -> Phase]
  /\ pathOf \in [Call -> Path]
  /\ sent \in [Call -> BOOLEAN]
  /\ pit \in [Call -> {"none", "pending", "data", "nack", "timeout"}]
  /\ wire \in [Call -> Seq(Packet)]

Init ==
  /\ up = TRUE
  /\ prefix \in Prefix
  /\ handlers = {}
  /\ validators = [p \in Path |-> {}]
  /\ processors = {}
  /\ announced = prefix
  /\ serving = FALSE
  /\ registering = {}
  /\ filters = {}
  /\ running = {}
  /\ phase = [c \in Call |-> "idle"]
  /\ pathOf = [c \in Call |-> Root]
  /\ sent = [c \in Call |-> FALSE]
  /\ pit = [c \in Call |-> "none"]
  /\ wire = [c \in Call |-> << >>]

-----------------------------------------------------------------------------
(***************************************************************************)
(* Names: parseInterestName and handleInterest's lookups                   *)
(***************************************************************************)

Rest(i) == SubSeq(NameOf[i], Len(prefix) + 1, Len(NameOf[i]))

\* Altered: paths matched against the whole name, the prefix not cut off.
MatchingWholeName(i) == {p \in handlers \ {Root} : IsPrefix(p, NameOf[i])}

\* The routed paths, "/" apart, that the name continues with after m_prefix.
Matching(i) == {p \in handlers \ {Root} : IsPrefix(p, Rest(i))}

\* The first match in the order of the map: of two paths of one name the
\* shorter sorts first.  Without a match the default path "/" is taken.
Chosen(i, p) ==
  \/ p \in Matching(i) /\ \A q \in Matching(i) : Len(p) <= Len(q)
  \/ p = Root /\ Matching(i) = {}

Rejected(i, p) == \E v \in validators[p] : <<v, i>> \in Rejects

-----------------------------------------------------------------------------
(***************************************************************************)
(* Packets: sendData and onFailed                                          *)
(***************************************************************************)

\* A processor rewrites the packet, and so outdates a signature it carries.
Processed(p, d) ==
  IF p \in processors /\ d.sig = "valid" THEN [d EXCEPT !.sig = "stale"] ELSE d
Signed(d) == IF d.sig = "none" THEN [d EXCEPT !.sig = "valid"] ELSE d
\* The freshness period is part of what the signature covers.
Refreshed(d) == IF d.fresh THEN d ELSE [d EXCEPT !.fresh = TRUE, !.sig = "stale"]

\* Altered: signed before it is processed.
SignFirst(p, d) == Refreshed(Processed(p, Signed(d)))
Outgoing(p, d) == Refreshed(Signed(Processed(p, d)))

Put(c, kind, sig, by, d) ==
  wire' = [wire EXCEPT ![c] =
             Append(@, [kind |-> kind, sig |-> sig, by |-> by, given |-> d])]

\* Altered: *sent is not set.
SendDataUnmarked(c, d, by) ==
  \/ /\ d.type = "nack"
     /\ Put(c, "Nack", "none", by, d)
     /\ UNCHANGED sent
  \/ /\ d.type # "nack"
     /\ Put(c, "Data", Outgoing(pathOf[c], d).sig, by, d)
     /\ UNCHANGED sent

SendData(c, d, by) ==
  \/ /\ d.type = "nack"
     /\ Put(c, "Nack", "none", by, d)
     /\ UNCHANGED sent
  \/ /\ d.type # "nack"
     /\ Put(c, "Data", Outgoing(pathOf[c], d).sig, by, d)
     /\ sent' = [sent EXCEPT ![c] = TRUE]

\* A packet for the call other than onFailed's, whose Data has no name and
\* answers nobody.
HasAnswer(c) == \E n \in 1..Len(wire[c]) : wire[c][n].by # "failure"

\* Altered: an error packet that cannot be made leaves the process running.
OnFailedSwallowed(c, to) ==
  /\ running' = {}
  /\ phase' = [phase EXCEPT ![c] = to]
  /\ \/ Put(c, "Data", "valid", "failure", ErrorData)
     \/ UNCHANGED wire
  /\ UNCHANGED <<up, pathOf, sent>>

\* onInterest calls onFailed outside its try.  It puts its packet and the call
\* is closed; or sign or put throws, which leaves processEvents and
\* serveForever: the process dies, and the call stays where it was.
OnFailed(c, to) ==
  /\ running' = {}
  /\ \/ /\ Put(c, "Data", "valid", "failure", ErrorData)
        /\ phase' = [phase EXCEPT ![c] = to]
        /\ UNCHANGED up
     \/ up' = FALSE /\ UNCHANGED <<phase, wire>>
  /\ UNCHANGED <<pathOf, sent>>

-----------------------------------------------------------------------------
(***************************************************************************)
(* Configuration, by application code: before serveForever, in a handler   *)
(* or callback, or in a callback the application gave to the face itself   *)
(***************************************************************************)

Queued == {c \in Call : phase[c] = "queued"}
LoopIsIdle == up /\ running = {} /\ Queued = {}
AppCodeRuns == up /\ (running # {} \/ Queued = {})

\* Validators and processors of an earlier route of the path stay in force
\* unless new ones are given.
Route(p, vs, process) ==
  /\ AppCodeRuns
  /\ handlers' = handlers \cup {p}
  /\ validators' = IF vs = {} THEN validators ELSE [validators EXCEPT ![p] = vs]
  /\ processors' = IF process THEN processors \cup {p} ELSE processors
  /\ UNCHANGED <<up, prefix, face, calls>>

SetPrefix(pre) ==
  /\ AppCodeRuns
  /\ prefix' = pre
  /\ UNCHANGED <<up, handlers, validators, processors, face, calls>>

\* Altered: paths registered without the prefix.
ServeBarePaths ==
  /\ up /\ ~serving
  /\ serving' = TRUE
  /\ announced' = prefix
  /\ registering' = handlers
  /\ UNCHANGED <<up, config, filters, calls>>

\* serveForever: registerPrefixes sets a filter for every path routed so far.
ServeForever ==
  /\ up /\ ~serving
  /\ serving' = TRUE
  /\ announced' = prefix
  /\ registering' = {prefix \o p : p \in handlers}
  /\ UNCHANGED <<up, config, filters, calls>>

-----------------------------------------------------------------------------
(***************************************************************************)
(* The face: registrations and interests                                   *)
(***************************************************************************)

PrefixRegistered(f) ==
  /\ LoopIsIdle
  /\ f \in registering
  /\ registering' = registering \ {f}
  /\ filters' = filters \cup {f}
  /\ UNCHANGED <<up, config, announced, serving, calls>>

\* onRegisterPrefixFailed throws out of processEvents and of serveForever.
PrefixRefused(f) ==
  /\ LoopIsIdle
  /\ f \in registering
  /\ up' = FALSE
  /\ UNCHANGED <<config, face, calls>>

\* An interest arrives: the face calls every filter its name matches.
Deliver(i) ==
  LET matched == {f \in filters : IsPrefix(f, NameOf[i])} IN
  /\ LoopIsIdle
  /\ matched # {}
  /\ \A f \in Filter : phase[<<i, f>>] = "idle"
  /\ phase' = [c \in Call |-> IF c[1] = i /\ c[2] \in matched
                              THEN "queued" ELSE phase[c]]
  /\ UNCHANGED <<up, config, face, running, pathOf, sent, pit, wire>>

\* onInterest runs until it enters the handler or fails before that.

\* parseInterestName or the handler lookup throws.
Misroute(c) == OnFailed(c, "misrouted")

\* validate throws.
Reject(c) == OnFailed(c, "failed")

Invoke(c, p) ==
  /\ phase' = [phase EXCEPT ![c] = "open"]
  /\ pathOf' = [pathOf EXCEPT ![c] = p]
  /\ running' = {<<c, "handler">>}
  /\ UNCHANGED <<up, sent, wire>>

Dispatch(c) ==
  \/ ~IsPrefix(prefix, NameOf[c[1]]) /\ Misroute(c)
  \/ /\ IsPrefix(prefix, NameOf[c[1]])
     /\ \E p \in Path :
          /\ Chosen(c[1], p)
          /\ \/ Rejected(c[1], p) /\ Reject(c)
             \/ ~Rejected(c[1], p) /\ p \notin handlers /\ Misroute(c)
             \/ ~Rejected(c[1], p) /\ p \in handlers /\ Invoke(c, p)

\* Altered: no interest is taken up while a call is asynchronous.
OneAtATime(c) ==
  /\ up /\ running = {}
  /\ phase[c] = "queued"
  /\ \A other \in Call : pit[other] # "pending"
  /\ Dispatch(c)
  /\ UNCHANGED <<config, face, pit>>

OnInterest(c) ==
  /\ up /\ running = {}
  /\ phase[c] = "queued"
  /\ Dispatch(c)
  /\ UNCHANGED <<config, face, pit>>

-----------------------------------------------------------------------------
(***************************************************************************)
(* The application's handler                                               *)
(***************************************************************************)

HandlerPut(c) ==
  /\ Len(wire[c]) < MaxPut
  /\ \E d \in AppData : SendData(c, d, "app")
  /\ UNCHANGED <<up, running, phase, pathOf, pit>>

\* showInterest; a call shows at most one interest.
HandlerShow(c) ==
  /\ pit[c] = "none"
  /\ pit' = [pit EXCEPT ![c] = "pending"]
  /\ UNCHANGED <<up, running, phase, pathOf, sent, wire>>

\* The handler returns true.  By its contract (handlers.hpp:30) data is sent
\* asynchronously: the interest it showed is still pending.
HandlerReturnAsync(c) ==
  /\ pit[c] = "pending"
  /\ phase' = [phase EXCEPT ![c] = "async"]
  /\ running' = {}
  /\ UNCHANGED <<up, pathOf, sent, pit, wire>>

\* Altered: no fallback after a silent handler.
ReturnSyncSilent(c) ==
  /\ phase' = [phase EXCEPT ![c] = "done"]
  /\ running' = {}
  /\ UNCHANGED <<up, pathOf, sent, pit, wire>>

\* The handler returns false: the node puts the handler's data itself unless
\* data was sent already.
HandlerReturnSync(c) ==
  /\ \/ sent[c] /\ UNCHANGED <<sent, wire>>
     \/ ~sent[c] /\ \E d \in AppData : SendData(c, d, "node")
  /\ phase' = [phase EXCEPT ![c] = "done"]
  /\ running' = {}
  /\ UNCHANGED <<up, pathOf, pit>>

\* The handler, or a processor run by its put, throws: onInterest catches.
HandlerThrow(c) == OnFailed(c, "failed") /\ UNCHANGED pit

HandlerStep(c) ==
  /\ up /\ <<c, "handler">> \in running
  /\ \/ HandlerPut(c)
     \/ HandlerShow(c)
     \/ HandlerReturnAsync(c)
     \/ HandlerReturnSync(c)
     \/ HandlerThrow(c)
  /\ UNCHANGED <<config, face>>

-----------------------------------------------------------------------------
(***************************************************************************)
(* The interest a handler showed                                           *)
(***************************************************************************)

\* Altered: the interest may be answered again.
AnsweredAgain(c, how) ==
  /\ LoopIsIdle
  /\ pit[c] # "none"
  /\ pit' = [pit EXCEPT ![c] = how]
  /\ UNCHANGED <<config, face, phase, pathOf, sent, wire>>

Answered(c, how) ==
  /\ LoopIsIdle
  /\ pit[c] = "pending"
  /\ pit' = [pit EXCEPT ![c] = how]
  /\ UNCHANGED <<config, face, phase, pathOf, sent, wire>>

OnData(c) ==
  /\ Answered(c, "data")
  /\ running' = {<<c, "callback">>}
  /\ UNCHANGED up

\* The NACK callback only logs.
OnNack(c) ==
  /\ Answered(c, "nack")
  /\ UNCHANGED <<up, running>>

\* The timeout callback calls proc with an application Nack, through a
\* reference to a parameter of showInterest, which has returned: the callback
\* runs as if the object were still there, or the process dies.
OnTimeout(c) ==
  /\ Answered(c, "timeout")
  /\ \/ running' = {<<c, "callback">>} /\ UNCHANGED up
     \/ up' = FALSE /\ UNCHANGED running

CallbackPut(c) ==
  /\ Len(wire[c]) < MaxPut
  /\ \E d \in AppData : SendData(c, d, "app")
  /\ UNCHANGED <<up, running, phase, pathOf, pit>>

\* The contract of an asynchronous handler: its callback puts data.
CallbackReturn(c) ==
  /\ phase[c] = "async" => HasAnswer(c)
  /\ running' = {}
  /\ UNCHANGED <<up, phase, pathOf, sent, pit, wire>>

\* Nothing above a callback catches: the exception leaves serveForever.
CallbackThrow(c) ==
  /\ up' = FALSE
  /\ running' = {}
  /\ UNCHANGED <<phase, pathOf, sent, pit, wire>>

CallbackStep(c) ==
  /\ up /\ <<c, "callback">> \in running
  /\ CallbackPut(c) \/ CallbackReturn(c) \/ CallbackThrow(c)
  /\ UNCHANGED <<config, face>>

-----------------------------------------------------------------------------
Configure ==
  \/ \E p \in Path, vs \in SUBSET Validator, process \in BOOLEAN :
        Route(p, vs, process)
  \/ \E pre \in Prefix : SetPrefix(pre)
  \/ ServeForever

ShownEvent(c) == OnData(c) \/ OnNack(c) \/ OnTimeout(c)

Next ==
  \/ Configure
  \/ \E f \in Filter : PrefixRegistered(f) \/ PrefixRefused(f)
  \/ \E i \in Interest : Deliver(i)
  \/ \E c \in Call : OnInterest(c) \/ HandlerStep(c) \/ CallbackStep(c)
  \/ \E c \in Call : ShownEvent(c)

Spec == Init /\ [][Next]_vars

\* The loop turns: a queued call is dispatched, and handlers and callbacks,
\* whose puts are bounded, return.  The face satisfies, nacks or times out
\* every interest it has expressed.
FairSpec ==
  /\ Spec
  /\ WF_vars(\E c \in Call : OnInterest(c) \/ HandlerStep(c) \/ CallbackStep(c))
  /\ \A c \in Call : WF_vars(ShownEvent(c))

-----------------------------------------------------------------------------
(***************************************************************************)
(* Properties                                                              *)
(***************************************************************************)

\* A call that the node is done with has put a packet.  When its handler
\* returned false that packet is the handler's or handleInterest's fallback;
\* when it failed or found no handler it is onFailed's, which is put and yet
\* answers nobody.  A call that onFailed could not close is not done with.
ClosedPutPacket ==
  \A c \in Call :
    /\ phase[c] = "done" => HasAnswer(c)
    /\ phase[c] \in Failed => wire[c] # << >>

\* The fallback of handleInterest puts a packet in the handler's place only
\* when no Data has gone out for the call: what precedes it are Nacks (*sent).
\* What onFailed puts is not the fallback and may well follow Data: the
\* handler's, when it throws after its put.
FallbackOnlyWhenSilent ==
  \A c \in Call : \A n \in 1..Len(wire[c]) :
    wire[c][n].by = "node" =>
      \A m \in 1..(n - 1) : wire[c][m].kind = "Nack"

\* Data that the application hands over unsigned and with a freshness period
\* leaves with a signature over all that leaves: processors run before it.
SignatureCoversProcessing ==
  \A c \in Call : \A n \in 1..Len(wire[c]) :
    LET p == wire[c][n] IN
    p.kind = "Data" /\ p.given.fresh /\ p.given.sig = "none" => p.sig = "valid"

\* An interest that reached the node through one of its filters is never lost
\* between parseInterestName and the handler lookup, unless setPrefix moved the
\* node away from the prefix its filters were registered under.
NoHandlerLost ==
  [][\A c \in Call : phase[c] = "queued" /\ phase'[c] = "misrouted"
                        => prefix # announced]_vars

\* Every call the loop took up comes to its end or to waiting for the interest
\* it showed, and that wait ends as well, unless the process dies.
CallsSettle ==
  \A c \in Call :
    /\ phase[c] \in {"queued", "open"} ~> phase[c] \in Closed \cup {"async"} \/ ~up
    /\ phase[c] = "async" ~> pit[c] # "pending" \/ ~up

\* The calls of a node implement EventLoop: one at a time, each to its end or
\* to that of the process.  A call that showed an interest is over when the
\* callback has returned.
Concluded(c) ==
  /\ phase[c] = "async" /\ HasAnswer(c)
  /\ pit[c] \in {"data", "timeout"} /\ <<c, "callback">> \notin running
StageOf(c) ==
  IF phase[c] = "done" \/ Concluded(c) THEN "over"
  ELSE IF phase[c] \in Failed THEN "failed"
  ELSE IF phase[c] = "async" /\ pit[c] = "nack" THEN "dropped" ELSE phase[c]
Stage == [c \in Call |-> StageOf(c)]

Loop == INSTANCE EventLoop WITH
  Request <- Call, Answer <- {p \in Packet : p.by # "failure"},
  Notice <- {p \in Packet : p.by = "failure"},
  alive <- up, stage <- Stage, current <- {r[1] : r \in running},
  ended <- {c \in Call : pit[c] \in {"data", "nack", "timeout"}}, replies <- wire

ImplementsLoop == Loop!Spec

-----------------------------------------------------------------------------
(***************************************************************************)
(* What comments of the code say and the code does not do                  *)
(***************************************************************************)

\* node-impl.cpp:230 "sign the data if it is not signed yet .": Data that the
\* application hands over unsigned leaves with a valid signature.
UnsignedDataIsSigned ==
  \A c \in Call : \A n \in 1..Len(wire[c]) :
    wire[c][n].kind = "Data" /\ wire[c][n].given.sig = "none"
      => wire[c][n].sig = "valid"

=============================================================================
