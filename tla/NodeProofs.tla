----------------------------- MODULE NodeProofs -----------------------------
(***************************************************************************)
(* Theorems about NodeImpl, for every set of names, paths, interests,      *)
(* validators and data, and any number of puts.                            *)
(***************************************************************************)
EXTENDS NodeImpl, SequenceTheorems, TLAPS

-----------------------------------------------------------------------------
(***************************************************************************)
(* Types                                                                   *)
(***************************************************************************)

\* What sendData makes of a packet has a signature state.
LEMMA OutgoingSig ==
  ASSUME NEW p, NEW d \in AnyData
  PROVE  /\ Outgoing(p, d).sig \in {"valid", "stale"}
         /\ d.fresh /\ d.sig = "none" => Outgoing(p, d).sig = "valid"
BY DEF Outgoing, Refreshed, Signed, Processed, AnyData

\* sendData puts a Nack and leaves *sent, or a Data and sets it.
LEMMA SendDataWire ==
  ASSUME TypeOK, NEW c \in Call, NEW d \in AppData, NEW by \in {"app", "node"},
         SendData(c, d, by)
  PROVE  \E p \in Packet :
           /\ wire' = [wire EXCEPT ![c] = Append(@, p)]
           /\ p.by = by /\ p.given = d
           /\ \/ p.kind = "Nack" /\ sent' = sent
              \/ /\ p.kind = "Data" /\ sent' = [sent EXCEPT ![c] = TRUE]
                 /\ d.fresh /\ d.sig = "none" => p.sig = "valid"
<1> DEFINE sig == IF d.type = "nack" THEN "none" ELSE Outgoing(pathOf[c], d).sig
           kind == IF d.type = "nack" THEN "Nack" ELSE "Data"
           p == [kind |-> kind, sig |-> sig, by |-> by, given |-> d]
<1>1. d \in AnyData
  BY NodeAssumption
<1>2. sig \in {"none", "valid", "stale"}
  BY <1>1, OutgoingSig
<1>3. p \in Packet
  BY <1>2 DEF Packet
<1>4. wire' = [wire EXCEPT ![c] = Append(@, p)]
  BY DEF SendData, Put
<1>5. \/ kind = "Nack" /\ sent' = sent
      \/ kind = "Data" /\ sent' = [sent EXCEPT ![c] = TRUE]
  BY DEF SendData
<1>6. kind = "Data" /\ d.fresh /\ d.sig = "none" => sig = "valid"
  BY <1>1, OutgoingSig
<1> QED
  BY <1>3, <1>4, <1>5, <1>6

\* onFailed puts the error packet and closes the call, or ends the process.
LEMMA OnFailedWire ==
  ASSUME TypeOK, NEW c \in Call, NEW to, OnFailed(c, to)
  PROVE  /\ running' = {} /\ UNCHANGED <<pathOf, sent>>
         /\ \/ /\ \E p \in Packet : /\ wire' = [wire EXCEPT ![c] = Append(@, p)]
                                   /\ p.by = "failure" /\ ~p.given.fresh
               /\ phase' = [phase EXCEPT ![c] = to] /\ UNCHANGED up
            \/ up' = FALSE /\ UNCHANGED <<phase, wire>>
<1> DEFINE p == [kind |-> "Data", sig |-> "valid", by |-> "failure", given |-> ErrorData]
<1>1. p \in Packet /\ p.by = "failure" /\ ~p.given.fresh
  BY DEF Packet, ErrorData
<1>2. ASSUME Put(c, "Data", "valid", "failure", ErrorData)
      PROVE  wire' = [wire EXCEPT ![c] = Append(@, p)]
  BY <1>2 DEF Put
<1> HIDE DEF p
<1> QED
  BY <1>1, <1>2 DEF OnFailed

\* Appending a packet keeps the type of wire.
LEMMA AppendType ==
  ASSUME TypeOK, NEW c \in Call, NEW p \in Packet,
         wire' = [wire EXCEPT ![c] = Append(@, p)]
  PROVE  wire' \in [Call -> Seq(Packet)]
<1>1. Append(wire[c], p) \in Seq(Packet)
  BY DEF TypeOK
<1> QED
  BY <1>1 DEF TypeOK

\* onFailed keeps the types of what it touches.
LEMMA OnFailedType ==
  ASSUME TypeOK, NEW c \in Call, NEW to \in Failed, OnFailed(c, to)
  PROVE  /\ wire' \in [Call -> Seq(Packet)] /\ phase' \in [Call -> Phase]
         /\ up' \in BOOLEAN /\ running' = {} /\ UNCHANGED <<pathOf, sent>>
         /\ sent' \in [Call -> BOOLEAN] /\ pathOf' \in [Call -> Path]
<1>1. wire' \in [Call -> Seq(Packet)]
  BY OnFailedWire, AppendType DEF TypeOK
<1>2. phase' \in [Call -> Phase] /\ up' \in BOOLEAN
  <2>1. phase' = phase \/ phase' = [phase EXCEPT ![c] = to]
    BY OnFailedWire
  <2>2. to \in Phase
    BY DEF Phase, Closed
  <2>3. up' = up \/ up' = FALSE
    BY OnFailedWire
  <2> QED
    BY <2>1, <2>2, <2>3 DEF TypeOK
<1> QED
  BY <1>1, <1>2, OnFailedWire DEF TypeOK

LEMMA InitType == Init => TypeOK
<1> SUFFICES ASSUME Init PROVE TypeOK
  OBVIOUS
<1>1. wire \in [Call -> Seq(Packet)]
  <2>1. << >> \in Seq(Packet)
    OBVIOUS
  <2> QED
    BY <2>1 DEF Init
<1>2. phase \in [Call -> Phase] /\ pathOf \in [Call -> Path]
  BY NodeAssumption DEF Init, Phase
<1>3. running \subseteq Call \X {"handler", "callback"}
  BY DEF Init
<1> QED
  BY <1>1, <1>2, <1>3 DEF Init, TypeOK

LEMMA ConfigureType ==
  ASSUME TypeOK, Configure
  PROVE  TypeOK'
<1>1. ASSUME NEW p \in Path, NEW vs \in SUBSET Validator, NEW process \in BOOLEAN,
             Route(p, vs, process)
      PROVE  TypeOK'
  BY <1>1 DEF Route, TypeOK, face, calls
<1>2. ASSUME NEW pre \in Prefix, SetPrefix(pre) PROVE TypeOK'
  BY <1>2 DEF SetPrefix, TypeOK, face, calls
<1>3. CASE ServeForever
  <2>1. registering' \subseteq Filter
    <3>0. prefix \in Prefix
      BY DEF TypeOK
    <3>1. \A p \in Path : prefix \o p \in Filter
      BY <3>0 DEF Filter
    <3>2. registering' = {prefix \o p : p \in handlers} /\ handlers \subseteq Path
      BY <1>3 DEF ServeForever, TypeOK
    <3> QED
      BY <3>1, <3>2
  <2> QED
    BY <1>3, <2>1 DEF ServeForever, TypeOK, config, calls
<1> QED
  BY <1>1, <1>2, <1>3 DEF Configure

LEMMA FaceType ==
  ASSUME TypeOK, NEW f \in Filter, PrefixRegistered(f) \/ PrefixRefused(f)
  PROVE  TypeOK'
BY DEF PrefixRegistered, PrefixRefused, TypeOK, config, face, calls

LEMMA DeliverType ==
  ASSUME TypeOK, NEW i \in Interest, Deliver(i)
  PROVE  TypeOK'
<1>1. phase' \in [Call -> Phase]
  BY DEF Deliver, TypeOK, Phase
<1> QED
  BY <1>1 DEF Deliver, TypeOK, config, face

LEMMA OnInterestType ==
  ASSUME TypeOK, NEW c \in Call, OnInterest(c)
  PROVE  TypeOK'
<1>1. ASSUME NEW to \in Failed, OnFailed(c, to) PROVE TypeOK'
  <2>1. UNCHANGED <<config, face, pit>>
    BY DEF OnInterest
  <2> QED
    BY <1>1, <2>1, OnFailedType DEF TypeOK, config, face
<1>2. ASSUME NEW p \in Path, Invoke(c, p) PROVE TypeOK'
  BY <1>2 DEF Invoke, OnInterest, TypeOK, config, face, Phase
<1> QED
  BY <1>1, <1>2 DEF OnInterest, Dispatch, Misroute, Reject, Failed

LEMMA HandlerStepType ==
  ASSUME TypeOK, NEW c \in Call, HandlerStep(c)
  PROVE  TypeOK'
<1>1. wire' \in [Call -> Seq(Packet)] /\ sent' \in [Call -> BOOLEAN]
  <2>1. ASSUME NEW d \in AppData, NEW by \in {"app", "node"}, SendData(c, d, by)
        PROVE  wire' \in [Call -> Seq(Packet)] /\ sent' \in [Call -> BOOLEAN]
    <3>1. wire' \in [Call -> Seq(Packet)]
      BY <2>1, SendDataWire, AppendType
    <3>2. sent' \in [Call -> BOOLEAN]
      BY <2>1 DEF SendData, TypeOK
    <3> QED
      BY <3>1, <3>2
  <2>2. ASSUME OnFailed(c, "failed")
        PROVE  wire' \in [Call -> Seq(Packet)] /\ sent' \in [Call -> BOOLEAN]
    BY <2>2, OnFailedType DEF Failed
  <2>3. ASSUME UNCHANGED <<wire, sent>>
        PROVE  wire' \in [Call -> Seq(Packet)] /\ sent' \in [Call -> BOOLEAN]
    BY <2>3 DEF TypeOK
  <2> QED
    BY <2>1, <2>2, <2>3 DEF HandlerStep, HandlerPut, HandlerShow,
         HandlerReturnAsync, HandlerReturnSync, HandlerThrow
<1>2. running' = running \/ running' = {}
  BY DEF HandlerStep, HandlerPut, HandlerShow, HandlerReturnAsync,
         HandlerReturnSync, HandlerThrow, OnFailed
<1>3. phase' \in [Call -> Phase]
  <2>1. CASE HandlerThrow(c)
    BY <2>1, OnFailedType DEF HandlerThrow, Failed
  <2>2. CASE ~HandlerThrow(c)
    BY <2>2 DEF HandlerStep, HandlerPut, HandlerShow, HandlerReturnAsync,
                HandlerReturnSync, TypeOK, Phase, Closed
  <2> QED
    BY <2>1, <2>2
<1>4. pit' \in [Call -> {"none", "pending", "data", "nack", "timeout"}]
  BY DEF HandlerStep, HandlerPut, HandlerShow, HandlerReturnAsync,
         HandlerReturnSync, HandlerThrow, TypeOK
<1>5. UNCHANGED <<config, face, pathOf>> /\ up' \in BOOLEAN
  BY DEF HandlerStep, HandlerPut, HandlerShow, HandlerReturnAsync,
         HandlerReturnSync, HandlerThrow, OnFailed, TypeOK
<1> QED
  BY <1>1, <1>2, <1>3, <1>4, <1>5 DEF TypeOK, config, face

LEMMA ShownEventType ==
  ASSUME TypeOK, NEW c \in Call, ShownEvent(c)
  PROVE  TypeOK'
<1>1. ASSUME NEW how \in {"data", "nack", "timeout"}, Answered(c, how)
      PROVE  /\ UNCHANGED <<config, face, phase, pathOf, sent, wire>>
             /\ pit' \in [Call -> {"none", "pending", "data", "nack", "timeout"}]
  BY <1>1 DEF Answered, TypeOK
<1>2. up' \in BOOLEAN
  BY DEF ShownEvent, OnData, OnNack, OnTimeout, TypeOK
<1>3. running' = running \/ running' = {<<c, "callback">>}
  BY DEF ShownEvent, OnData, OnNack, OnTimeout
<1>4. /\ UNCHANGED <<config, face, phase, pathOf, sent, wire>>
      /\ pit' \in [Call -> {"none", "pending", "data", "nack", "timeout"}]
  BY <1>1 DEF ShownEvent, OnData, OnNack, OnTimeout
<1> QED
  BY <1>2, <1>3, <1>4 DEF TypeOK, config, face

LEMMA CallbackStepType ==
  ASSUME TypeOK, NEW c \in Call, CallbackStep(c)
  PROVE  TypeOK'
<1>1. CASE CallbackPut(c)
  <2>1. wire' \in [Call -> Seq(Packet)]
    BY <1>1, SendDataWire, AppendType DEF CallbackPut
  <2>2. sent' \in [Call -> BOOLEAN]
    BY <1>1 DEF CallbackPut, SendData, TypeOK
  <2> QED
    BY <1>1, <2>1, <2>2 DEF CallbackStep, CallbackPut, TypeOK, config, face
<1>2. CASE CallbackReturn(c) \/ CallbackThrow(c)
  BY <1>2 DEF CallbackStep, CallbackReturn, CallbackThrow, TypeOK, config, face
<1> QED
  BY <1>1, <1>2 DEF CallbackStep

LEMMA NextType == TypeOK /\ [Next]_vars => TypeOK'
<1> SUFFICES ASSUME TypeOK, [Next]_vars PROVE TypeOK'
  OBVIOUS
<1>1. CASE UNCHANGED vars
  BY <1>1 DEF vars, config, face, calls, TypeOK
<1> QED
  BY <1>1, ConfigureType, FaceType, DeliverType, OnInterestType,
     HandlerStepType, ShownEventType, CallbackStepType DEF Next

\* The dispatcher keeps the types of its tables and of what it keeps per call.
THEOREM TypeCorrect == Spec => []TypeOK
BY InitType, NextType, PTL DEF Spec

-----------------------------------------------------------------------------
(***************************************************************************)
(* Answers                                                                 *)
(***************************************************************************)

AllNacks(w) == \A n \in 1..Len(w) : w[n].kind = "Nack"
Answering(w) == \E n \in 1..Len(w) : w[n].by # "failure"
FallbackAfterNacks(w) ==
  \A n \in 1..Len(w) : w[n].by = "node" =>
    \A m \in 1..(n - 1) : w[m].kind = "Nack"
SignaturesCover(w) ==
  \A n \in 1..Len(w) :
    w[n].kind = "Data" /\ w[n].given.fresh /\ w[n].given.sig = "none"
      => w[n].sig = "valid"

\* What holds of one call.  The flag *sent is what ties the packets to the
\* fallback: as long as it is down only Nacks have gone out, and once it is up
\* an answer has.
CallOK(c) ==
  /\ phase[c] = "done" => Answering(wire[c])
  /\ phase[c] \in Failed => wire[c] # << >>
  /\ sent[c] => Answering(wire[c])
  /\ phase[c] \in {"idle", "queued", "open"} /\ ~sent[c] => AllNacks(wire[c])
  /\ FallbackAfterNacks(wire[c])
  /\ SignaturesCover(wire[c])

\* The handler on the stack is that of an open call.
HandlerIsOpen == \A c \in Call : <<c, "handler">> \in running => phase[c] = "open"

AnswerInv == TypeOK /\ HandlerIsOpen /\ \A c \in Call : CallOK(c)

LEMMA AppendPacket ==
  ASSUME NEW w \in Seq(Packet), NEW p \in Packet, NEW v, v = Append(w, p)
  PROVE  /\ v # << >>
         /\ AllNacks(w) /\ p.kind = "Nack" => AllNacks(v)
         /\ Answering(w) \/ p.by # "failure" => Answering(v)
         /\ FallbackAfterNacks(w) /\ (p.by = "node" => AllNacks(w))
            => FallbackAfterNacks(v)
         /\ SignaturesCover(w)
              /\ (p.kind = "Data" /\ p.given.fresh /\ p.given.sig = "none"
                    => p.sig = "valid")
            => SignaturesCover(v)
<1>1. Len(v) = Len(w) + 1 /\ Len(w) \in Nat
  OBVIOUS
<1>2. \A n \in 1..Len(v) : v[n] = IF n = Len(v) THEN p ELSE w[n]
  BY <1>1
<1>3. v # << >>
  BY <1>1
<1>4. AllNacks(w) /\ p.kind = "Nack" => AllNacks(v)
  BY <1>1, <1>2 DEF AllNacks
<1>5. FallbackAfterNacks(w) /\ (p.by = "node" => AllNacks(w))
      => FallbackAfterNacks(v)
  BY <1>1, <1>2 DEF AllNacks, FallbackAfterNacks
<1>7. Answering(w) \/ p.by # "failure" => Answering(v)
  BY <1>1, <1>2 DEF Answering
<1>6. SignaturesCover(w)
        /\ (p.kind = "Data" /\ p.given.fresh /\ p.given.sig = "none"
              => p.sig = "valid")
      => SignaturesCover(v)
  BY <1>1, <1>2 DEF SignaturesCover
<1> QED
  BY <1>3, <1>4, <1>5, <1>6, <1>7

\* sendData keeps what holds of a call, by the application at any time, by the
\* node while the call is open and *sent is down.
LEMMA SendDataCallOK ==
  ASSUME TypeOK, NEW c \in Call, NEW d \in AppData, NEW by \in {"app", "node"},
         CallOK(c), SendData(c, d, by),
         by = "node" => phase[c] = "open" /\ ~sent[c]
  PROVE  /\ wire'[c] # << >> /\ Answering(wire'[c])
         /\ phase[c] \in {"idle", "queued", "open"} /\ ~sent'[c]
              => AllNacks(wire'[c])
         /\ FallbackAfterNacks(wire'[c])
         /\ SignaturesCover(wire'[c])
         /\ \A e \in Call \ {c} : wire'[e] = wire[e] /\ sent'[e] = sent[e]
<1>1. PICK p \in Packet :
        /\ wire' = [wire EXCEPT ![c] = Append(@, p)]
        /\ p.by = by /\ p.given = d
        /\ \/ p.kind = "Nack" /\ sent' = sent
           \/ /\ p.kind = "Data" /\ sent' = [sent EXCEPT ![c] = TRUE]
              /\ d.fresh /\ d.sig = "none" => p.sig = "valid"
  BY SendDataWire
<1>2. wire[c] \in Seq(Packet) /\ wire'[c] = Append(wire[c], p)
  BY <1>1 DEF TypeOK
<1>3. \A e \in Call \ {c} : wire'[e] = wire[e] /\ sent'[e] = sent[e]
  BY <1>1 DEF TypeOK
<1>4. wire'[c] # << >> /\ Answering(wire'[c])
  BY <1>1, <1>2, AppendPacket
<1>5. phase[c] \in {"idle", "queued", "open"} /\ ~sent'[c] => AllNacks(wire'[c])
  BY <1>1, <1>2, AppendPacket DEF CallOK, TypeOK
<1>6. FallbackAfterNacks(wire'[c])
  BY <1>1, <1>2, AppendPacket DEF CallOK
<1>7. SignaturesCover(wire'[c])
  BY <1>1, <1>2, AppendPacket DEF CallOK
<1> QED
  BY <1>3, <1>4, <1>5, <1>6, <1>7

\* So does onFailed, whether it closes the call or ends the process.
LEMMA OnFailedCallOK ==
  ASSUME AnswerInv, NEW c \in Call, NEW to \in Failed, OnFailed(c, to)
  PROVE  HandlerIsOpen' /\ \A e \in Call : CallOK(e)'
<1> TypeOK /\ \A e \in Call : CallOK(e)
  BY DEF AnswerInv
<1>1. running' = {} /\ UNCHANGED sent
  BY OnFailedWire
<1>2. CASE UNCHANGED <<phase, wire>>
  BY <1>1, <1>2 DEF CallOK, HandlerIsOpen
<1>3. ASSUME NEW p \in Packet, wire' = [wire EXCEPT ![c] = Append(@, p)],
             p.by = "failure", ~p.given.fresh, phase' = [phase EXCEPT ![c] = to]
      PROVE  \A e \in Call : CallOK(e)'
  <2>1. wire[c] \in Seq(Packet) /\ wire'[c] = Append(wire[c], p)
    BY <1>3 DEF TypeOK
  <2>2. phase'[c] = to
    BY <1>3 DEF TypeOK
  <2>3. /\ wire'[c] # << >> /\ FallbackAfterNacks(wire'[c])
        /\ sent'[c] => Answering(wire'[c])
    BY <1>1, <1>3, <2>1, AppendPacket DEF CallOK
  <2>4. SignaturesCover(wire'[c])
    BY <1>3, <2>1, AppendPacket DEF CallOK
  <2>5. CallOK(c)'
    BY <2>2, <2>3, <2>4 DEF CallOK, Failed
  <2>6. \A e \in Call \ {c} : wire'[e] = wire[e] /\ phase'[e] = phase[e]
    BY <1>3 DEF TypeOK
  <2>7. ASSUME NEW e \in Call \ {c} PROVE CallOK(e)'
    BY <1>1, <2>6 DEF CallOK
  <2> QED
    BY <2>5, <2>7
<1> QED
  BY <1>1, <1>2, <1>3, OnFailedWire DEF HandlerIsOpen

LEMMA OnInterestInv ==
  ASSUME AnswerInv, NEW c \in Call, OnInterest(c)
  PROVE  HandlerIsOpen' /\ \A e \in Call : CallOK(e)'
<1> TypeOK /\ CallOK(c) /\ phase[c] = "queued" /\ running = {}
  BY DEF AnswerInv, OnInterest
<1>1. ASSUME NEW to \in Failed, OnFailed(c, to)
      PROVE  HandlerIsOpen' /\ \A e \in Call : CallOK(e)'
  BY <1>1, OnFailedCallOK
<1>2. ASSUME NEW p \in Path, Invoke(c, p)
      PROVE  HandlerIsOpen' /\ \A e \in Call : CallOK(e)'
  <2>1. /\ phase'[c] = "open" /\ \A e \in Call \ {c} : phase'[e] = phase[e]
        /\ UNCHANGED <<sent, wire>>
        /\ running' = {<<c, "handler">>}
    BY <1>2 DEF Invoke, TypeOK
  <2>2. \A e \in Call : CallOK(e)'
    BY <2>1 DEF CallOK, AnswerInv, Failed
  <2> QED
    BY <2>1, <2>2 DEF HandlerIsOpen
<1>3. Misroute(c) \/ Reject(c) \/ \E p \in Path : Invoke(c, p)
  BY DEF OnInterest, Dispatch
<1> QED
  BY <1>1, <1>2, <1>3 DEF Misroute, Reject, Failed

LEMMA HandlerStepInv ==
  ASSUME AnswerInv, NEW c \in Call, HandlerStep(c)
  PROVE  HandlerIsOpen' /\ \A e \in Call : CallOK(e)'
<1> TypeOK /\ CallOK(c) /\ phase[c] = "open"
  BY DEF AnswerInv, HandlerStep, HandlerIsOpen
<1>1. CASE HandlerPut(c)
  <2>1. PICK d \in AppData : SendData(c, d, "app")
    BY <1>1 DEF HandlerPut
  <2>2. UNCHANGED <<phase, running>>
    BY <1>1 DEF HandlerPut
  <2>3. \A e \in Call : CallOK(e)'
    BY <2>1, <2>2, SendDataCallOK DEF CallOK, AnswerInv, Failed
  <2> QED
    BY <2>2, <2>3 DEF HandlerIsOpen, AnswerInv
<1>2. CASE HandlerShow(c)
  BY <1>2 DEF HandlerShow, CallOK, HandlerIsOpen, AnswerInv
<1>3. CASE HandlerReturnAsync(c)
  <2>1. /\ phase'[c] = "async" /\ \A e \in Call \ {c} : phase'[e] = phase[e]
        /\ UNCHANGED <<sent, wire>>
        /\ running' = {}
    BY <1>3 DEF HandlerReturnAsync, TypeOK
  <2> QED
    BY <2>1 DEF CallOK, HandlerIsOpen, AnswerInv, Failed
<1>4. CASE HandlerReturnSync(c)
  <2>1. /\ phase'[c] = "done" /\ \A e \in Call \ {c} : phase'[e] = phase[e]
        /\ running' = {}
    BY <1>4 DEF HandlerReturnSync, TypeOK
  <2>2. CASE sent[c] /\ UNCHANGED <<sent, wire>>
    BY <2>1, <2>2 DEF CallOK, HandlerIsOpen, AnswerInv, Failed
  <2>3. CASE ~sent[c] /\ \E d \in AppData : SendData(c, d, "node")
    <3>1. PICK d \in AppData : SendData(c, d, "node")
      BY <2>3
    <3>2. \A e \in Call : CallOK(e)'
      BY <2>1, <2>3, <3>1, SendDataCallOK DEF CallOK, AnswerInv, Failed
    <3> QED
      BY <2>1, <3>2 DEF HandlerIsOpen
  <2> QED
    BY <1>4, <2>2, <2>3 DEF HandlerReturnSync
<1>5. CASE HandlerThrow(c)
  BY <1>5, OnFailedCallOK DEF HandlerThrow, Failed
<1> QED
  BY <1>1, <1>2, <1>3, <1>4, <1>5 DEF HandlerStep

LEMMA CallbackStepInv ==
  ASSUME AnswerInv, NEW c \in Call, CallbackStep(c)
  PROVE  HandlerIsOpen' /\ \A e \in Call : CallOK(e)'
<1> TypeOK /\ CallOK(c)
  BY DEF AnswerInv
<1>1. CASE CallbackPut(c)
  <2>1. PICK d \in AppData : SendData(c, d, "app")
    BY <1>1 DEF CallbackPut
  <2>2. UNCHANGED <<phase, running>>
    BY <1>1 DEF CallbackPut
  <2>3. \A e \in Call : CallOK(e)'
    BY <2>1, <2>2, SendDataCallOK DEF CallOK, AnswerInv
  <2> QED
    BY <2>2, <2>3 DEF HandlerIsOpen, AnswerInv
<1>2. CASE CallbackReturn(c) \/ CallbackThrow(c)
  BY <1>2 DEF CallbackReturn, CallbackThrow, CallOK, HandlerIsOpen, AnswerInv
<1> QED
  BY <1>1, <1>2 DEF CallbackStep

LEMMA AnswerInit == Init => AnswerInv
<1> SUFFICES ASSUME Init PROVE AnswerInv
  OBVIOUS
<1>1. \A c \in Call : CallOK(c)
  BY DEF Init, CallOK, Failed, AllNacks, FallbackAfterNacks, SignaturesCover
<1>2. TypeOK
  BY InitType
<1> QED
  BY <1>1, <1>2 DEF AnswerInv, HandlerIsOpen, Init

LEMMA AnswerNext == AnswerInv /\ [Next]_vars => AnswerInv'
<1> SUFFICES ASSUME AnswerInv, [Next]_vars PROVE AnswerInv'
  OBVIOUS
<1>1. TypeOK'
  BY NextType DEF AnswerInv
<1> DEFINE Others == HandlerIsOpen /\ \A e \in Call : CallOK(e)
<1>2. ASSUME UNCHANGED calls PROVE Others'
  BY <1>2 DEF calls, CallOK, HandlerIsOpen, AnswerInv
<1>3. ASSUME NEW i \in Interest, Deliver(i) PROVE Others'
  <2>1. \A c \in Call : phase'[c] = phase[c] \/ phase'[c] = "queued"
    BY <1>3 DEF Deliver
  <2>2. \A c \in Call : phase'[c] = "queued" => phase[c] \in {"idle", "queued"}
    BY <1>3 DEF Deliver, Call
  <2>3. UNCHANGED <<sent, wire>> /\ running' = {}
    BY <1>3 DEF Deliver, LoopIsIdle
  <2> QED
    BY <2>1, <2>2, <2>3 DEF CallOK, HandlerIsOpen, AnswerInv, Failed
<1>4. ASSUME NEW c \in Call, ShownEvent(c) PROVE Others'
  <2>1. UNCHANGED <<phase, sent, wire>>
    BY <1>4 DEF ShownEvent, OnData, OnNack, OnTimeout, Answered
  <2>2. running' = {} \/ running' = {<<c, "callback">>}
    BY <1>4 DEF ShownEvent, OnData, OnNack, OnTimeout, Answered, LoopIsIdle
  <2> QED
    BY <2>1, <2>2 DEF CallOK, HandlerIsOpen, AnswerInv
<1>5. \/ UNCHANGED calls
      \/ \E i \in Interest : Deliver(i)
      \/ \E c \in Call : OnInterest(c) \/ HandlerStep(c) \/ CallbackStep(c)
      \/ \E c \in Call : ShownEvent(c)
  BY DEF Next, vars, Configure, Route, SetPrefix, ServeForever,
         PrefixRegistered, PrefixRefused
<1>6. Others'
  BY <1>2, <1>3, <1>4, <1>5, OnInterestInv, HandlerStepInv, CallbackStepInv
<1> QED
  BY <1>1, <1>6 DEF AnswerInv

LEMMA AnswerInvIsEnough ==
  AnswerInv => ClosedPutPacket /\ FallbackOnlyWhenSilent /\ SignatureCoversProcessing
BY DEF AnswerInv, CallOK, Answering, HasAnswer, FallbackAfterNacks, SignaturesCover,
       ClosedPutPacket, FallbackOnlyWhenSilent, SignatureCoversProcessing

\* A call whose handler returned false has put a packet of the handler's or
\* the fallback's, however often handler and callback put; one that onFailed
\* closed has put onFailed's, which answers nobody.
THEOREM ClosedCallsPut == Spec => []ClosedPutPacket
BY AnswerInit, AnswerNext, AnswerInvIsEnough, PTL DEF Spec

\* handleInterest's fallback never follows Data; of what onFailed puts this
\* says nothing.
THEOREM Fallback == Spec => []FallbackOnlyWhenSilent
BY AnswerInit, AnswerNext, AnswerInvIsEnough, PTL DEF Spec

\* What the node signs and need not touch again leaves with a valid signature.
THEOREM Signatures == Spec => []SignatureCoversProcessing
BY AnswerInit, AnswerNext, AnswerInvIsEnough, PTL DEF Spec

-----------------------------------------------------------------------------
(***************************************************************************)
(* Routing                                                                 *)
(***************************************************************************)

\* A prefix in terms of components.
LEMMA PrefixByComponents ==
  ASSUME NEW s \in Name, NEW t \in Name
  PROVE  IsPrefix(s, t) <=> Len(s) <= Len(t) /\ \A n \in 1..Len(s) : s[n] = t[n]
<1> Len(s) \in Nat /\ Len(t) \in Nat
  BY DEF Name
<1>1. ASSUME Len(s) <= Len(t)
      PROVE  /\ SubSeq(s, 1, Len(s)) = s
             /\ SubSeq(t, 1, Len(s)) \in Name
             /\ Len(SubSeq(t, 1, Len(s))) = Len(s)
             /\ \A n \in 1..Len(s) : SubSeq(t, 1, Len(s))[n] = t[n]
  BY <1>1, SubSeqProperties, SubSeqFull DEF Name
<1>2. ASSUME Len(s) <= Len(t), \A n \in 1..Len(s) : s[n] = t[n]
      PROVE  SubSeq(t, 1, Len(s)) = s
  BY <1>1, <1>2, SeqEqual DEF Name
<1> QED
  BY <1>1, <1>2 DEF IsPrefix

\* A name that continues a filter continues its prefix, and then its path.
LEMMA PrefixThenPath ==
  ASSUME NEW pre \in Name, NEW p \in Name, NEW name \in Name,
         IsPrefix(pre \o p, name)
  PROVE  /\ IsPrefix(pre, name)
         /\ IsPrefix(p, SubSeq(name, Len(pre) + 1, Len(name)))
<1> DEFINE f == pre \o p
           rest == SubSeq(name, Len(pre) + 1, Len(name))
<1>1. Len(pre) \in Nat /\ Len(p) \in Nat /\ Len(name) \in Nat
  BY DEF Name
<1>2. /\ f \in Name /\ Len(f) = Len(pre) + Len(p)
      /\ \A n \in 1..Len(f) : f[n] = IF n <= Len(pre) THEN pre[n] ELSE p[n - Len(pre)]
  BY ConcatProperties DEF Name
<1>3. Len(f) <= Len(name) /\ \A n \in 1..Len(f) : f[n] = name[n]
  BY <1>2, PrefixByComponents
<1>4. IsPrefix(pre, name)
  BY <1>1, <1>2, <1>3, PrefixByComponents
<1>5. /\ rest \in Name /\ Len(rest) = Len(name) - Len(pre)
      /\ \A n \in 1..Len(rest) : rest[n] = name[Len(pre) + n]
  <2>1. Len(pre) <= Len(name)
    BY <1>1, <1>2, <1>3
  <2>2. rest \in Name
    BY <1>1, <2>1 DEF Name
  <2>3. Len(rest) = Len(name) - Len(pre)
    BY <1>1, <2>1 DEF Name
  <2>4. \A n \in 1..Len(rest) : rest[n] = name[Len(pre) + n]
    BY <1>1, <2>1, <2>3 DEF Name
  <2> QED
    BY <2>2, <2>3, <2>4
<1>6. \A n \in 1..Len(p) : p[n] = rest[n]
  BY <1>1, <1>2, <1>3, <1>5
<1>7. Len(p) <= Len(rest)
  BY <1>1, <1>2, <1>3, <1>5
<1>8. IsPrefix(p, rest)
  <2> HIDE DEF f, rest
  <2> QED
    BY <1>5, <1>6, <1>7, PrefixByComponents
<1> QED
  BY <1>4, <1>8

\* The filters are those of paths routed before the node served, under the
\* prefix it had then, and a queued call came through one of them.
RoutingInv ==
  /\ TypeOK
  /\ ~serving => registering = {} /\ filters = {}
  /\ \A f \in registering \cup filters : \E p \in handlers : f = announced \o p
  /\ \A c \in Call : phase[c] = "queued" =>
       c[2] \in filters /\ IsPrefix(c[2], NameOf[c[1]])

LEMMA RoutingInit == Init => RoutingInv
<1> SUFFICES ASSUME Init PROVE RoutingInv
  OBVIOUS
<1>1. TypeOK
  BY InitType
<1> QED
  BY <1>1 DEF Init, RoutingInv

LEMMA OnInterestPhase ==
  ASSUME NEW c \in Call, OnInterest(c)
  PROVE  \/ phase' = phase
         \/ \E to \in {"misrouted", "failed", "open"} : phase' = [phase EXCEPT ![c] = to]
BY DEF OnInterest, Dispatch, Misroute, Reject, OnFailed, Invoke

LEMMA HandlerStepPhase ==
  ASSUME NEW c \in Call, HandlerStep(c)
  PROVE  \/ phase' = phase
         \/ \E to \in {"async", "done", "failed"} : phase' = [phase EXCEPT ![c] = to]
BY DEF HandlerStep, HandlerPut, HandlerShow, HandlerReturnAsync,
       HandlerReturnSync, HandlerThrow, OnFailed

LEMMA RoutingNext == RoutingInv /\ [Next]_vars => RoutingInv'
<1> SUFFICES ASSUME RoutingInv, [Next]_vars PROVE RoutingInv'
  OBVIOUS
<1>1. TypeOK'
  BY NextType DEF RoutingInv
<1> TypeOK
  BY DEF RoutingInv
<1>2. ASSUME NEW p \in Path, NEW vs \in SUBSET Validator, NEW process \in BOOLEAN,
             Route(p, vs, process)
      PROVE  RoutingInv'
  BY <1>1, <1>2 DEF Route, face, calls, RoutingInv
<1>3. CASE ServeForever
  <2>1. filters = {} /\ filters' = {} /\ phase' = phase /\ handlers' = handlers
    BY <1>3 DEF ServeForever, RoutingInv, config, calls
  <2>2. /\ serving' /\ announced' = prefix
        /\ registering' = {prefix \o p : p \in handlers}
    BY <1>3 DEF ServeForever
  <2> QED
    BY <1>1, <2>1, <2>2 DEF RoutingInv
<1>4. ASSUME NEW f \in Filter, PrefixRegistered(f) PROVE RoutingInv'
  BY <1>1, <1>4 DEF PrefixRegistered, config, calls, RoutingInv
<1>5. ASSUME NEW i \in Interest, Deliver(i) PROVE RoutingInv'
  <2>1. UNCHANGED <<config, face>>
    BY <1>5 DEF Deliver
  <2>2. ASSUME NEW c \in Call, phase'[c] = "queued"
        PROVE  phase[c] = "queued" \/ (c[2] \in filters /\ IsPrefix(c[2], NameOf[c[1]]))
    BY <1>5, <2>2 DEF Deliver
  <2> QED
    BY <1>1, <2>1, <2>2 DEF config, face, RoutingInv
<1>6. ASSUME UNCHANGED <<handlers, face>>,
             \A c \in Call : phase'[c] = "queued" => phase[c] = "queued"
      PROVE  RoutingInv'
  BY <1>1, <1>6 DEF face, RoutingInv
<1>7. ASSUME NEW c \in Call, OnInterest(c) PROVE RoutingInv'
  <2>1. phase' = phase \/ \E to \in {"misrouted", "failed", "open"} : phase' = [phase EXCEPT ![c] = to]
    BY <1>7, OnInterestPhase
  <2>2. \A e \in Call : phase'[e] = "queued" => phase[e] = "queued"
    BY <2>1 DEF TypeOK
  <2> QED
    BY <1>6, <1>7, <2>2 DEF OnInterest, config
<1>8. ASSUME NEW c \in Call, HandlerStep(c) PROVE RoutingInv'
  <2>1. \/ phase' = phase
        \/ \E to \in {"async", "done", "failed"} : phase' = [phase EXCEPT ![c] = to]
    BY <1>8, HandlerStepPhase
  <2>2. \A e \in Call : phase'[e] = "queued" => phase[e] = "queued"
    BY <2>1 DEF TypeOK
  <2> QED
    BY <1>6, <1>8, <2>2 DEF HandlerStep, config
<1>9. ASSUME NEW c \in Call, CallbackStep(c) \/ ShownEvent(c) PROVE RoutingInv'
  <2>1. UNCHANGED <<config, face, phase>>
    BY <1>9 DEF CallbackStep, CallbackPut, CallbackReturn, CallbackThrow,
                ShownEvent, OnData, OnNack, OnTimeout, Answered
  <2> QED
    BY <1>6, <2>1 DEF config
<1>10. ASSUME NEW pre \in Prefix, SetPrefix(pre) PROVE RoutingInv'
  BY <1>6, <1>10 DEF SetPrefix, calls
<1>11. ASSUME NEW f \in Filter, PrefixRefused(f) PROVE RoutingInv'
  BY <1>6, <1>11 DEF PrefixRefused, config, calls
<1>12. CASE UNCHANGED vars
  BY <1>6, <1>12 DEF vars, config, calls
<1>13. CASE Configure
  BY <1>2, <1>3, <1>10, <1>13 DEF Configure
<1> QED
  BY <1>4, <1>5, <1>7, <1>8, <1>9, <1>11, <1>12, <1>13 DEF Next

\* While the prefix is the one the filters were set under, the call of a
\* filter finds a handler.
LEMMA RoutedIsFound ==
  ASSUME RoutingInv, NEW c \in Call, phase[c] = "queued", prefix = announced,
         Dispatch(c)
  PROVE  Reject(c) \/ \E p \in Path : Invoke(c, p)
<1>1. PICK p \in handlers : c[2] = prefix \o p
  BY DEF RoutingInv
<1>2. /\ prefix \in Name /\ p \in Name /\ NameOf[c[1]] \in Name
      /\ IsPrefix(prefix \o p, NameOf[c[1]])
  <2>1. p \in Path /\ prefix \in Prefix /\ c[1] \in Interest
    BY DEF RoutingInv, TypeOK, Call
  <2>2. IsPrefix(prefix \o p, NameOf[c[1]])
    BY <1>1 DEF RoutingInv
  <2> QED
    BY <2>1, <2>2, NodeAssumption
<1>3. IsPrefix(prefix, NameOf[c[1]]) /\ IsPrefix(p, Rest(c[1]))
  BY <1>2, PrefixThenPath DEF Rest
<1>4. p = Root \/ p \in Matching(c[1])
  BY <1>3 DEF Matching
<1>5. \A q \in Path : Chosen(c[1], q) => q \in handlers
  BY <1>4 DEF Chosen, Matching
<1> QED
  BY <1>3, <1>5 DEF Dispatch

LEMMA OnlyDispatchMisroutes ==
  ASSUME TypeOK, [Next]_vars, NEW c \in Call,
         phase[c] = "queued", phase'[c] = "misrouted"
  PROVE  Dispatch(c) /\ ~Reject(c) /\ \A p \in Path : ~Invoke(c, p)
<1>1. ~Reject(c) /\ \A p \in Path : ~Invoke(c, p)
  BY DEF Reject, OnFailed, Invoke, TypeOK
<1>2. ASSUME NEW e \in Call, OnInterest(e) PROVE Dispatch(c)
  <2>1. \E to \in {"misrouted", "failed", "open"} : phase' = [phase EXCEPT ![e] = to]
    BY <1>2, OnInterestPhase
  <2>2. e = c
    BY <2>1 DEF TypeOK
  <2> QED
    BY <1>2, <2>2 DEF OnInterest
<1>3. ASSUME NEW e \in Call, HandlerStep(e) PROVE FALSE
  <2>1. \/ phase' = phase
        \/ \E to \in {"async", "done", "failed"} : phase' = [phase EXCEPT ![e] = to]
    BY <1>3, HandlerStepPhase
  <2> QED
    BY <2>1 DEF TypeOK
<1>4. ASSUME NEW e \in Call, CallbackStep(e) \/ ShownEvent(e) PROVE FALSE
  BY <1>4 DEF CallbackStep, CallbackPut, CallbackReturn, CallbackThrow,
              ShownEvent, OnData, OnNack, OnTimeout, Answered
<1>5. ASSUME NEW i \in Interest, Deliver(i) PROVE FALSE
  BY <1>5 DEF Deliver
<1>6. CASE \/ Configure
           \/ \E f \in Filter : PrefixRegistered(f) \/ PrefixRefused(f)
           \/ UNCHANGED vars
  BY <1>6 DEF Configure, Route, SetPrefix, ServeForever, PrefixRegistered,
              PrefixRefused, vars, calls
<1> QED
  BY <1>1, <1>2, <1>3, <1>4, <1>5, <1>6 DEF Next

\* An interest that came through a filter is lost to "prefix does not match" or
\* "Cannot find handler" only after setPrefix, whatever is routed and when.
THEOREM Routing == Spec => NoHandlerLost
<1>1. ASSUME RoutingInv, [Next]_vars, NEW c \in Call,
             phase[c] = "queued", phase'[c] = "misrouted"
      PROVE  prefix # announced
  BY <1>1, OnlyDispatchMisroutes, RoutedIsFound DEF RoutingInv
<1>2. RoutingInv /\ [Next]_vars =>
        [\A c \in Call : phase[c] = "queued" /\ phase'[c] = "misrouted"
                            => prefix # announced]_vars
  BY <1>1
<1> QED
  BY <1>2, RoutingInit, RoutingNext, PTL DEF Spec, NoHandlerLost

-----------------------------------------------------------------------------
(***************************************************************************)
(* The calls of a node implement EventLoop                                 *)
(***************************************************************************)

Ended(c) == pit[c] \in {"data", "nack", "timeout"}

\* One piece of code is on the stack: the handler of the one open call, or the
\* callback of a call whose handler has returned and whose interest has ended.
\* In a process that died in a handler a call is open and nothing runs.
OneRuns ==
  /\ \A r \in running : running = {r}
  /\ \A c \in Call : <<c, "handler">> \in running => phase[c] = "open"
  /\ \A c \in Call : up /\ phase[c] = "open" => <<c, "handler">> \in running
  /\ \A c \in Call : <<c, "callback">> \in running =>
       phase[c] \in Closed \cup {"async"} /\ pit[c] \in {"data", "timeout"}

\* Interests are shown by handlers that were called, and end after they return.
ShownByHandlers ==
  \A c \in Call : /\ pit[c] # "none" => phase[c] \in Closed \cup {"open", "async"}
                  /\ phase[c] = "open" => ~Ended(c)

LoopInv == AnswerInv /\ OneRuns /\ ShownByHandlers

LEMMA LoopInit == Init => LoopInv
<1> SUFFICES ASSUME Init PROVE LoopInv
  OBVIOUS
<1>1. AnswerInv
  BY AnswerInit
<1> QED
  BY <1>1 DEF Init, LoopInv, OneRuns, ShownByHandlers, Ended

\* What a step of the application's code, and onFailed, do to the wire.
Replies(c) == Loop!Reply(c, {p \in Packet : p.by # "failure"})
Reports(c) == Loop!Reply(c, {p \in Packet : p.by = "failure"})

LEMMA SendDataAppends ==
  ASSUME TypeOK, NEW c \in Call, NEW d \in AppData, NEW by \in {"app", "node"},
         SendData(c, d, by)
  PROVE  Replies(c)
BY SendDataWire DEF Loop!Reply, Replies

LEMMA OnFailedReports ==
  ASSUME TypeOK, NEW c \in Call, NEW to, OnFailed(c, to)
  PROVE  /\ running' = {}
         /\ \/ Reports(c) /\ phase' = [phase EXCEPT ![c] = to] /\ UNCHANGED up
            \/ up' = FALSE /\ UNCHANGED <<phase, wire>>
BY OnFailedWire DEF Loop!Reply, Reports

\* A packet more on the wire of a call, that of others as before.
LEMMA ReplyWire ==
  ASSUME TypeOK, NEW c \in Call, Replies(c) \/ Reports(c)
  PROVE  /\ \A e \in Call \ {c} : wire'[e] = wire[e]
         /\ HasAnswer(c) \/ Replies(c) => HasAnswer(c)'
<1>1. PICK p \in Packet : /\ wire' = [wire EXCEPT ![c] = Append(@, p)]
                          /\ Replies(c) => p.by # "failure"
  BY DEF Loop!Reply, Replies, Reports
<1>2. wire[c] \in Seq(Packet) /\ wire'[c] = Append(wire[c], p)
  BY <1>1 DEF TypeOK
<1>3. HasAnswer(c) \/ Replies(c) => HasAnswer(c)'
  BY <1>1, <1>2, AppendPacket DEF HasAnswer, Answering
<1> QED
  BY <1>1, <1>3 DEF TypeOK

\* An answer of EventLoop's is one of the call's.
LEMMA AnsweredIs ==
  ASSUME TypeOK, NEW c \in Call
  PROVE  Loop!Answered(c) <=> HasAnswer(c)
<1>1. \A n \in 1..Len(wire[c]) : wire[c][n] \in Packet
  BY DEF TypeOK
<1> QED
  BY <1>1 DEF Loop!Answered, HasAnswer

\* The steps, in terms of what the loop's invariant and mapping speak of.
LEMMA HandlerStepCases ==
  ASSUME TypeOK, NEW c \in Call, HandlerStep(c)
  PROVE  /\ up /\ <<c, "handler">> \in running
         /\ \/ Replies(c) /\ UNCHANGED <<up, running, phase, pit>>
            \/ /\ pit[c] = "none" /\ pit' = [pit EXCEPT ![c] = "pending"]
               /\ UNCHANGED <<up, running, phase, wire>>
            \/ /\ pit[c] = "pending" /\ phase' = [phase EXCEPT ![c] = "async"]
               /\ running' = {} /\ UNCHANGED <<up, pit, wire>>
            \/ /\ (sent[c] /\ UNCHANGED wire) \/ Replies(c)
               /\ phase' = [phase EXCEPT ![c] = "done"]
               /\ running' = {} /\ UNCHANGED <<up, pit>>
            \/ /\ Reports(c) /\ phase' = [phase EXCEPT ![c] = "failed"]
               /\ running' = {} /\ UNCHANGED <<up, pit>>
            \/ /\ up' = FALSE /\ running' = {}
               /\ UNCHANGED <<phase, pit, wire>>
<1>1. up /\ <<c, "handler">> \in running
  BY DEF HandlerStep
<1>2. CASE HandlerPut(c)
  BY <1>1, <1>2, SendDataAppends DEF HandlerPut
<1>3. CASE HandlerShow(c)
  BY <1>1, <1>3 DEF HandlerShow
<1>4. CASE HandlerReturnAsync(c)
  BY <1>1, <1>4 DEF HandlerReturnAsync
<1>5. CASE HandlerReturnSync(c)
  BY <1>1, <1>5, SendDataAppends DEF HandlerReturnSync
<1>6. CASE HandlerThrow(c)
  BY <1>1, <1>6, OnFailedReports DEF HandlerThrow
<1> QED
  BY <1>2, <1>3, <1>4, <1>5, <1>6 DEF HandlerStep

LEMMA DeliverCases ==
  ASSUME NEW i \in Interest, Deliver(i)
  PROVE  /\ LoopIsIdle /\ UNCHANGED <<up, running, pit, wire>>
         /\ \E cs \in SUBSET Call :
              /\ \A c \in cs : phase[c] = "idle"
              /\ phase' = [c \in Call |-> IF c \in cs THEN "queued" ELSE phase[c]]
         /\ \A c \in Call : phase'[c] = phase[c] \/ (phase[c] = "idle" /\ phase'[c] = "queued")
<1> DEFINE cs == {c \in Call : c[1] = i /\ c[2] \in filters /\ IsPrefix(c[2], NameOf[i])}
<1>1. \A c \in cs : phase[c] = "idle"
  <2> TAKE c \in cs
  <2>1. c = <<i, c[2]>> /\ c[2] \in Filter
    BY DEF Call
  <2>2. \A f \in Filter : phase[<<i, f>>] = "idle"
    BY DEF Deliver
  <2> QED
    BY <2>1, <2>2
<1>2. phase' = [c \in Call |-> IF c \in cs THEN "queued" ELSE phase[c]]
  BY DEF Deliver
<1>3. LoopIsIdle /\ UNCHANGED <<up, running, pit, wire>>
  BY DEF Deliver
<1> HIDE DEF cs
<1>4. cs \in SUBSET Call
  BY DEF cs
<1> QED
  BY <1>1, <1>2, <1>3, <1>4

LEMMA OnInterestCases ==
  ASSUME TypeOK, NEW c \in Call, OnInterest(c)
  PROVE  /\ up /\ running = {} /\ phase[c] = "queued" /\ UNCHANGED pit
         /\ \/ /\ Reports(c) /\ UNCHANGED <<up, running>>
               /\ \E to \in Failed : phase' = [phase EXCEPT ![c] = to]
            \/ up' = FALSE /\ UNCHANGED <<running, phase, wire>>
            \/ /\ phase' = [phase EXCEPT ![c] = "open"]
               /\ running' = {<<c, "handler">>} /\ UNCHANGED <<up, wire>>
<1>1. up /\ running = {} /\ phase[c] = "queued" /\ UNCHANGED pit
  BY DEF OnInterest
<1>2. \/ \E to \in Failed : OnFailed(c, to)
      \/ \E p \in Path : Invoke(c, p)
  BY DEF OnInterest, Dispatch, Misroute, Reject, Failed
<1>3. ASSUME NEW p \in Path, Invoke(c, p)
      PROVE  /\ phase' = [phase EXCEPT ![c] = "open"]
             /\ running' = {<<c, "handler">>} /\ UNCHANGED <<up, wire>>
  BY <1>3 DEF Invoke
<1> QED
  BY <1>1, <1>2, <1>3, OnFailedReports

LEMMA CallbackStepCases ==
  ASSUME TypeOK, NEW c \in Call, CallbackStep(c)
  PROVE  /\ up /\ <<c, "callback">> \in running /\ UNCHANGED <<phase, pit>>
         /\ \/ Replies(c) /\ UNCHANGED <<up, running>>
            \/ /\ phase[c] = "async" => HasAnswer(c)
               /\ running' = {} /\ UNCHANGED <<up, wire>>
            \/ up' = FALSE /\ running' = {} /\ UNCHANGED wire
<1>1. up /\ <<c, "callback">> \in running
  BY DEF CallbackStep
<1>2. CASE CallbackPut(c)
  BY <1>1, <1>2, SendDataAppends DEF CallbackPut
<1>3. CASE CallbackReturn(c)
  BY <1>1, <1>3 DEF CallbackReturn
<1>4. CASE CallbackThrow(c)
  BY <1>1, <1>4 DEF CallbackThrow
<1> QED
  BY <1>2, <1>3, <1>4 DEF CallbackStep

LEMMA ShownEventCases ==
  ASSUME TypeOK, NEW c \in Call, ShownEvent(c)
  PROVE  /\ LoopIsIdle /\ pit[c] = "pending" /\ UNCHANGED <<phase, wire>>
         /\ \/ /\ \E how \in {"data", "timeout"} : pit' = [pit EXCEPT ![c] = how]
               /\ running' = {<<c, "callback">>} /\ UNCHANGED up
            \/ pit' = [pit EXCEPT ![c] = "nack"] /\ UNCHANGED <<up, running>>
            \/ /\ pit' = [pit EXCEPT ![c] = "timeout"]
               /\ up' = FALSE /\ UNCHANGED running
BY DEF ShownEvent, OnData, OnNack, OnTimeout, Answered

LEMMA LoopNext == LoopInv /\ [Next]_vars => LoopInv'
<1> SUFFICES ASSUME LoopInv, [Next]_vars PROVE LoopInv'
  OBVIOUS
<1> DEFINE More == OneRuns /\ ShownByHandlers
<1>1. AnswerInv' /\ TypeOK
  BY AnswerNext DEF LoopInv, AnswerInv
<1> USE DEF OneRuns, ShownByHandlers, Ended, Closed, Failed
<1>2. ASSUME UNCHANGED calls, up' => up PROVE More'
  BY <1>2 DEF LoopInv, calls
<1>3. ASSUME NEW i \in Interest, Deliver(i) PROVE More'
  <2>1. \A c \in Call : phase'[c] = phase[c] \/ (phase[c] = "idle" /\ phase'[c] = "queued")
    BY <1>3, DeliverCases
  <2>2. UNCHANGED <<up, pit>> /\ running = {} /\ running' = {}
    BY <1>3 DEF Deliver, LoopIsIdle
  <2>3. \A c \in Call : /\ phase'[c] = "open" <=> phase[c] = "open"
                        /\ phase[c] # "idle" => phase'[c] = phase[c]
    BY <2>1
  <2>4. OneRuns'
    BY <2>2, <2>3 DEF LoopInv
  <2>5. ShownByHandlers'
    <3>1. \A c \in Call : phase[c] = "idle" => pit[c] = "none"
      BY DEF LoopInv
    <3>2. \A c \in Call : phase[c] = "open" => ~Ended(c)
      BY DEF LoopInv
    <3>3. \A c \in Call : pit[c] # "none" => phase[c] \in Closed \cup {"open", "async"}
      BY DEF LoopInv
    <3> QED
      BY <2>2, <2>3, <3>1, <3>2, <3>3
  <2> QED
    BY <2>4, <2>5
<1>4. ASSUME NEW c \in Call, OnInterest(c) PROVE More'
  <2>1. /\ up /\ running = {} /\ phase[c] = "queued" /\ UNCHANGED pit
        /\ \A e \in Call \ {c} : phase'[e] = phase[e]
        /\ \/ running' = {} /\ phase'[c] \in {"queued", "misrouted", "failed"}
           \/ running' = {<<c, "handler">>} /\ phase'[c] = "open"
    BY <1>1, <1>4, OnInterestCases DEF TypeOK, Failed
  <2>2. \A e \in Call : phase[e] # "open"
    BY <2>1 DEF LoopInv
  <2> QED
    BY <2>1, <2>2 DEF LoopInv, Failed
<1>5. ASSUME NEW c \in Call, HandlerStep(c) PROVE More'
  <2>1. /\ up /\ <<c, "handler">> \in running
        /\ \A e \in Call \ {c} : phase'[e] = phase[e] /\ pit'[e] = pit[e]
        /\ \/ UNCHANGED <<up, running, phase>> /\ pit'[c] = pit[c]
           \/ UNCHANGED <<up, running, phase>> /\ pit'[c] = "pending"
           \/ pit[c] = "pending" /\ pit'[c] = pit[c] /\ running' = {} /\ phase'[c] = "async"
           \/ pit'[c] = pit[c] /\ running' = {} /\ phase'[c] \in {"done", "failed"}
           \/ up' = FALSE /\ running' = {} /\ UNCHANGED phase /\ pit'[c] = pit[c]
    <3>1. TypeOK /\ pit \in [Call -> {"none", "pending", "data", "nack", "timeout"}]
          /\ phase \in [Call -> Phase]
      BY <1>1 DEF TypeOK
    <3> QED
      BY <1>5, <3>1, HandlerStepCases
  <2>2. phase[c] = "open" /\ running = {<<c, "handler">>} /\ ~Ended(c)
    BY <2>1 DEF LoopInv
  <2>3. \A e \in Call \ {c} : phase[e] # "open"
    BY <2>1, <2>2 DEF LoopInv
  <2>4. CASE UNCHANGED <<up, running, phase>>
    BY <2>1, <2>2, <2>4 DEF LoopInv
  <2>5. CASE running' = {} /\ phase'[c] \in Closed \cup {"async"} /\ pit'[c] = pit[c]
    <3>1. OneRuns'
      BY <2>1, <2>3, <2>5
    <3>2. ShownByHandlers'
      BY <2>1, <2>2, <2>5 DEF LoopInv
    <3> QED
      BY <3>1, <3>2
  <2>6. CASE up' = FALSE /\ running' = {} /\ UNCHANGED phase /\ pit'[c] = pit[c]
    <3>1. OneRuns'
      BY <2>6
    <3>2. ShownByHandlers'
      BY <2>1, <2>6 DEF LoopInv
    <3> QED
      BY <3>1, <3>2
  <2> QED
    BY <2>1, <2>4, <2>5, <2>6
<1>6. ASSUME NEW c \in Call, CallbackStep(c) PROVE More'
  <2>1. /\ up /\ <<c, "callback">> \in running /\ UNCHANGED <<phase, pit>>
        /\ UNCHANGED <<up, running>> \/ running' = {}
    BY <1>1, <1>6, CallbackStepCases
  <2>2. running = {<<c, "callback">>}
    BY <2>1 DEF LoopInv
  <2>3. \A e \in Call : <<e, "handler">> \notin running
    BY <2>2
  <2>4. \A e \in Call : phase[e] # "open"
    BY <2>1, <2>3 DEF LoopInv
  <2>5. OneRuns'
    <3>1. CASE UNCHANGED <<up, running>>
      BY <2>1, <3>1 DEF LoopInv
    <3>2. CASE running' = {}
      BY <2>1, <2>4, <3>2
    <3> QED
      BY <2>1, <3>1, <3>2
  <2> QED
    BY <2>1, <2>5 DEF LoopInv
<1>7. ASSUME NEW c \in Call, ShownEvent(c) PROVE More'
  <2>1. /\ running = {} /\ up /\ pit[c] = "pending" /\ UNCHANGED <<phase, wire>>
        /\ \A e \in Call \ {c} : pit'[e] = pit[e]
        /\ \/ pit'[c] \in {"data", "timeout"} /\ running' = {<<c, "callback">>}
           \/ pit'[c] = "nack" /\ running' = {}
           \/ pit'[c] = "timeout" /\ ~up' /\ running' = {}
    BY <1>1, <1>7, ShownEventCases DEF TypeOK, LoopIsIdle
  <2>2. phase[c] \in Closed \cup {"async"} /\ \A e \in Call : phase[e] # "open"
    BY <2>1 DEF LoopInv
  <2> QED
    BY <2>1, <2>2 DEF LoopInv
<1>8. \/ UNCHANGED calls /\ (up' => up)
      \/ \E i \in Interest : Deliver(i)
      \/ \E c \in Call : OnInterest(c) \/ HandlerStep(c) \/ CallbackStep(c)
      \/ \E c \in Call : ShownEvent(c)
  BY DEF Next, vars, Configure, Route, SetPrefix, ServeForever,
         PrefixRegistered, PrefixRefused
<1>9. More'
  BY <1>2, <1>3, <1>4, <1>5, <1>6, <1>7, <1>8
<1> QED
  BY <1>1, <1>9 DEF LoopInv

-----------------------------------------------------------------------------
\* The call on the stack.
LEMMA CurrentCall ==
  ASSUME LoopInv, NEW c \in Call, NEW what \in {"handler", "callback"}, <<c, what>> \in running
  PROVE  running = {<<c, what>>} /\ {r[1] : r \in running} = {c}
BY DEF LoopInv, OneRuns

\* The stage of a call, by its phase.
LEMMA StageIs ==
  ASSUME NEW c \in Call
  PROVE  /\ phase[c] \in {"idle", "queued", "open"} => Stage[c] = phase[c]
         /\ phase[c] = "done" => Stage[c] = "over"
         /\ phase[c] \in Failed => Stage[c] = "failed"
         /\ phase[c] = "async" =>
              Stage[c] = IF Concluded(c) THEN "over"
                         ELSE IF pit[c] = "nack" THEN "dropped" ELSE "async"
BY DEF Stage, StageOf, Concluded, Failed

LEMMA StageIsNext ==
  ASSUME NEW c \in Call
  PROVE  /\ phase'[c] \in {"idle", "queued", "open"} => Stage'[c] = phase'[c]
         /\ phase'[c] = "done" => Stage'[c] = "over"
         /\ phase'[c] \in Failed => Stage'[c] = "failed"
         /\ phase'[c] = "async" =>
              Stage'[c] = IF Concluded(c)' THEN "over"
                          ELSE IF pit'[c] = "nack" THEN "dropped" ELSE "async"
BY DEF Stage, StageOf, Concluded, Failed

\* Stage is a function of the calls, in either state.
LEMMA StageFunction ==
  /\ Stage = [c \in Call |-> Stage[c]]
  /\ Stage' = [c \in Call |-> Stage'[c]]
BY DEF Stage

LEMMA IdleLoop ==
  ASSUME TypeOK, LoopIsIdle
  PROVE  Loop!NothingToDo
<1>1. \A c \in Call : Stage[c] = "queued" => phase[c] = "queued"
  BY StageIs DEF TypeOK, Phase, Closed
<1>2. \A c \in Call : Stage[c] # "queued"
  BY <1>1 DEF LoopIsIdle, Queued
<1> QED
  BY <1>2 DEF LoopIsIdle, Loop!NothingToDo

\* Of one call only the stage can change where one call's state does.
LEMMA StageOfOne ==
  ASSUME NEW c \in Call,
         \A e \in Call \ {c} :
           /\ phase'[e] = phase[e] /\ wire'[e] = wire[e] /\ pit'[e] = pit[e]
           /\ <<e, "callback">> \in running <=> <<e, "callback">> \in running'
  PROVE  Stage' = [Stage EXCEPT ![c] = Stage'[c]]
<1>1. \A e \in Call \ {c} : StageOf(e)' = StageOf(e)
  BY DEF StageOf, Concluded, HasAnswer
<1> QED
  BY <1>1 DEF Stage

LEMMA SameStage ==
  ASSUME UNCHANGED <<running, phase, pit, wire>>
  PROVE  UNCHANGED Stage
BY DEF Stage, StageOf, Concluded, HasAnswer

LEMMA DeliverImplements ==
  ASSUME LoopInv, NEW i \in Interest, Deliver(i)
  PROVE  Loop!Next
<1>1. PICK cs \in SUBSET Call :
        /\ \A c \in cs : phase[c] = "idle"
        /\ phase' = [c \in Call |-> IF c \in cs THEN "queued" ELSE phase[c]]
  BY DeliverCases
<1>2. LoopIsIdle /\ UNCHANGED <<up, running, pit, wire>> /\ TypeOK
  BY DeliverCases DEF LoopInv, AnswerInv
<1>3. \A c \in cs : Stage[c] = "idle"
  BY <1>1, StageIs
<1>4. ASSUME NEW c \in cs PROVE Stage'[c] = "queued"
  BY <1>1, <1>4, StageIsNext
<1>5. ASSUME NEW c \in Call \ cs PROVE Stage'[c] = Stage[c]
  <2>1. phase'[c] = phase[c] /\ UNCHANGED <<pit, wire, running>>
    BY <1>1, <1>2
  <2> QED
    BY <2>1 DEF Stage, StageOf, Concluded, HasAnswer
<1>6. Stage' = [c \in Call |-> IF c \in cs THEN "queued" ELSE Stage[c]]
  BY <1>4, <1>5, StageFunction
<1>7. Loop!Arrive(cs)
  BY <1>2, <1>3, <1>6, IdleLoop DEF Loop!Arrive
<1> QED
  BY <1>7 DEF Loop!Next

LEMMA OnInterestImplements ==
  ASSUME LoopInv, TypeOK', NEW c \in Call, OnInterest(c)
  PROVE  Loop!Next
<1> TypeOK
  BY DEF LoopInv, AnswerInv
<1>1. up /\ running = {} /\ phase[c] = "queued" /\ UNCHANGED pit
  BY OnInterestCases
<1>2. Stage[c] = "queued" /\ {r[1] : r \in running} = {}
  BY <1>1, StageIs
<1>3. ASSUME Reports(c), UNCHANGED <<up, running>>, NEW to \in Failed,
             phase' = [phase EXCEPT ![c] = to]
      PROVE  Loop!Refuse(c)
  <2>1. phase'[c] = to /\ \A e \in Call \ {c} : phase'[e] = phase[e] /\ wire'[e] = wire[e]
    BY <1>3, ReplyWire DEF TypeOK
  <2>2. Stage' = [Stage EXCEPT ![c] = Stage'[c]] /\ Stage'[c] = "failed"
    BY <1>1, <1>3, <2>1, StageOfOne, StageIsNext
  <2> QED
    BY <1>1, <1>2, <1>3, <2>2 DEF Loop!Refuse, Loop!Move, Reports
<1>4. ASSUME phase' = [phase EXCEPT ![c] = "open"], running' = {<<c, "handler">>},
             UNCHANGED <<up, wire>>
      PROVE  Loop!Begin(c)
  <2>1. phase'[c] = "open" /\ \A e \in Call \ {c} : phase'[e] = phase[e]
    BY <1>4 DEF TypeOK
  <2>2. \A e \in Call : <<e, "callback">> \notin running /\ <<e, "callback">> \notin running'
    BY <1>1, <1>4
  <2>3. Stage' = [Stage EXCEPT ![c] = Stage'[c]] /\ Stage'[c] = "open"
    BY <1>1, <1>4, <2>1, <2>2, StageOfOne, StageIsNext
  <2>4. {r[1] : r \in running'} = {c}
    BY <1>4
  <2> QED
    BY <1>1, <1>2, <1>4, <2>3, <2>4 DEF Loop!Begin, Loop!Move
<1>5. ASSUME up' = FALSE, UNCHANGED <<running, phase, wire>>
      PROVE  Loop!Die
  BY <1>1, <1>2, <1>5, SameStage DEF Loop!Die
<1>6. Loop!Refuse(c) \/ Loop!Begin(c) \/ Loop!Die
  BY <1>3, <1>4, <1>5, OnInterestCases
<1> QED
  BY <1>6 DEF Loop!Next

LEMMA HandlerStepImplements ==
  ASSUME LoopInv, TypeOK', NEW c \in Call, HandlerStep(c)
  PROVE  [Loop!Next]_Loop!vars
<1> TypeOK /\ CallOK(c)
  BY DEF LoopInv, AnswerInv
<1>1. up /\ running = {<<c, "handler">>} /\ {r[1] : r \in running} = {c}
  BY HandlerStepCases, CurrentCall
<1>2. phase[c] = "open" /\ ~Ended(c)
  BY <1>1 DEF LoopInv, OneRuns, ShownByHandlers
<1>3. Stage[c] = "open"
  BY <1>2, StageIs
<1>4. CASE Replies(c) /\ UNCHANGED <<up, running, phase, pit>>
  <2>1. \A e \in Call \ {c} : wire'[e] = wire[e]
    BY <1>4, ReplyWire
  <2>2. Stage' = [Stage EXCEPT ![c] = Stage'[c]] /\ Stage'[c] = "open"
    BY <1>2, <1>4, <2>1, StageOfOne, StageIsNext
  <2>3. Stage' = Stage
    BY <1>3, <2>2 DEF Stage
  <2>4. Loop!Put(c)
    BY <1>1, <1>4, <2>3 DEF Loop!Put, Replies
  <2> QED
    BY <2>4 DEF Loop!Next
<1>5. CASE /\ pit[c] = "none" /\ pit' = [pit EXCEPT ![c] = "pending"]
           /\ UNCHANGED <<up, running, phase, wire>>
  <2>1. pit'[c] = "pending" /\ \A e \in Call \ {c} : pit'[e] = pit[e]
    BY <1>5 DEF TypeOK
  <2>2. Stage' = [Stage EXCEPT ![c] = Stage'[c]] /\ Stage'[c] = "open"
    BY <1>2, <1>5, <2>1, StageOfOne, StageIsNext
  <2>3. Stage' = Stage
    BY <1>3, <2>2 DEF Stage
  <2>4. {e \in Call : pit'[e] \in {"data", "nack", "timeout"}}
          = {e \in Call : pit[e] \in {"data", "nack", "timeout"}}
    BY <1>5, <2>1
  <2> QED
    BY <1>1, <1>5, <2>3, <2>4 DEF Loop!vars
<1>6. ASSUME running' = {}, NEW to, phase' = [phase EXCEPT ![c] = to], UNCHANGED pit,
             \A e \in Call \ {c} : wire'[e] = wire[e]
      PROVE  /\ Stage' = [Stage EXCEPT ![c] = Stage'[c]] /\ phase'[c] = to
             /\ {r[1] : r \in running'} = {}
  <2>1. phase'[c] = to /\ \A e \in Call \ {c} : phase'[e] = phase[e]
    BY <1>6 DEF TypeOK
  <2>2. \A e \in Call : <<e, "callback">> \notin running /\ <<e, "callback">> \notin running'
    BY <1>1, <1>6
  <2>3. Stage' = [Stage EXCEPT ![c] = Stage'[c]]
    BY <1>6, <2>1, <2>2, StageOfOne
  <2> QED
    BY <1>6, <2>1, <2>3
<1>7. CASE /\ pit[c] = "pending" /\ phase' = [phase EXCEPT ![c] = "async"]
           /\ running' = {} /\ UNCHANGED <<up, pit, wire>>
  <2>1. Stage' = [Stage EXCEPT ![c] = Stage'[c]] /\ phase'[c] = "async" /\ pit'[c] = "pending"
        /\ {r[1] : r \in running'} = {}
    BY <1>6, <1>7
  <2>2. Stage'[c] = "async"
    BY <2>1, StageIsNext DEF Concluded
  <2>3. Loop!Suspend(c)
    BY <1>1, <1>3, <1>7, <2>1, <2>2 DEF Loop!Suspend, Loop!Move
  <2> QED
    BY <2>3 DEF Loop!Next
<1>8. CASE /\ (sent[c] /\ UNCHANGED wire) \/ Replies(c)
           /\ phase' = [phase EXCEPT ![c] = "done"]
           /\ running' = {} /\ UNCHANGED <<up, pit>>
  <2>1. \A e \in Call \ {c} : wire'[e] = wire[e]
    BY <1>8, ReplyWire
  <2>2. Stage' = [Stage EXCEPT ![c] = Stage'[c]] /\ phase'[c] = "done"
        /\ {r[1] : r \in running'} = {}
    BY <1>6, <1>8, <2>1
  <2>3. Stage'[c] = "over"
    BY <2>2, StageIsNext
  <2>4. Replies(c) \/ (HasAnswer(c) /\ UNCHANGED wire)
    BY <1>8 DEF CallOK, HasAnswer, Answering
  <2>5. Loop!Finish(c)
    BY <1>1, <1>3, <1>8, <2>2, <2>3, <2>4, AnsweredIs DEF Loop!Finish, Loop!Move, Replies
  <2> QED
    BY <2>5 DEF Loop!Next
<1>9. CASE /\ Reports(c) /\ phase' = [phase EXCEPT ![c] = "failed"]
           /\ running' = {} /\ UNCHANGED <<up, pit>>
  <2>1. \A e \in Call \ {c} : wire'[e] = wire[e]
    BY <1>9, ReplyWire
  <2>2. Stage' = [Stage EXCEPT ![c] = Stage'[c]] /\ phase'[c] = "failed"
        /\ {r[1] : r \in running'} = {}
    BY <1>6, <1>9, <2>1
  <2>3. Stage'[c] = "failed"
    BY <2>2, StageIsNext DEF Failed
  <2>4. Loop!Fail(c)
    BY <1>1, <1>3, <1>9, <2>2, <2>3 DEF Loop!Fail, Loop!Move, Reports
  <2> QED
    BY <2>4 DEF Loop!Next
<1>10. CASE up' = FALSE /\ running' = {} /\ UNCHANGED <<phase, pit, wire>>
  <2>1. \A e \in Call : <<e, "callback">> \notin running /\ <<e, "callback">> \notin running'
    BY <1>1, <1>10
  <2>2. Stage' = Stage
    BY <1>10, <2>1 DEF Stage, StageOf, Concluded, HasAnswer
  <2>3. Loop!Die
    BY <1>1, <1>10, <2>2 DEF Loop!Die
  <2> QED
    BY <2>3 DEF Loop!Next
<1> QED
  BY <1>4, <1>5, <1>7, <1>8, <1>9, <1>10, HandlerStepCases

LEMMA CallbackStepImplements ==
  ASSUME LoopInv, TypeOK', NEW c \in Call, CallbackStep(c)
  PROVE  [Loop!Next]_Loop!vars
<1> TypeOK /\ CallOK(c)
  BY DEF LoopInv, AnswerInv
<1>1. /\ up /\ UNCHANGED <<phase, pit>>
      /\ running = {<<c, "callback">>} /\ {r[1] : r \in running} = {c}
  BY CallbackStepCases, CurrentCall
<1>2. phase[c] \in Closed \cup {"async"} /\ pit[c] \in {"data", "timeout"}
  BY <1>1 DEF LoopInv, OneRuns
<1>3. /\ Stage[c] \in {"async", "failed", "over"}
      /\ phase[c] = "async" <=> Stage[c] = "async"
      /\ phase[c] = "async" => ~Concluded(c)
  BY <1>1, <1>2, StageIs DEF Closed, Failed, Concluded
<1> DEFINE E == {e \in Call : pit[e] \in {"data", "nack", "timeout"}}
<1>4. c \in E /\ E' = E
  BY <1>1, <1>2
<1>5. CASE Replies(c) /\ UNCHANGED <<up, running>>
  <2>1. \A e \in Call \ {c} : wire'[e] = wire[e]
    BY <1>5, ReplyWire
  <2>2. Stage' = [Stage EXCEPT ![c] = Stage'[c]]
    BY <1>1, <1>5, <2>1, StageOfOne
  <2>3. Stage'[c] = Stage[c]
    BY <1>1, <1>2, <1>5, StageIs, StageIsNext DEF Closed, Concluded
  <2>4. Stage' = Stage
    BY <2>2, <2>3 DEF Stage
  <2>5. Loop!Put(c)
    BY <1>1, <1>5, <2>4 DEF Loop!Put, Replies
  <2> QED
    BY <2>5 DEF Loop!Next
<1>6. ASSUME running' = {}, UNCHANGED wire
      PROVE  /\ {r[1] : r \in running'} = {}
             /\ phase[c] = "async" /\ HasAnswer(c) => Stage' = [Stage EXCEPT ![c] = "over"]
             /\ ~(phase[c] = "async" /\ HasAnswer(c)) => Stage' = Stage
  <2>1. \A e \in Call \ {c} : <<e, "callback">> \notin running /\ <<e, "callback">> \notin running'
    BY <1>1, <1>6
  <2>2. Stage' = [Stage EXCEPT ![c] = Stage'[c]]
    BY <1>1, <1>6, <2>1, StageOfOne
  <2>3. Concluded(c)' <=> phase[c] = "async" /\ HasAnswer(c)
    BY <1>1, <1>2, <1>6 DEF Concluded, HasAnswer
  <2>4. phase[c] = "async" /\ HasAnswer(c) => Stage'[c] = "over"
    BY <1>1, <2>3, StageIsNext
  <2>5. ~(phase[c] = "async" /\ HasAnswer(c)) => Stage'[c] = Stage[c]
    BY <1>1, <1>2, <1>3, <2>3, StageIs, StageIsNext DEF Closed
  <2>6. Stage'[c] = Stage[c] => Stage' = Stage
    BY <2>2 DEF Stage
  <2> QED
    BY <1>6, <2>2, <2>4, <2>5, <2>6
<1>7. CASE /\ phase[c] = "async" => HasAnswer(c)
           /\ running' = {} /\ UNCHANGED <<up, wire>>
  <2>1. \/ Stage[c] = "async" /\ Loop!Answered(c) /\ Loop!Move(c, "over")
        \/ Stage[c] \in {"failed", "over"} /\ UNCHANGED Stage
    BY <1>3, <1>6, <1>7, AnsweredIs DEF Loop!Move
  <2>2. Loop!Conclude(c)
    BY <1>1, <1>4, <1>6, <1>7, <2>1 DEF Loop!Conclude
  <2> QED
    BY <2>2 DEF Loop!Next
<1>8. CASE up' = FALSE /\ running' = {} /\ UNCHANGED wire
  <2>1. E' = E \cup {c}
    BY <1>4
  <2>2. \/ Stage[c] = "async" /\ Loop!Answered(c) /\ Loop!Move(c, "over")
        \/ UNCHANGED Stage
    BY <1>3, <1>6, <1>8, AnsweredIs DEF Loop!Move
  <2>3. Loop!Die
    BY <1>1, <1>4, <1>6, <1>8, <2>1, <2>2 DEF Loop!Die
  <2> QED
    BY <2>3 DEF Loop!Next
<1> QED
  BY <1>5, <1>7, <1>8, CallbackStepCases

LEMMA ShownEventImplements ==
  ASSUME LoopInv, TypeOK', NEW c \in Call, ShownEvent(c)
  PROVE  Loop!Next
<1> TypeOK
  BY DEF LoopInv, AnswerInv
<1>1. /\ LoopIsIdle /\ up /\ running = {} /\ {r[1] : r \in running} = {}
      /\ pit[c] = "pending" /\ UNCHANGED <<phase, wire>> /\ Loop!NothingToDo
  BY ShownEventCases, IdleLoop DEF LoopIsIdle
<1>2. phase[c] \in Closed \cup {"async"}
  BY <1>1 DEF LoopInv, OneRuns, ShownByHandlers
<1>3. /\ Stage[c] \in {"async", "failed", "over"}
      /\ phase[c] = "async" <=> Stage[c] = "async"
  BY <1>1, <1>2, StageIs DEF Closed, Failed, Concluded
<1> DEFINE E == {e \in Call : pit[e] \in {"data", "nack", "timeout"}}
<1>4. c \notin E
  BY <1>1
<1>5. c \in Loop!Waiting
  BY <1>3, <1>4 DEF Loop!Waiting
<1>6. ASSUME NEW how \in {"data", "nack", "timeout"}, pit' = [pit EXCEPT ![c] = how],
             \A e \in Call \ {c} : <<e, "callback">> \in running <=> <<e, "callback">> \in running'
      PROVE  /\ E' = E \cup {c} /\ pit'[c] = how
             /\ Stage' = [Stage EXCEPT ![c] = Stage'[c]]
             /\ phase[c] # "async" => Stage'[c] = Stage[c]
             /\ Stage'[c] = Stage[c] => UNCHANGED Stage
  <2>1. pit'[c] = how /\ \A e \in Call \ {c} : pit'[e] = pit[e]
    BY <1>6 DEF TypeOK
  <2>2. Stage' = [Stage EXCEPT ![c] = Stage'[c]]
    BY <1>1, <1>6, <2>1, StageOfOne
  <2>3. phase[c] # "async" => Stage'[c] = Stage[c]
    BY <1>1, <1>2, StageIs, StageIsNext DEF Closed
  <2>4. Stage'[c] = Stage[c] => UNCHANGED Stage
    BY <2>2 DEF Stage
  <2> QED
    BY <2>1, <2>2, <2>3, <2>4
<1>7. ASSUME NEW how \in {"data", "timeout"}, pit' = [pit EXCEPT ![c] = how],
             running' = {<<c, "callback">>}, UNCHANGED up
      PROVE  Loop!Resume(c)
  <2>1. E' = E \cup {c} /\ (Stage'[c] = Stage[c] => UNCHANGED Stage)
        /\ (phase[c] # "async" => Stage'[c] = Stage[c])
    BY <1>1, <1>6, <1>7
  <2>2. phase[c] = "async" => Stage'[c] = "async"
    BY <1>1, <1>7, StageIsNext DEF Concluded, TypeOK
  <2>3. {r[1] : r \in running'} = {c}
    BY <1>7
  <2> QED
    BY <1>1, <1>3, <1>5, <1>7, <2>1, <2>2, <2>3 DEF Loop!Resume
<1>8. ASSUME pit' = [pit EXCEPT ![c] = "nack"], UNCHANGED <<up, running>>
      PROVE  Loop!Drop(c)
  <2>1. /\ E' = E \cup {c} /\ pit'[c] = "nack" /\ Stage' = [Stage EXCEPT ![c] = Stage'[c]]
        /\ phase[c] # "async" => UNCHANGED Stage
    BY <1>1, <1>6, <1>8
  <2>2. phase[c] = "async" => Stage'[c] = "dropped"
    BY <1>1, <2>1, StageIsNext DEF Concluded
  <2> QED
    BY <1>1, <1>3, <1>5, <1>8, <2>1, <2>2 DEF Loop!Drop, Loop!Move
<1>9. ASSUME pit' = [pit EXCEPT ![c] = "timeout"], up' = FALSE, UNCHANGED running
      PROVE  Loop!Die
  <2>1. /\ E' = E \cup {c} /\ pit'[c] = "timeout" /\ Stage' = [Stage EXCEPT ![c] = Stage'[c]]
        /\ Stage'[c] = Stage[c] => UNCHANGED Stage
        /\ phase[c] # "async" => Stage'[c] = Stage[c]
    BY <1>1, <1>6, <1>9
  <2>2. phase[c] = "async" => /\ HasAnswer(c) => Stage'[c] = "over"
                              /\ ~HasAnswer(c) => Stage'[c] = "async"
    BY <1>1, <1>9, <2>1, StageIsNext DEF Concluded, HasAnswer
  <2>3. \/ Stage[c] = "async" /\ Loop!Answered(c) /\ Loop!Move(c, "over")
        \/ UNCHANGED Stage
    BY <1>3, <2>1, <2>2, AnsweredIs DEF Loop!Move
  <2> QED
    BY <1>1, <1>5, <1>9, <2>1, <2>3 DEF Loop!Die
<1>10. Loop!Resume(c) \/ Loop!Drop(c) \/ Loop!Die
  BY <1>7, <1>8, <1>9, ShownEventCases
<1> QED
  BY <1>10 DEF Loop!Next

\* Registrations are refused while the loop is idle, or nothing the loop sees
\* happens.
LEMMA OtherStepsImplement ==
  ASSUME LoopInv,
         \/ Configure \/ UNCHANGED vars
         \/ \E f \in Filter : PrefixRegistered(f) \/ PrefixRefused(f)
  PROVE  [Loop!Next]_Loop!vars
<1>1. UNCHANGED <<running, phase, pit, wire>>
  BY DEF Configure, Route, SetPrefix, ServeForever, PrefixRegistered, PrefixRefused, vars, calls
<1>2. Stage' = Stage
  BY <1>1, SameStage
<1>3. CASE UNCHANGED up
  BY <1>1, <1>2, <1>3 DEF Loop!vars
<1>4. CASE \E f \in Filter : PrefixRefused(f)
  <2>1. up /\ up' = FALSE /\ running = {}
    BY <1>4 DEF PrefixRefused, LoopIsIdle
  <2>2. Loop!Die
    BY <1>1, <1>2, <2>1 DEF Loop!Die
  <2> QED
    BY <2>2 DEF Loop!Next
<1> QED
  BY <1>3, <1>4 DEF Configure, Route, SetPrefix, ServeForever, PrefixRegistered, vars

\* While the process lives requests are handled one at a time, each once, what
\* is over was answered, and what failed was reported by a packet that answers
\* nobody: the node implements EventLoop (onInterest, handleInterest,
\* showInterest), whose process may end in a handler too.
THEOREM LoopRefined == Spec => ImplementsLoop
<1>1. Init => Loop!Init
  <2> SUFFICES ASSUME Init PROVE Loop!Init
    OBVIOUS
  <2>1. \A c \in Call : StageOf(c) = "idle"
    BY DEF Init, StageOf, Concluded, Failed
  <2>2. Stage = [c \in Call |-> "idle"]
    BY <2>1 DEF Stage
  <2> QED
    BY <2>2 DEF Init, Loop!Init
<1>2. LoopInv /\ LoopInv' /\ [Next]_vars => [Loop!Next]_Loop!vars
  <2> SUFFICES ASSUME LoopInv, LoopInv', [Next]_vars PROVE [Loop!Next]_Loop!vars
    OBVIOUS
  <2>1. TypeOK'
    BY DEF LoopInv, AnswerInv
  <2>2. ASSUME NEW i \in Interest, Deliver(i) PROVE Loop!Next
    BY <2>2, DeliverImplements
  <2>3. ASSUME NEW c \in Call, OnInterest(c) \/ ShownEvent(c) PROVE Loop!Next
    BY <2>1, <2>3, OnInterestImplements, ShownEventImplements
  <2>4. ASSUME NEW c \in Call, HandlerStep(c) \/ CallbackStep(c)
        PROVE  [Loop!Next]_Loop!vars
    BY <2>1, <2>4, HandlerStepImplements, CallbackStepImplements
  <2> QED
    BY <2>2, <2>3, <2>4, OtherStepsImplement DEF Next
<1> QED
  BY <1>1, <1>2, LoopInit, LoopNext, PTL DEF Spec, ImplementsLoop, Loop!Spec
=============================================================================
