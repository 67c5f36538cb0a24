------------------------------ MODULE HourKeys ------------------------------
(***************************************************************************)
(* What the thermometer promises its consumers: the keys to an hour's      *)
(* content are published once, all together, for readers of the hour's     *)
(* day, and never change after that; the one that is handed out is always  *)
(* the same; and nothing is answered of an hour before its keys are        *)
(* published, nor after they were published for nobody.                    *)
(***************************************************************************)
CONSTANTS
  Hour, Day(_),
  Key,     \* keys of readers: records with the type and the day they are for
  Request  \* requests, each for one temperature

VARIABLES
  published,  \* the hours whose keys were published
  copies,     \* the keys: <<hour, key of readers>>
  served,     \* those handed out
  answers     \* the requests that were answered: <<request, hour>>

vars == <<published, copies, served, answers>>

Init == published = {} /\ copies = {} /\ served = {} /\ answers = {}

New(r) == \A a \in answers : a[1] # r
Of(h) == {c \in copies : c[1] = h}

\* Keys for readers of the hour's day, at most one of each type.
KeysFor(h) ==
  {ks \in SUBSET {k \in Key : k.slot = Day(h)} : \A k, l \in ks : k.type = l.type => k = l}

\* The keys of the hour, and the answer to the request they were made for.
Publish(h, r) ==
  /\ h \notin published /\ New(r)
  /\ published' = published \cup {h}
  /\ answers' = answers \cup {<<r, h>>}
  /\ \E ks \in KeysFor(h) : copies' = copies \cup ({h} \X ks)
  /\ UNCHANGED served

Answer(r, h) ==
  /\ Of(h) # {} /\ New(r)
  /\ answers' = answers \cup {<<r, h>>}
  /\ UNCHANGED <<published, copies, served>>

Serve(c) ==
  /\ \A d \in served : d[1] # c[1]
  /\ served' = served \cup {c}
  /\ UNCHANGED <<published, copies, answers>>

Next ==
  \/ \E h \in Hour, r \in Request : Publish(h, r)
  \/ \E r \in Request, h \in Hour : Answer(r, h)
  \/ \E c \in copies : Serve(c)

Spec == Init /\ [][Next]_vars
=============================================================================
