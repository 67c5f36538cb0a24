----------------------------- MODULE Thermometer -----------------------------
(***************************************************************************)
(* The thermometer: class Thermometer of thermometer/src/thermometer.cpp,  *)
(* with what it uses of NAC's Producer.                                    *)
(*                                                                         *)
(* A temperature is encrypted under the content key of its hour.  The      *)
(* producer makes that key once and asks for an E-KEY of each prefix of    *)
(* the data type, unless it has one at hand that covers the hour.  When    *)
(* all of them have ended it calls back, once, with the copies of the      *)
(* content key it could encrypt: the C-KEYs, which the thermometer serves. *)
(* An hour that has a content key is never fetched for again, and a        *)
(* request that finds it without copies gets no callback.                  *)
(*                                                                         *)
(* All of it is one thread: the handlers, and the ends of the producer's   *)
(* interests, are steps of the same event loop.                            *)
(***************************************************************************)
EXTENDS Naturals

CONSTANTS
  Request,     \* interests for temperatures
  LastHour,    \* bound: hours are 0..LastHour
  HoursPerDay,
  Depth,       \* components of the data type, each a prefix with an E-KEY
  EKey,        \* E-KEYs: records with the type and the day they are for
  NoEKey, Nobody

Hour == 0..LastHour
Prefix == 1..Depth
Day(h) == h \div HoursPerDay

\* NoHour of a request that was not made.
NoHour == LastHour + 1

ASSUME ThermometerAssumption ==
  /\ LastHour \in Nat /\ Depth \in Nat \ {0} /\ HoursPerDay \in Nat \ {0}
  /\ \A k \in EKey : k.type \in Nat /\ k.slot \in Nat
  /\ NoEKey \notin EKey
  /\ Nobody \notin Request

VARIABLES
  hour,     \* the clock
  made,     \* hours with a content key in the producer's database
  asked,    \* per hour, the prefixes whose E-KEY interest is pending
  open,     \* per hour, the prefixes that keep the fetch from ending
  wrapped,  \* per hour, the E-KEYs its content key was encrypted with
  caller,   \* per hour, the request that the fetch calls back
  ekey,     \* m_ekeyInfo: per prefix, the E-KEY at hand
  ckeys,    \* m_ckeys: <<hour, E-KEY>> of the C-KEYs that can be served
  hourOf,   \* the hour of each request
  puts,     \* how many packets each request was answered with
  sent      \* <<hour, E-KEY>> of the C-KEYs that were served

producer == <<made, asked, open, wrapped, caller, ekey>>
thermometer == <<hour, producer, ckeys, hourOf, puts, sent>>

ThermometerTypeOK ==
  /\ hour \in Hour
  /\ made \subseteq Hour
  /\ asked \in [Hour -> SUBSET Prefix]
  /\ open \in [Hour -> SUBSET Prefix]
  /\ wrapped \in [Hour -> SUBSET EKey]
  /\ caller \in [Hour -> Request \cup {Nobody}]
  /\ ekey \in [Prefix -> EKey \cup {NoEKey}]
  /\ ckeys \subseteq Hour \X EKey
  /\ hourOf \in [Request -> Hour \cup {NoHour}]
  /\ puts \in [Request -> 0..2]
  /\ sent \subseteq Hour \X EKey

ThermometerInit ==
  /\ hour = 0
  /\ made = {}
  /\ asked = [h \in Hour |-> {}]
  /\ open = [h \in Hour |-> {}]
  /\ wrapped = [h \in Hour |-> {}]
  /\ caller = [h \in Hour |-> Nobody]
  /\ ekey = [p \in Prefix |-> NoEKey]
  /\ ckeys = {}
  /\ hourOf = [r \in Request |-> NoHour]
  /\ puts = [r \in Request |-> 0]
  /\ sent = {}

-----------------------------------------------------------------------------
(***************************************************************************)
(* The producer                                                            *)
(***************************************************************************)

\* Altered: takes what is at hand to cover every hour.
AnyAtHand(h) == {p \in Prefix : ekey[p] # NoEKey}

AtHand(h) == {p \in Prefix : ekey[p] # NoEKey /\ ekey[p].slot = Day(h)}

\* createContentKey, for an hour that has none: the copies for the E-KEYs at
\* hand are made at once, interests are sent for the rest.
CreateContentKey(h, by) ==
  /\ h \notin made
  /\ made' = made \cup {h}
  /\ asked' = [asked EXCEPT ![h] = Prefix \ AtHand(h)]
  /\ open' = [open EXCEPT ![h] = Prefix \ AtHand(h)]
  /\ wrapped' = [wrapped EXCEPT ![h] = {ekey[p] : p \in AtHand(h)}]
  /\ caller' = [caller EXCEPT ![h] = by]
  /\ UNCHANGED ekey

CKeys(h) == {c \in ckeys : c[1] = h}

\* searchCKey: the first of the hour's C-KEYs in the order of names, in which
\* the shortest prefix comes first.
FirstCKey(h, k) == <<h, k>> \in ckeys /\ \A c \in CKeys(h) : k.type <= c[2].type

\* Altered: the data is produced, and the copies are not kept.
ProduceOnly(h, by, copies) ==
  /\ puts' = [r \in Request |-> IF r = by THEN puts[r] + 1 ELSE puts[r]]
  /\ UNCHANGED ckeys

\* onKeyEncrypted, with the copies that were made; a request for a C-KEY gave
\* no callback, and its copies are lost.
KeyEncrypted(h, by, copies) ==
  /\ ckeys' = IF by = Nobody THEN ckeys ELSE ckeys \cup ({h} \X copies)
  /\ puts' = [r \in Request |-> IF r = by THEN puts[r] + 1 ELSE puts[r]]

\* Altered: calls back only if there is a copy.
CopiesEnd(h, done) ==
  /\ open' = [open EXCEPT ![h] = @ \ done]
  /\ \/ /\ open[h] \subseteq done /\ wrapped'[h] # {}
        /\ KeyEncrypted(h, caller[h], wrapped'[h])
     \/ ~(open[h] \subseteq done /\ wrapped'[h] # {}) /\ UNCHANGED <<ckeys, puts>>

\* Altered: each copy is kept as soon as it is made.
KeepEarly(h, done) ==
  /\ open' = [open EXCEPT ![h] = @ \ done]
  /\ ckeys' = IF caller[h] = Nobody THEN ckeys ELSE ckeys \cup ({h} \X wrapped'[h])
  /\ puts' = [r \in Request |-> IF r = caller[h] /\ open[h] \subseteq done
                                THEN puts[r] + 1 ELSE puts[r]]

\* updateKeyRequest: the last interest of the hour to end calls back.
InterestsEnd(h, done) ==
  /\ open' = [open EXCEPT ![h] = @ \ done]
  /\ \/ open[h] \subseteq done /\ KeyEncrypted(h, caller[h], wrapped'[h])
     \/ ~(open[h] \subseteq done) /\ UNCHANGED <<ckeys, puts>>

\* An E-KEY that covers the hour arrives, and stays at hand.
EKeyComes(h, p, k) ==
  /\ p \in asked[h]
  /\ k.type = p /\ k.slot = Day(h)
  /\ asked' = [asked EXCEPT ![h] = @ \ {p}]
  /\ wrapped' = [wrapped EXCEPT ![h] = @ \cup {k}]
  /\ ekey' = [ekey EXCEPT ![p] = k]
  /\ InterestsEnd(h, {p})
  /\ UNCHANGED <<hour, made, caller, hourOf, sent>>

\* Altered: the interest may end again.
RefusedAgain(h, p) ==
  /\ p \in asked[h]
  /\ UNCHANGED <<asked, wrapped>>
  /\ InterestsEnd(h, {p})
  /\ UNCHANGED <<hour, made, caller, ekey, hourOf, sent>>

\* The interest is nacked, as where nobody was granted the prefix, or has
\* timed out as often as the producer tries.
EKeyRefused(h, p) ==
  /\ p \in asked[h]
  /\ asked' = [asked EXCEPT ![h] = @ \ {p}]
  /\ UNCHANGED wrapped
  /\ InterestsEnd(h, {p})
  /\ UNCHANGED <<hour, made, caller, ekey, hourOf, sent>>

\* The content key cannot be encrypted with what arrived: onNACProduceError
\* logs, and the fetch never ends.
EKeyUnusable(h, p) ==
  /\ p \in asked[h]
  /\ asked' = [asked EXCEPT ![h] = @ \ {p}]
  /\ UNCHANGED <<hour, made, open, wrapped, caller, ekey, ckeys, hourOf, puts, sent>>

-----------------------------------------------------------------------------
(***************************************************************************)
(* The handlers                                                            *)
(***************************************************************************)

\* parseTimeSlot: a time to come is taken for the present.
TimeSlot(t) == IF t > hour THEN hour ELSE t

\* onGetTemperature: makes the hour's content key, and produces the data if
\* there is a C-KEY of the hour.  With all E-KEYs at hand it has produced the
\* data in the callback already.  It returns true whatever it did.
GetTemperature(r, t) ==
  LET h == TimeSlot(t) IN
  /\ hourOf[r] = NoHour
  /\ hourOf' = [hourOf EXCEPT ![r] = h]
  /\ \/ /\ CreateContentKey(h, r)
        /\ \/ /\ AtHand(h) = Prefix
              /\ ckeys' = ckeys \cup ({h} \X wrapped'[h])
              /\ puts' = [puts EXCEPT ![r] = 2]
           \/ AtHand(h) # Prefix /\ UNCHANGED <<ckeys, puts>>
     \/ /\ h \in made
        /\ puts' = [puts EXCEPT ![r] = IF CKeys(h) # {} THEN 1 ELSE 0]
        /\ UNCHANGED <<producer, ckeys>>
  /\ UNCHANGED <<hour, sent>>

\* onGetContentKey: the hour may be one to come.  Without a C-KEY of it the
\* node answers with empty data.
GetContentKey(h) ==
  /\ \/ CreateContentKey(h, Nobody) /\ UNCHANGED sent
     \/ /\ h \in made
        /\ \/ \E k \in EKey : FirstCKey(h, k) /\ sent' = sent \cup {<<h, k>>}
           \/ CKeys(h) = {} /\ UNCHANGED sent
        /\ UNCHANGED producer
  /\ UNCHANGED <<hour, ckeys, hourOf, puts>>

HourPasses ==
  /\ hour < LastHour
  /\ hour' = hour + 1
  /\ UNCHANGED <<producer, ckeys, hourOf, puts, sent>>

-----------------------------------------------------------------------------
InterestEnds(h, p) ==
  EKeyRefused(h, p) \/ EKeyUnusable(h, p) \/ \E k \in EKey : EKeyComes(h, p, k)

ThermometerNext ==
  \/ \E r \in Request, t \in Hour : GetTemperature(r, t)
  \/ \E h \in Hour : GetContentKey(h)
  \/ \E h \in Hour, p \in Prefix : InterestEnds(h, p)
  \/ HourPasses

ThermometerSpec == ThermometerInit /\ [][ThermometerNext]_thermometer

\* Every interest ends: with data, refused, or timed out.
FairThermometer ==
  /\ ThermometerSpec
  /\ \A h \in Hour, p \in Prefix : WF_thermometer(InterestEnds(h, p))

-----------------------------------------------------------------------------
(***************************************************************************)
(* Properties                                                              *)
(***************************************************************************)

\* The C-KEY served for an hour never changes: whoever fetched it can decrypt
\* every temperature of the hour, although E-KEYs arrive one by one and the
\* search takes the first copy it finds (onGetContentKey, searchCKey).
OneContentKey == \A c, d \in sent : c[1] = d[1] => c = d

\* Copies of an hour's content key are for readers of its day, whatever E-KEYs
\* of other days came in between and stayed at hand (createContentKey).
ForItsDay == \A c \in ckeys : c[2].slot = Day(c[1])

\* A temperature that was sent can be decrypted by those who may: its hour has
\* a C-KEY, unless the fetch it waited for ended without any E-KEY; so no other
\* request is answered with what nobody can read (onGetTemperature).
AnsweredIsReadable ==
  \A r \in Request :
    puts[r] > 0 =>
      \/ CKeys(hourOf[r]) # {}
      \/ /\ caller[hourOf[r]] = r
         /\ open[hourOf[r]] = {} /\ wrapped[hourOf[r]] = {}

\* The requests that fetches were made for are answered, in whatever order and
\* way the interests end, unless an E-KEY was unusable (onKeyEncrypted).
Stuck(h) == ~(open[h] \subseteq asked[h])
CallersAnswered == \A h \in Hour : caller[h] # Nobody => puts[caller[h]] > 0 \/ Stuck(h)
CallerIsAnswered == []<>CallersAnswered

\* The thermometer implements HourKeys: the keys of an hour are published when
\* its fetch has ended and called back (onKeyEncrypted).
Published == {h \in made : open[h] = {} /\ caller[h] # Nobody}
Answers == {<<r, hourOf[r]>> : r \in {q \in Request : puts[q] > 0}}

HourKeysOf == INSTANCE HourKeys WITH
  Key <- EKey, published <- Published, copies <- ckeys, served <- sent, answers <- Answers

ImplementsHourKeys == HourKeysOf!Spec

-----------------------------------------------------------------------------
(***************************************************************************)
(* What comments of the code say and the code does not do                  *)
(***************************************************************************)

\* handlers.hpp:30 "@return true if data is sent asynchronously": every
\* request, onGetTemperature having returned true for it, is answered, if no
\* E-KEY is unusable.
TemperatureIsAnswered ==
  \A r \in Request :
    hourOf[r] # NoHour ~> puts[r] > 0 \/ \E h \in Hour : Stuck(h)

=============================================================================
