-------------------------- MODULE ThermometerProofs --------------------------
(***************************************************************************)
(* Theorems about Thermometer: which keys are kept and served.             *)
(***************************************************************************)
EXTENDS Thermometer, TLAPS

-----------------------------------------------------------------------------
(***************************************************************************)
(* The invariant                                                           *)
(***************************************************************************)

\* What is at hand for a prefix is an E-KEY of the prefix.
AtHandIsOfPrefix == \A p \in Prefix : ekey[p] # NoEKey => ekey[p].type = p

\* An hour without a content key was never fetched for.
FetchedIsMade ==
  \A h \in Hour \ made : asked[h] = {} /\ open[h] = {} /\ wrapped[h] = {} /\ caller[h] = Nobody

\* A pending interest keeps the fetch from ending.
AskedIsOpen == \A h \in Hour : asked[h] \subseteq open[h]

\* The content key of an hour was encrypted with at most one E-KEY of each
\* prefix, of the hour's day, and with none of a prefix that is still open.
CopiesAreOfDay ==
  \A h \in Hour : \A k \in wrapped[h] :
    /\ k.slot = Day(h) /\ k.type \in Prefix \ open[h]
    /\ \A l \in wrapped[h] : k.type = l.type => k = l

\* The C-KEYs kept are copies of hours whose fetch has ended, and all of them.
KeptAreCopies ==
  /\ \A c \in ckeys : open[c[1]] = {} /\ c[2] \in wrapped[c[1]]
  /\ \A h \in Hour : open[h] = {} /\ caller[h] # Nobody => {h} \X wrapped[h] \subseteq ckeys

\* A fetch calls back a request of its hour, which has no answer before.
CallersWait ==
  \A h \in Hour, r \in Request :
    caller[h] = r => hourOf[r] = h /\ (open[h] # {} => puts[r] = 0)

NewIsUnanswered == \A r \in Request : hourOf[r] = NoHour => puts[r] = 0

\* What was served is the first C-KEY of the hour.
ServedIsFirst ==
  \A c \in sent : c \in ckeys /\ \A d \in CKeys(c[1]) : c[2].type <= d[2].type

KeysInv ==
  /\ ThermometerTypeOK /\ AtHandIsOfPrefix /\ FetchedIsMade /\ AskedIsOpen
  /\ CopiesAreOfDay /\ KeptAreCopies /\ CallersWait /\ NewIsUnanswered
  /\ ServedIsFirst /\ AnsweredIsReadable

-----------------------------------------------------------------------------
(***************************************************************************)
(* The steps of the producer                                               *)
(***************************************************************************)

LEMMA NoHourIsNone == NoHour \notin Hour /\ \A h \in Hour : Day(h) \in Nat
BY ThermometerAssumption DEF NoHour, Hour, Day

LEMMA Initially == ThermometerInit => KeysInv
BY ThermometerAssumption, NoHourIsNone, 0 \in Hour
DEF ThermometerInit, KeysInv, ThermometerTypeOK, AtHandIsOfPrefix, FetchedIsMade,
    AskedIsOpen, CopiesAreOfDay, KeptAreCopies, CallersWait, NewIsUnanswered,
    ServedIsFirst, AnsweredIsReadable, Hour

\* An interest ends, with an E-KEY or none, and is not the last: nothing is
\* kept or answered.
LEMMA InterestEndsOpen ==
  ASSUME KeysInv, NEW h \in Hour, NEW p \in asked[h], NEW copies \in SUBSET EKey,
         \A k \in copies : k.type = p /\ k.slot = Day(h),
         \A k, l \in copies : k = l,
         asked' = [asked EXCEPT ![h] = @ \ {p}],
         wrapped' = [wrapped EXCEPT ![h] = @ \cup copies],
         \/ copies = {} /\ ekey' = ekey
         \/ \E k \in copies : ekey' = [ekey EXCEPT ![p] = k],
         InterestsEnd(h, {p}),
         UNCHANGED <<hour, made, caller, hourOf, sent>>
  PROVE  KeysInv'
<1> USE ThermometerAssumption, NoHourIsNone
<1>1. /\ p \in Prefix /\ p \in open[h] /\ h \in made /\ CKeys(h) = {}
      /\ open' = [open EXCEPT ![h] = @ \ {p}]
      /\ \A c \in ckeys : c[1] \in Hour /\ c[1] # h
  BY DEF KeysInv, ThermometerTypeOK, AskedIsOpen, FetchedIsMade, KeptAreCopies, CKeys,
         InterestsEnd
<1>2. AtHandIsOfPrefix' /\ FetchedIsMade' /\ AskedIsOpen'
  BY <1>1 DEF KeysInv, ThermometerTypeOK, AtHandIsOfPrefix, FetchedIsMade, AskedIsOpen
<1>3. CopiesAreOfDay'
  BY <1>1 DEF KeysInv, ThermometerTypeOK, CopiesAreOfDay, Day
<1>4. CASE open[h] \subseteq {p}
  <2>1. KeyEncrypted(h, caller[h], wrapped'[h]) /\ open'[h] = {}
    BY <1>1, <1>4 DEF InterestsEnd, KeysInv, ThermometerTypeOK
  <2>2. ckeys' = IF caller[h] = Nobody THEN ckeys ELSE ckeys \cup ({h} \X wrapped'[h])
    BY <2>1 DEF KeyEncrypted
  <2>3. puts' = [r \in Request |-> IF r = caller[h] THEN puts[r] + 1 ELSE puts[r]]
    BY <2>1 DEF KeyEncrypted
  <2>4. KeptAreCopies'
    BY <1>1, <2>1, <2>2 DEF KeysInv, ThermometerTypeOK, KeptAreCopies
  <2>5. \A r \in Request : caller[h] = r => puts[r] = 0 /\ hourOf[r] = h
    BY <1>1 DEF KeysInv, CallersWait
  <2>6. ThermometerTypeOK'
    BY <1>1, <2>2, <2>3, <2>5 DEF KeysInv, ThermometerTypeOK
  <2>7. CallersWait' /\ NewIsUnanswered'
    BY <1>1, <2>1, <2>3, <2>5 DEF KeysInv, ThermometerTypeOK, CallersWait, NewIsUnanswered
  <2>8. ServedIsFirst'
    BY <1>1, <2>2 DEF KeysInv, ThermometerTypeOK, ServedIsFirst, CKeys
  <2>9. AnsweredIsReadable'
    <3> SUFFICES ASSUME NEW r \in Request, puts'[r] > 0
                 PROVE  \/ CKeys(hourOf[r])' # {}
                        \/ /\ caller[hourOf[r]] = r
                           /\ open'[hourOf[r]] = {} /\ wrapped'[hourOf[r]] = {}
      BY DEF AnsweredIsReadable
    <3>1. CASE r = caller[h]
      <4>1. hourOf[r] = h /\ caller[h] # Nobody
        BY <2>5, <3>1
      <4>2. CASE wrapped'[h] = {}
        BY <2>1, <3>1, <4>1, <4>2
      <4>3. CASE wrapped'[h] # {}
        <5>1. PICK k \in wrapped'[h] : TRUE
          BY <4>3
        <5>2. <<h, k>> \in ckeys' /\ <<h, k>>[1] = hourOf'[r]
          BY <2>2, <4>1, <5>1
        <5> QED
          BY <5>2 DEF CKeys
      <4> QED
        BY <4>2, <4>3
    <3>2. CASE r # caller[h]
      <4>1. puts[r] > 0
        BY <2>3, <3>2
      <4>2. \/ CKeys(hourOf[r]) # {}
            \/ /\ caller[hourOf[r]] = r
               /\ open[hourOf[r]] = {} /\ wrapped[hourOf[r]] = {}
        BY <4>1 DEF KeysInv, AnsweredIsReadable
      <4>3. hourOf[r] \in Hour
        BY <4>1 DEF KeysInv, ThermometerTypeOK, NewIsUnanswered
      <4> QED
        BY <1>1, <2>2, <3>2, <4>2, <4>3 DEF CKeys, KeysInv, ThermometerTypeOK
    <3> QED
      BY <3>1, <3>2
  <2> QED
    BY <1>2, <1>3, <2>4, <2>6, <2>7, <2>8, <2>9 DEF KeysInv
<1>5. CASE ~(open[h] \subseteq {p})
  <2>1. UNCHANGED <<ckeys, puts>> /\ open'[h] # {}
    BY <1>1, <1>5 DEF InterestsEnd, KeysInv, ThermometerTypeOK
  <2>2. ThermometerTypeOK'
    BY <1>1, <2>1 DEF KeysInv, ThermometerTypeOK
  <2>3. KeptAreCopies' /\ CallersWait' /\ NewIsUnanswered'
    BY <1>1, <2>1 DEF KeysInv, ThermometerTypeOK, KeptAreCopies, CallersWait, NewIsUnanswered
  <2>4. ServedIsFirst'
    BY <2>1 DEF KeysInv, ServedIsFirst, CKeys
  <2>5. AnsweredIsReadable'
    BY <1>1, <2>1 DEF KeysInv, ThermometerTypeOK, AnsweredIsReadable, CKeys, NewIsUnanswered
  <2> QED
    BY <1>2, <1>3, <2>2, <2>3, <2>4, <2>5 DEF KeysInv
<1> QED
  BY <1>4, <1>5


LEMMA EKeyUnusableKeeps ==
  ASSUME KeysInv, NEW h \in Hour, NEW p \in Prefix, EKeyUnusable(h, p)
  PROVE  KeysInv'
BY NoHourIsNone
DEF EKeyUnusable, KeysInv, ThermometerTypeOK, AtHandIsOfPrefix, FetchedIsMade,
    AskedIsOpen, CopiesAreOfDay, KeptAreCopies, CallersWait, NewIsUnanswered,
    ServedIsFirst, AnsweredIsReadable, CKeys

LEMMA InterestEndsKeeps ==
  ASSUME KeysInv, NEW h \in Hour, NEW p \in Prefix, InterestEnds(h, p)
  PROVE  KeysInv'
<1>1. CASE EKeyRefused(h, p)
  <2>1. wrapped' = [wrapped EXCEPT ![h] = @ \cup {}]
    BY <1>1 DEF EKeyRefused, KeysInv, ThermometerTypeOK
  <2>2. p \in asked[h] /\ {} \in SUBSET EKey
    BY <1>1 DEF EKeyRefused
  <2>3. /\ asked' = [asked EXCEPT ![h] = @ \ {p}] /\ ekey' = ekey
        /\ InterestsEnd(h, {p}) /\ UNCHANGED <<hour, made, caller, hourOf, sent>>
    BY <1>1 DEF EKeyRefused
  <2> QED
    BY <2>1, <2>2, <2>3, InterestEndsOpen
<1>2. CASE EKeyUnusable(h, p)
  BY <1>2, EKeyUnusableKeeps
<1>3. CASE \E k \in EKey : EKeyComes(h, p, k)
  <2>1. PICK k \in EKey : EKeyComes(h, p, k)
    BY <1>3
  <2>2. {k} \in SUBSET EKey
    OBVIOUS
  <2> QED
    BY <2>1, <2>2, InterestEndsOpen DEF EKeyComes
<1> QED
  BY <1>1, <1>2, <1>3 DEF InterestEnds

-----------------------------------------------------------------------------
(***************************************************************************)
(* The steps of the handlers                                               *)
(***************************************************************************)

\* The E-KEYs at hand are of the hour's day, one of each prefix.
LEMMA CreationKeeps ==
  ASSUME KeysInv, NEW h \in Hour, NEW by \in Request \cup {Nobody},
         CreateContentKey(h, by)
  PROVE  /\ AtHandIsOfPrefix' /\ FetchedIsMade' /\ AskedIsOpen' /\ CopiesAreOfDay'
         /\ made' \subseteq Hour /\ asked' \in [Hour -> SUBSET Prefix]
         /\ open' \in [Hour -> SUBSET Prefix] /\ wrapped' \in [Hour -> SUBSET EKey]
         /\ caller' \in [Hour -> Request \cup {Nobody}]
         /\ \A c \in ckeys : c[1] # h
         /\ open[h] = {} /\ wrapped[h] = {} /\ caller[h] = Nobody
<1>1. /\ open[h] = {} /\ wrapped[h] = {} /\ caller[h] = Nobody
      /\ \A c \in ckeys : c[1] # h
  BY DEF KeysInv, FetchedIsMade, KeptAreCopies, CreateContentKey
<1>2. \A p \in AtHand(h) : /\ p \in Prefix /\ ekey[p] \in EKey
                           /\ ekey[p].type = p /\ ekey[p].slot = Day(h)
  BY DEF KeysInv, ThermometerTypeOK, AtHandIsOfPrefix, AtHand
<1>3. /\ made' = made \cup {h}
      /\ asked' = [asked EXCEPT ![h] = Prefix \ AtHand(h)]
      /\ open' = [open EXCEPT ![h] = Prefix \ AtHand(h)]
      /\ wrapped' = [wrapped EXCEPT ![h] = {ekey[p] : p \in AtHand(h)}]
      /\ caller' = [caller EXCEPT ![h] = by]
      /\ ekey' = ekey
  BY DEF CreateContentKey
<1> HIDE DEF AtHand
<1>4. /\ made' \subseteq Hour /\ asked' \in [Hour -> SUBSET Prefix]
      /\ open' \in [Hour -> SUBSET Prefix]
      /\ caller' \in [Hour -> Request \cup {Nobody}]
  BY <1>3 DEF KeysInv, ThermometerTypeOK
<1>5. wrapped' \in [Hour -> SUBSET EKey]
  BY <1>2, <1>3 DEF KeysInv, ThermometerTypeOK
<1>6. AtHandIsOfPrefix' /\ FetchedIsMade' /\ AskedIsOpen'
  BY <1>3 DEF KeysInv, ThermometerTypeOK, AtHandIsOfPrefix, FetchedIsMade, AskedIsOpen
<1>7. CopiesAreOfDay'
  BY <1>2, <1>3 DEF KeysInv, ThermometerTypeOK, CopiesAreOfDay, Day
<1> QED
  BY <1>1, <1>4, <1>5, <1>6, <1>7

\* All E-KEYs at hand: the copies are kept and the data is put twice.
LEMMA ProducedAtOnce ==
  ASSUME KeysInv, NEW r \in Request, NEW h \in Hour, hourOf[r] = NoHour,
         hourOf' = [hourOf EXCEPT ![r] = h],
         CreateContentKey(h, r), AtHand(h) = Prefix,
         ckeys' = ckeys \cup ({h} \X wrapped'[h]), puts' = [puts EXCEPT ![r] = 2],
         UNCHANGED <<hour, sent>>
  PROVE  KeysInv'
<1> USE ThermometerAssumption, NoHourIsNone
<1>1. /\ AtHandIsOfPrefix' /\ FetchedIsMade' /\ AskedIsOpen' /\ CopiesAreOfDay'
      /\ made' \subseteq Hour /\ asked' \in [Hour -> SUBSET Prefix]
      /\ open' \in [Hour -> SUBSET Prefix] /\ wrapped' \in [Hour -> SUBSET EKey]
      /\ caller' \in [Hour -> Request \cup {Nobody}]
      /\ \A c \in ckeys : c[1] # h
      /\ open[h] = {} /\ wrapped[h] = {} /\ caller[h] = Nobody
  BY CreationKeeps
<1>2. /\ open' = [open EXCEPT ![h] = {}] /\ caller' = [caller EXCEPT ![h] = r]
      /\ \A g \in Hour \ {h} : wrapped'[g] = wrapped[g]
      /\ ekey' = ekey /\ r # Nobody
  BY DEF CreateContentKey, KeysInv, ThermometerTypeOK
<1>3. ThermometerTypeOK'
  BY <1>1, <1>2 DEF KeysInv, ThermometerTypeOK
<1>4. KeptAreCopies'
  BY <1>1, <1>2 DEF KeysInv, ThermometerTypeOK, KeptAreCopies
<1>5. CallersWait' /\ NewIsUnanswered'
  BY <1>1, <1>2 DEF KeysInv, ThermometerTypeOK, CallersWait, NewIsUnanswered
<1>6. ServedIsFirst'
  BY <1>1 DEF KeysInv, ThermometerTypeOK, ServedIsFirst, CKeys
<1>7. AnsweredIsReadable'
  <2> SUFFICES ASSUME NEW q \in Request, puts'[q] > 0
               PROVE  \/ CKeys(hourOf[q])' # {}
                      \/ /\ caller'[hourOf'[q]] = q
                         /\ open'[hourOf'[q]] = {} /\ wrapped'[hourOf'[q]] = {}
    BY DEF AnsweredIsReadable
  <2>1. CASE q = r /\ wrapped'[h] = {}
    BY <1>1, <1>2, <2>1 DEF KeysInv, ThermometerTypeOK
  <2>2. CASE q = r /\ wrapped'[h] # {}
    <3>1. PICK k \in wrapped'[h] : TRUE
      BY <2>2
    <3>2. <<h, k>> \in ckeys' /\ <<h, k>>[1] = hourOf'[q]
      BY <2>2, <3>1 DEF KeysInv, ThermometerTypeOK
    <3> QED
      BY <3>2 DEF CKeys
  <2>3. CASE q # r
    <3>1. puts[q] > 0 /\ hourOf'[q] = hourOf[q] /\ hourOf[q] \in Hour
      BY <2>3 DEF KeysInv, ThermometerTypeOK, NewIsUnanswered
    <3>2. CKeys(hourOf[q]) # {} => CKeys(hourOf[q])' # {}
      BY <3>1 DEF CKeys
    <3>3. caller[hourOf[q]] = q => hourOf[q] # h
      BY <1>1, <1>2
    <3> QED
      BY <1>2, <3>1, <3>2, <3>3 DEF KeysInv, ThermometerTypeOK, AnsweredIsReadable
  <2> QED
    BY <2>1, <2>2, <2>3
<1> QED
  BY <1>1, <1>3, <1>4, <1>5, <1>6, <1>7 DEF KeysInv

\* The hour's key is made, and nothing is kept or answered: a temperature that
\* waits for the callback, or a request for the C-KEY, which gets none.
LEMMA CreatedOnly ==
  ASSUME KeysInv, NEW h \in Hour, NEW by \in Request \cup {Nobody},
         CreateContentKey(h, by), UNCHANGED <<hour, ckeys, puts, sent>>,
         \/ by = Nobody /\ hourOf' = hourOf
         \/ /\ by \in Request /\ hourOf[by] = NoHour /\ AtHand(h) # Prefix
            /\ hourOf' = [hourOf EXCEPT ![by] = h]
  PROVE  KeysInv'
<1> USE ThermometerAssumption, NoHourIsNone
<1>1. /\ AtHandIsOfPrefix' /\ FetchedIsMade' /\ AskedIsOpen' /\ CopiesAreOfDay'
      /\ made' \subseteq Hour /\ asked' \in [Hour -> SUBSET Prefix]
      /\ open' \in [Hour -> SUBSET Prefix] /\ wrapped' \in [Hour -> SUBSET EKey]
      /\ caller' \in [Hour -> Request \cup {Nobody}]
      /\ \A c \in ckeys : c[1] # h
      /\ open[h] = {} /\ wrapped[h] = {} /\ caller[h] = Nobody
  BY CreationKeeps
<1>2. /\ \A g \in Hour \ {h} : open'[g] = open[g] /\ wrapped'[g] = wrapped[g]
      /\ caller' = [caller EXCEPT ![h] = by] /\ open'[h] = Prefix \ AtHand(h)
      /\ ekey' = ekey
  BY DEF CreateContentKey, KeysInv, ThermometerTypeOK
<1>3. by # Nobody => open'[h] # {}
  BY <1>2 DEF AtHand
<1> HIDE DEF AtHand
<1>4. ThermometerTypeOK'
  BY <1>1, <1>2 DEF KeysInv, ThermometerTypeOK
<1>5. KeptAreCopies'
  BY <1>1, <1>2, <1>3 DEF KeysInv, ThermometerTypeOK, KeptAreCopies
<1>6. CallersWait' /\ NewIsUnanswered'
  BY <1>1, <1>2 DEF KeysInv, ThermometerTypeOK, CallersWait, NewIsUnanswered
<1>7. ServedIsFirst'
  BY DEF KeysInv, ServedIsFirst, CKeys
<1>8. AnsweredIsReadable'
  <2> SUFFICES ASSUME NEW q \in Request, puts'[q] > 0
               PROVE  \/ CKeys(hourOf[q])' # {}
                      \/ /\ caller'[hourOf'[q]] = q
                         /\ open'[hourOf'[q]] = {} /\ wrapped'[hourOf'[q]] = {}
    BY DEF AnsweredIsReadable
  <2>1. puts[q] > 0 /\ hourOf'[q] = hourOf[q] /\ hourOf[q] \in Hour
    BY DEF KeysInv, ThermometerTypeOK, NewIsUnanswered
  <2>2. CKeys(hourOf[q])' = CKeys(hourOf[q])
    BY <2>1 DEF CKeys
  <2>3. caller[hourOf[q]] = q => hourOf[q] # h
    BY <1>1
  <2> QED
    BY <1>2, <2>1, <2>2, <2>3 DEF KeysInv, ThermometerTypeOK, AnsweredIsReadable
<1> QED
  BY <1>1, <1>4, <1>5, <1>6, <1>7, <1>8 DEF KeysInv

LEMMA GetTemperatureKeeps ==
  ASSUME KeysInv, NEW r \in Request, NEW t \in Hour, GetTemperature(r, t)
  PROVE  KeysInv'
<1> USE ThermometerAssumption, NoHourIsNone
<1> DEFINE h == TimeSlot(t)
<1>1. h \in Hour
  BY DEF TimeSlot, KeysInv, ThermometerTypeOK
<1>2. CASE CreateContentKey(h, r)
  <2>1. \/ /\ AtHand(h) = Prefix
           /\ ckeys' = ckeys \cup ({h} \X wrapped'[h]) /\ puts' = [puts EXCEPT ![r] = 2]
        \/ AtHand(h) # Prefix /\ UNCHANGED <<ckeys, puts>>
    BY <1>2 DEF GetTemperature, CreateContentKey
  <2>2. /\ hourOf[r] = NoHour /\ hourOf' = [hourOf EXCEPT ![r] = h]
        /\ UNCHANGED <<hour, sent>>
    BY DEF GetTemperature
  <2> HIDE DEF h
  <2> QED
    BY <1>1, <1>2, <2>1, <2>2, ProducedAtOnce, CreatedOnly
<1>3. CASE ~CreateContentKey(h, r)
  <2>1. /\ hourOf[r] = NoHour /\ hourOf' = [hourOf EXCEPT ![r] = h]
        /\ puts' = [puts EXCEPT ![r] = IF CKeys(h) # {} THEN 1 ELSE 0]
        /\ UNCHANGED <<hour, made, asked, open, wrapped, caller, ekey, ckeys, sent>>
    BY <1>3 DEF GetTemperature, producer
  <2> HIDE DEF h
  <2>2. /\ \A g \in Hour : CKeys(g)' = CKeys(g)
        /\ \A g \in Hour : caller[g] # r
    BY <1>1, <2>1 DEF CKeys, KeysInv, CallersWait
  <2>3. ThermometerTypeOK' /\ CallersWait' /\ NewIsUnanswered'
    BY <1>1, <2>1, <2>2 DEF KeysInv, ThermometerTypeOK, CallersWait, NewIsUnanswered
  <2>4. ServedIsFirst' /\ KeptAreCopies' /\ CopiesAreOfDay' /\ AskedIsOpen'
        /\ FetchedIsMade' /\ AtHandIsOfPrefix'
    BY <2>1 DEF KeysInv, ServedIsFirst, CKeys, KeptAreCopies, CopiesAreOfDay,
                AskedIsOpen, FetchedIsMade, AtHandIsOfPrefix, Day
  <2>5. AnsweredIsReadable'
    <3> SUFFICES ASSUME NEW q \in Request, puts'[q] > 0
                 PROVE  \/ CKeys(hourOf[q])' # {}
                        \/ /\ caller'[hourOf'[q]] = q
                           /\ open'[hourOf'[q]] = {} /\ wrapped'[hourOf'[q]] = {}
      BY DEF AnsweredIsReadable
    <3>1. CASE q = r
      BY <1>1, <2>1, <2>2, <3>1 DEF KeysInv, ThermometerTypeOK, CKeys
    <3>2. CASE q # r
      <4>1. puts[q] > 0 /\ hourOf'[q] = hourOf[q]
        BY <2>1, <3>2 DEF KeysInv, ThermometerTypeOK
      <4>2. CKeys(hourOf[q])' = CKeys(hourOf[q])
        BY <2>1, <4>1 DEF CKeys
      <4> QED
        BY <2>1, <4>1, <4>2 DEF KeysInv, AnsweredIsReadable
    <3> QED
      BY <3>1, <3>2
  <2> QED
    BY <2>3, <2>4, <2>5 DEF KeysInv
<1> QED
  BY <1>2, <1>3

LEMMA GetContentKeyKeeps ==
  ASSUME KeysInv, NEW h \in Hour, GetContentKey(h)
  PROVE  KeysInv'
<1>1. CASE CreateContentKey(h, Nobody)
  BY <1>1, CreatedOnly DEF GetContentKey, CreateContentKey
<1>2. CASE UNCHANGED producer
  <2>1. /\ UNCHANGED <<hour, made, asked, open, wrapped, caller, ekey, ckeys, hourOf, puts>>
        /\ \/ UNCHANGED sent
           \/ \E k \in EKey : FirstCKey(h, k) /\ sent' = sent \cup {<<h, k>>}
    BY <1>2 DEF GetContentKey, producer, CreateContentKey
  <2>2. \A c \in sent' \ sent : /\ c \in ckeys /\ c \in Hour \X EKey
                              /\ \A d \in CKeys(c[1]) : c[2].type <= d[2].type
    <3> SUFFICES ASSUME NEW c \in sent' \ sent
                 PROVE  /\ c \in ckeys /\ c \in Hour \X EKey
                        /\ \A d \in CKeys(c[1]) : c[2].type <= d[2].type
      OBVIOUS
    <3>1. PICK k \in EKey : FirstCKey(h, k) /\ c = <<h, k>>
      BY <2>1
    <3>2. c[1] = h /\ c[2] = k
      BY <3>1
    <3> QED
      BY <3>1, <3>2 DEF FirstCKey
  <2>3. ThermometerTypeOK'
    BY <2>1, <2>2 DEF KeysInv, ThermometerTypeOK
  <2>4. ServedIsFirst'
    BY <2>1, <2>2 DEF KeysInv, ServedIsFirst, CKeys
  <2> QED
    BY <2>1, <2>3, <2>4 DEF KeysInv, AtHandIsOfPrefix, FetchedIsMade, AskedIsOpen,
       CopiesAreOfDay, KeptAreCopies, CallersWait, NewIsUnanswered, AnsweredIsReadable,
       CKeys, Day
<1> QED
  BY <1>1, <1>2 DEF GetContentKey

-----------------------------------------------------------------------------
(***************************************************************************)
(* The theorems                                                            *)
(***************************************************************************)

LEMMA KeysStep == KeysInv /\ [ThermometerNext]_thermometer => KeysInv'
<1> SUFFICES ASSUME KeysInv, [ThermometerNext]_thermometer PROVE KeysInv'
  OBVIOUS
<1>1. CASE \E r \in Request, t \in Hour : GetTemperature(r, t)
  BY <1>1, GetTemperatureKeeps
<1>2. CASE \E h \in Hour : GetContentKey(h)
  BY <1>2, GetContentKeyKeeps
<1>3. CASE \E h \in Hour, p \in Prefix : InterestEnds(h, p)
  BY <1>3, InterestEndsKeeps
<1>4. CASE HourPasses
  <2>1. hour' \in Hour
    BY <1>4, ThermometerAssumption DEF HourPasses, KeysInv, ThermometerTypeOK, Hour
  <2> QED
    BY <1>4, <2>1 DEF HourPasses, producer, KeysInv, ThermometerTypeOK, AtHandIsOfPrefix,
       FetchedIsMade, AskedIsOpen, CopiesAreOfDay, KeptAreCopies, CallersWait,
       NewIsUnanswered, ServedIsFirst, AnsweredIsReadable, CKeys, Day
<1>5. CASE UNCHANGED thermometer
  BY <1>5 DEF thermometer, producer, KeysInv, ThermometerTypeOK, AtHandIsOfPrefix,
     FetchedIsMade, AskedIsOpen, CopiesAreOfDay, KeptAreCopies, CallersWait,
     NewIsUnanswered, ServedIsFirst, AnsweredIsReadable, CKeys, Day
<1> QED
  BY <1>1, <1>2, <1>3, <1>4, <1>5 DEF ThermometerNext

THEOREM KeysAreKept == ThermometerSpec => []KeysInv
BY Initially, KeysStep, PTL DEF ThermometerSpec

\* The type invariant.
THEOREM ThermometerTypes == ThermometerSpec => []ThermometerTypeOK
<1>1. KeysInv => ThermometerTypeOK
  BY DEF KeysInv
<1> QED
  BY <1>1, KeysAreKept, PTL

\* The C-KEY served for an hour never changes (onGetContentKey, searchCKey).
THEOREM SameKeyServed == ThermometerSpec => []OneContentKey
<1>1. KeysInv => OneContentKey
  <2> SUFFICES ASSUME KeysInv, NEW c \in sent, NEW d \in sent, c[1] = d[1] PROVE c = d
    BY DEF OneContentKey
  <2>1. /\ c \in ckeys /\ d \in ckeys /\ c \in Hour \X EKey /\ d \in Hour \X EKey
        /\ c[2].type <= d[2].type /\ d[2].type <= c[2].type
    BY DEF KeysInv, ServedIsFirst, CKeys, ThermometerTypeOK
  <2>2. c[2].type \in Nat /\ d[2].type \in Nat
    BY <2>1, ThermometerAssumption
  <2>3. c[2].type = d[2].type
    BY <2>1, <2>2
  <2>4. c[2] = d[2]
    BY <2>1, <2>3 DEF KeysInv, KeptAreCopies, CopiesAreOfDay
  <2> QED
    BY <2>1, <2>4
<1> QED
  BY <1>1, KeysAreKept, PTL

\* Copies of an hour's content key are for readers of its day (createContentKey).
THEOREM CopiesForTheDay == ThermometerSpec => []ForItsDay
<1>1. KeysInv => ForItsDay
  BY DEF KeysInv, ThermometerTypeOK, KeptAreCopies, CopiesAreOfDay, ForItsDay
<1> QED
  BY <1>1, KeysAreKept, PTL

\* A temperature that was sent can be decrypted by those who may, unless its
\* fetch ended without any E-KEY (onGetTemperature).
THEOREM Readable == ThermometerSpec => []AnsweredIsReadable
<1>1. KeysInv => AnsweredIsReadable
  BY DEF KeysInv
<1> QED
  BY <1>1, KeysAreKept, PTL

-----------------------------------------------------------------------------
(***************************************************************************)
(* The thermometer implements HourKeys                                     *)
(***************************************************************************)

\* A request that had no answer is answered.
LEMMA AnswersGrow ==
  ASSUME KeysInv, NEW r \in Request, NEW h \in Hour, puts[r] = 0, puts'[r] > 0,
         hourOf'[r] = h,
         \A q \in Request \ {r} : puts'[q] = puts[q] /\ (puts[q] > 0 => hourOf'[q] = hourOf[q])
  PROVE  HourKeysOf!New(r) /\ Answers' = Answers \cup {<<r, h>>}
<1>1. \A a \in Answers : \E q \in Request : puts[q] > 0 /\ a = <<q, hourOf[q]>>
  BY DEF Answers
<1>2. HourKeysOf!New(r)
  BY <1>1 DEF HourKeysOf!New
<1>3. Answers' \subseteq Answers \cup {<<r, h>>}
  BY DEF Answers
<1>4. <<r, h>> \in Answers'
  BY DEF Answers
<1>5. \A q \in Request : puts[q] > 0 => <<q, hourOf[q]>> \in Answers'
  BY DEF Answers
<1> QED
  BY <1>1, <1>2, <1>3, <1>4, <1>5

LEMMA AnswersStay ==
  ASSUME \A q \in Request : puts'[q] = puts[q] /\ (puts[q] > 0 => hourOf'[q] = hourOf[q])
  PROVE  Answers' = Answers
BY DEF Answers

\* An hour's fetch is over, and its caller is answered.
LEMMA PublishedAtOnce ==
  ASSUME KeysInv, KeysInv', NEW h \in Hour, NEW r \in Request, h \notin Published,
         Published' = Published \cup {h}, ckeys' = ckeys \cup ({h} \X wrapped'[h]),
         HourKeysOf!New(r), Answers' = Answers \cup {<<r, h>>}, UNCHANGED sent
  PROVE  HourKeysOf!Next
<1>1. wrapped'[h] \in HourKeysOf!KeysFor(h)
  <2>1. \A k \in wrapped'[h] : /\ k \in EKey /\ k.slot = Day(h)
                               /\ \A l \in wrapped'[h] : k.type = l.type => k = l
    BY DEF KeysInv, CopiesAreOfDay, ThermometerTypeOK, Day
  <2> QED
    BY <2>1 DEF HourKeysOf!KeysFor
<1> QED
  BY <1>1 DEF HourKeysOf!Next, HourKeysOf!Publish

LEMMA GetTemperatureImplements ==
  ASSUME KeysInv, KeysInv', NEW r \in Request, NEW t \in Hour, GetTemperature(r, t)
  PROVE  [HourKeysOf!Next]_HourKeysOf!vars
<1> USE ThermometerAssumption, NoHourIsNone
<1> DEFINE h == TimeSlot(t)
<1>1. h \in Hour /\ hourOf[r] = NoHour /\ hourOf' = [hourOf EXCEPT ![r] = h] /\ puts[r] = 0
      /\ sent' = sent /\ r # Nobody
  BY DEF TimeSlot, KeysInv, ThermometerTypeOK, NewIsUnanswered, GetTemperature
<1>2. \A q \in Request : puts[q] > 0 => q # r /\ hourOf'[q] = hourOf[q]
  BY <1>1 DEF KeysInv, ThermometerTypeOK
<1>3. \/ /\ CreateContentKey(h, r) /\ AtHand(h) = Prefix
         /\ ckeys' = ckeys \cup ({h} \X wrapped'[h]) /\ puts' = [puts EXCEPT ![r] = 2]
      \/ CreateContentKey(h, r) /\ AtHand(h) # Prefix /\ UNCHANGED <<ckeys, puts>>
      \/ /\ h \in made /\ UNCHANGED <<producer, ckeys>>
         /\ puts' = [puts EXCEPT ![r] = IF CKeys(h) # {} THEN 1 ELSE 0]
  BY DEF GetTemperature
<1> HIDE DEF h
<1>4. CASE CreateContentKey(h, r)
  <2>1. /\ h \notin made /\ made' = made \cup {h}
        /\ open' = [open EXCEPT ![h] = Prefix \ AtHand(h)]
        /\ caller' = [caller EXCEPT ![h] = r]
    BY <1>4 DEF CreateContentKey
  <2>2. CASE AtHand(h) = Prefix
    <3>1. ckeys' = ckeys \cup ({h} \X wrapped'[h]) /\ puts' = [puts EXCEPT ![r] = 2]
      BY <1>3, <1>4, <2>1, <2>2
    <3>2. HourKeysOf!New(r) /\ Answers' = Answers \cup {<<r, h>>}
      BY <1>1, <1>2, <3>1, AnswersGrow DEF KeysInv, ThermometerTypeOK
    <3>3. open' = [open EXCEPT ![h] = {}]
      BY <2>1, <2>2
    <3>4. h \notin Published /\ Published' = Published \cup {h}
      BY <1>1, <2>1, <3>3 DEF Published, KeysInv, ThermometerTypeOK
    <3> QED
      BY <1>1, <3>1, <3>2, <3>4, PublishedAtOnce
  <2>3. CASE AtHand(h) # Prefix
    <3>1. UNCHANGED <<ckeys, puts>>
      BY <1>3, <1>4, <2>1, <2>3
    <3>2. Prefix \ AtHand(h) # {}
      BY <2>3 DEF AtHand
    <3>3. Published' = Published
      BY <1>1, <2>1, <3>2 DEF Published, KeysInv, ThermometerTypeOK
    <3>4. Answers' = Answers
      BY <1>2, <3>1, AnswersStay
    <3> QED
      BY <1>1, <3>1, <3>3, <3>4 DEF HourKeysOf!vars
  <2> QED
    BY <2>2, <2>3
<1>5. CASE ~CreateContentKey(h, r)
  <2>1. /\ UNCHANGED <<producer, ckeys>>
        /\ puts' = [puts EXCEPT ![r] = IF CKeys(h) # {} THEN 1 ELSE 0]
    BY <1>3, <1>5
  <2>2. Published' = Published
    BY <2>1 DEF Published, producer
  <2>3. CASE CKeys(h) # {}
    <3>1. HourKeysOf!New(r) /\ Answers' = Answers \cup {<<r, h>>}
      BY <1>1, <1>2, <2>1, <2>3, AnswersGrow DEF KeysInv, ThermometerTypeOK
    <3> QED
      BY <1>1, <2>1, <2>2, <2>3, <3>1
      DEF HourKeysOf!Next, HourKeysOf!Answer, HourKeysOf!Of, CKeys
  <2>4. CASE CKeys(h) = {}
    <3>1. Answers' = Answers
      BY <1>1, <1>2, <2>1, <2>4, AnswersStay DEF KeysInv, ThermometerTypeOK
    <3> QED
      BY <1>1, <2>1, <2>2, <3>1 DEF HourKeysOf!vars
  <2> QED
    BY <2>3, <2>4
<1> QED
  BY <1>4, <1>5

\* The first C-KEY of an hour is the one that was served before.
LEMMA GetContentKeyImplements ==
  ASSUME KeysInv, NEW h \in Hour, GetContentKey(h)
  PROVE  [HourKeysOf!Next]_HourKeysOf!vars
<1> USE ThermometerAssumption, NoHourIsNone
<1>1. ckeys' = ckeys /\ Answers' = Answers
  BY DEF GetContentKey, Answers
<1>2. Published' = Published
  <2>1. CASE CreateContentKey(h, Nobody)
    BY <2>1 DEF CreateContentKey, Published, KeysInv, ThermometerTypeOK
  <2>2. CASE UNCHANGED producer
    BY <2>2 DEF Published, producer
  <2> QED
    BY <2>1, <2>2 DEF GetContentKey
<1>3. CASE UNCHANGED sent
  BY <1>1, <1>2, <1>3 DEF HourKeysOf!vars
<1>4. CASE \E k \in EKey : FirstCKey(h, k) /\ sent' = sent \cup {<<h, k>>}
  <2>1. PICK k \in EKey : FirstCKey(h, k) /\ sent' = sent \cup {<<h, k>>}
    BY <1>4
  <2>2. CASE \A d \in sent : d[1] # h
    BY <1>1, <1>2, <2>1, <2>2 DEF HourKeysOf!Next, HourKeysOf!Serve, FirstCKey
  <2>3. CASE \E d \in sent : d[1] = h
    <3>1. PICK d \in sent : d[1] = h
      BY <2>3
    <3>2. /\ d \in ckeys /\ d \in Hour \X EKey /\ <<h, k>> \in ckeys
          /\ d[2].type <= k.type /\ k.type <= d[2].type
      BY <2>1, <3>1 DEF KeysInv, ServedIsFirst, ThermometerTypeOK, CKeys, FirstCKey
    <3>3. d[2].type = k.type
      BY <3>2
    <3>4. d[2] = k
      BY <3>1, <3>2, <3>3 DEF KeysInv, KeptAreCopies, CopiesAreOfDay
    <3> QED
      BY <1>1, <1>2, <2>1, <3>1, <3>2, <3>4 DEF HourKeysOf!vars
  <2> QED
    BY <2>2, <2>3
<1> QED
  BY <1>3, <1>4 DEF GetContentKey

LEMMA InterestEndsImplements ==
  ASSUME KeysInv, KeysInv', NEW h \in Hour, NEW p \in Prefix, InterestEnds(h, p)
  PROVE  [HourKeysOf!Next]_HourKeysOf!vars
<1> USE ThermometerAssumption, NoHourIsNone
<1>1. /\ p \in asked[h] /\ p \in open[h] /\ h \in made /\ h \notin Published
      /\ UNCHANGED <<made, caller, hourOf, sent>>
  BY DEF InterestEnds, EKeyRefused, EKeyUnusable, EKeyComes, KeysInv, ThermometerTypeOK,
         AskedIsOpen, FetchedIsMade, Published
<1>2. CASE UNCHANGED <<ckeys, puts>> /\ (open' = open \/ open'[h] # {})
  <2>1. \A g \in Hour \ {h} : open'[g] = open[g]
    BY DEF InterestEnds, EKeyRefused, EKeyUnusable, EKeyComes, InterestsEnd, KeysInv,
           ThermometerTypeOK
  <2>2. Published' = Published
    BY <1>1, <1>2, <2>1 DEF Published, KeysInv, ThermometerTypeOK
  <2>3. Answers' = Answers
    BY <1>1, <1>2, AnswersStay
  <2> QED
    BY <1>1, <1>2, <2>2, <2>3 DEF HourKeysOf!vars
<1>3. CASE InterestsEnd(h, {p})
  <2>1. open' = [open EXCEPT ![h] = @ \ {p}]
    BY <1>3 DEF InterestsEnd
  <2>2. CASE ~(open[h] \subseteq {p})
    <3>1. UNCHANGED <<ckeys, puts>> /\ open'[h] # {}
      BY <1>3, <2>1, <2>2 DEF InterestsEnd, KeysInv, ThermometerTypeOK
    <3> QED
      BY <1>2, <3>1
  <2>3. CASE open[h] \subseteq {p}
    <3>1. KeyEncrypted(h, caller[h], wrapped'[h]) /\ open'[h] = {}
      BY <1>3, <2>1, <2>3 DEF InterestsEnd, KeysInv, ThermometerTypeOK
    <3>2. CASE caller[h] = Nobody
      <4>1. ckeys' = ckeys /\ Published' = Published
        BY <1>1, <2>1, <3>1, <3>2 DEF KeyEncrypted, Published, KeysInv, ThermometerTypeOK
      <4>2. \A q \in Request : puts'[q] = puts[q]
        BY <3>1, <3>2 DEF KeyEncrypted
      <4>3. Answers' = Answers
        BY <1>1, <4>2, AnswersStay
      <4> QED
        BY <1>1, <4>1, <4>3 DEF HourKeysOf!vars
    <3>3. CASE caller[h] # Nobody
      <4> DEFINE r == caller[h]
      <4>1. r \in Request /\ puts[r] = 0 /\ hourOf[r] = h
        BY <1>1, <3>3 DEF KeysInv, ThermometerTypeOK, CallersWait
      <4>2. /\ ckeys' = ckeys \cup ({h} \X wrapped'[h])
            /\ puts' = [q \in Request |-> IF q = r THEN puts[q] + 1 ELSE puts[q]]
        BY <3>1, <3>3 DEF KeyEncrypted
      <4>3. Published' = Published \cup {h}
        BY <1>1, <2>1, <3>1, <3>3 DEF Published, KeysInv, ThermometerTypeOK
      <4> HIDE DEF r
      <4>4. HourKeysOf!New(r) /\ Answers' = Answers \cup {<<r, h>>}
        BY <1>1, <4>1, <4>2, AnswersGrow
      <4> QED
        BY <1>1, <4>1, <4>2, <4>3, <4>4, PublishedAtOnce
    <3> QED
      BY <3>2, <3>3
  <2> QED
    BY <2>2, <2>3
<1> QED
  BY <1>2, <1>3 DEF InterestEnds, EKeyRefused, EKeyUnusable, EKeyComes

\* The keys of an hour are published once, together, for its day, and never
\* change: the thermometer implements HourKeys (onKeyEncrypted, searchCKey).
THEOREM KeysRefine == ThermometerSpec => ImplementsHourKeys
<1>1. ThermometerInit => HourKeysOf!Init
  BY DEF ThermometerInit, HourKeysOf!Init, Published, Answers
<1>2. KeysInv /\ KeysInv' /\ [ThermometerNext]_thermometer
        => [HourKeysOf!Next]_HourKeysOf!vars
  <2> SUFFICES ASSUME KeysInv, KeysInv', [ThermometerNext]_thermometer
               PROVE  [HourKeysOf!Next]_HourKeysOf!vars
    OBVIOUS
  <2>1. CASE HourPasses \/ UNCHANGED thermometer
    BY <2>1 DEF HourPasses, thermometer, producer, HourKeysOf!vars, Published, Answers
  <2>2. CASE \E r \in Request, t \in Hour : GetTemperature(r, t)
    BY <2>2, GetTemperatureImplements
  <2>3. CASE \E h \in Hour : GetContentKey(h)
    BY <2>3, GetContentKeyImplements
  <2>4. CASE \E h \in Hour, p \in Prefix : InterestEnds(h, p)
    BY <2>4, InterestEndsImplements
  <2> QED
    BY <2>1, <2>2, <2>3, <2>4 DEF ThermometerNext
<1> QED
  BY <1>1, <1>2, KeysAreKept, PTL DEF ThermometerSpec, ImplementsHourKeys, HourKeysOf!Spec

=============================================================================
