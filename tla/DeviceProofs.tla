---------------------------- MODULE DeviceProofs ----------------------------
(***************************************************************************)
(* Theorems about DeviceClient, for every set of interests and readings    *)
(* and for every number of tries and starts.                               *)
(***************************************************************************)
EXTENDS DeviceClient, TLAPS

\* The status is the parity of the count, and the pins of a device that was
\* commanded follow the status: true again at each start, whatever the pins are.
StatusCounts ==
  \A d \in Device :
    /\ status[d] = count[d] % 2
    /\ count[d] > 0 => level[Main[d]] = status[d]
    /\ d = "motor" /\ count[d] > 0 => level[3] = LOW

DInv == DeviceTypeOK /\ StatusCounts /\ MeasuredIsSent

-----------------------------------------------------------------------------
\* Registers are 16 bits wide.
LEMMA WordSize == ReadError \in Int /\ ReadError <= 65535
BY DEF ReadError

\* What mcp9808_temperature computes of a word is the two's complement of its
\* thirteen low bits with the bytes swapped.
LEMMA CelsiusIsTwosComplement ==
  ASSUME NEW w \in 0..ReadError
  PROVE  Celsius(w) \in Int /\ TwosComplement(w, Celsius(w))
<1>1. w \in Int /\ 0 <= w /\ w <= 65535
  <2>1. w \in Int /\ 0 <= w /\ w <= ReadError
    BY WordSize
  <2> QED
    BY <2>1, WordSize
<1> DEFINE hi == w \div 256
<1> DEFINE raw == (w % 256) * 256 + w \div 256
<1>2. hi \in Int /\ 0 <= hi /\ hi <= 255
  BY <1>1
<1>3. raw \in Int
  BY <1>1, <1>2
<1>4. Celsius(w) = (raw % 4096) - (IF (raw \div 4096) % 2 = 1 THEN 4096 ELSE 0)
  BY DEF Celsius, Swapped
<1> HIDE DEF raw, hi
<1>5. Celsius(w) \in Int /\ -4096 <= Celsius(w) /\ Celsius(w) <= 4095
  BY <1>3, <1>4
<1>6. (raw - Celsius(w)) % 8192 = 0
  BY <1>3, <1>4
<1>7. raw = 256 * (w % 256) + w \div 256
  BY <1>1 DEF raw
<1>8. (256 * (w % 256) + w \div 256 - Celsius(w)) % 8192 = 0
  <2>1. 256 * (w % 256) + w \div 256 - Celsius(w) = raw - Celsius(w)
    BY <1>1, <1>3, <1>5, <1>7
  <2> QED
    BY <1>6, <2>1
<1> QED
  BY <1>5, <1>8 DEF TwosComplement

\* The conversion to int cuts towards zero.
LEMMA FahrenheitIsWhole ==
  ASSUME NEW w \in 0..ReadError
  PROVE  Fahrenheit(w) \in Int /\ WholeDegrees(Fahrenheit(w), 9 * Celsius(w) + 2560)
<1> DEFINE f == 9 * Celsius(w) + 2560
<1>1. f \in Int
  BY CelsiusIsTwosComplement
<1>2. Fahrenheit(w) = IF f >= 0 THEN f \div 80 ELSE -((-f) \div 80)
  BY DEF Fahrenheit, Eightieths
<1>3. Fahrenheit(w) \in Int
  BY <1>1, <1>2
<1>4. WholeDegrees(Fahrenheit(w), f)
  <2> HIDE DEF f
  <2>1. CASE f >= 0
    BY <1>1, <1>2, <2>1 DEF WholeDegrees
  <2>2. CASE f < 0
    <3> DEFINE n == (-f) \div 80
    <3>1. n \in Int /\ 80 * n <= -f /\ -f < 80 * (n + 1)
      BY <1>1
    <3>2. Fahrenheit(w) = -n
      BY <1>1, <1>2, <2>2
    <3> HIDE DEF n
    <3> QED
      BY <1>1, <2>2, <3>1, <3>2 DEF WholeDegrees
  <2> QED
    BY <1>1, <2>1, <2>2
<1> QED
  BY <1>3, <1>4

-----------------------------------------------------------------------------
\* A device that is switched has its pins follow, and its count goes on.
LEMMA SwitchKeeps ==
  ASSUME DeviceTypeOK, StatusCounts, NEW d \in Device, Switch(d)
  PROVE  /\ status' \in [Device -> {0, 1}] /\ level' \in [Pin -> {LOW, HIGH}]
         /\ count' \in [Device -> Nat]
         /\ StatusCounts'
<1>1. /\ status' \in [Device -> {0, 1}] /\ level' \in [Pin -> {LOW, HIGH}]
      /\ count' \in [Device -> Nat]
  BY DEF Switch, SetPins, Count, DeviceTypeOK, Device, Pin, LOW, HIGH, Main
<1>2. ASSUME NEW e \in Device
      PROVE  /\ status'[e] = count'[e] % 2
             /\ count'[e] > 0 => level'[Main[e]] = status'[e]
             /\ e = "motor" /\ count'[e] > 0 => level'[3] = LOW
  <2>1. CASE e = d
    <3>1. count[e] \in Nat /\ status[e] = count[e] % 2 /\ status[e] \in {0, 1}
      BY DEF DeviceTypeOK, StatusCounts
    <3>2. count'[e] = count[e] + 1 /\ status'[e] = 1 - status[e]
      BY <2>1 DEF Switch, Count, DeviceTypeOK
    <3>3. level'[Main[e]] = IF status[e] = 0 THEN HIGH ELSE LOW
      BY <2>1 DEF Switch, SetPins, DeviceTypeOK, Main, Device, Pin
    <3>4. status'[e] = count'[e] % 2
      BY <3>1, <3>2
    <3>5. level'[Main[e]] = status'[e]
      BY <3>1, <3>2, <3>3 DEF HIGH, LOW
    <3>6. ASSUME e = "motor"
          PROVE  level'[3] = LOW
      <4>1. level'[3] = IF status[e] = 0 THEN LOW ELSE level[3]
        BY <2>1, <3>6 DEF Switch, SetPins, DeviceTypeOK, Main, Pin, Device
      <4>2. status[e] # 0 => count[e] > 0
        BY <3>1
      <4> QED
        BY <3>6, <4>1, <4>2 DEF StatusCounts
    <3> QED
      BY <3>4, <3>5, <3>6
  <2>2. CASE e # d
    BY <2>2 DEF Switch, SetPins, Count, DeviceTypeOK, StatusCounts, Device, Pin, LOW, HIGH, Main
  <2> QED
    BY <2>1, <2>2
<1> QED
  BY <1>1, <1>2 DEF StatusCounts

\* An answer that is no temperature leaves what was sent for temperatures.
LEMMA AnswerKeeps ==
  ASSUME DInv, NEW r \in Request, NEW a,
         a = NoAnswer \/ asked[r] # "get",
         answer' = [answer EXCEPT ![r] = a],
         \A q \in Request : q # r => asked'[q] = asked[q],
         a = NoAnswer \/ asked'[r] = asked[r]
  PROVE  MeasuredIsSent'
BY DEF DInv, DeviceTypeOK, MeasuredIsSent

LEMMA DInitially == DeviceInit => DInv
BY DEF DeviceInit, DInv, DeviceTypeOK, StatusCounts, MeasuredIsSent, Device, Pin, LOW, HIGH

\* A step of the process or of a consumer: the devices stay as they are, or
\* their counts start anew.
LEMMA ProcessKeeps ==
  ASSUME DInv, Start \/ Registered \/ RegisterFails \/ Stopped
  PROVE  DInv'
BY DEF DInv, Start, Registered, RegisterFails, Stopped, End, devices, consumers,
       DeviceTypeOK, StatusCounts, MeasuredIsSent, Device

LEMMA ExpressKeeps ==
  ASSUME DInv, NEW r \in Request, NEW c \in Command, Express(r, c)
  PROVE  DInv'
<1>1. DeviceTypeOK'
  BY DEF DInv, Express, process, devices, DeviceTypeOK
<1>2. StatusCounts'
  BY DEF DInv, Express, devices, StatusCounts
<1>3. MeasuredIsSent'
  BY AnswerKeeps DEF Express, DInv, DeviceTypeOK
<1> QED
  BY <1>1, <1>2, <1>3 DEF DInv

LEMMA ObeyKeeps ==
  ASSUME DInv, NEW r \in Request, Obey(r)
  PROVE  DInv'
<1>1. asked[r] \in Device /\ Switch(asked[r])
  BY DEF Obey
<1>2. /\ status' \in [Device -> {0, 1}] /\ level' \in [Pin -> {LOW, HIGH}]
      /\ count' \in [Device -> Nat]
      /\ StatusCounts'
  BY <1>1, SwitchKeeps DEF DInv
<1>3. CASE Fails(r)
  BY <1>2, <1>3 DEF DInv, Fails, End, consumers, DeviceTypeOK, MeasuredIsSent
<1>4. CASE Takes(r) /\ SendData(r, HIGH, NoWord)
  <2>1. DeviceTypeOK'
    BY <1>2, <1>4 DEF DInv, Takes, SendData, process, consumers, DeviceTypeOK, HIGH
  <2>2. MeasuredIsSent'
    BY <1>1, <1>4, AnswerKeeps DEF Takes, SendData, consumers, Device
  <2> QED
    BY <1>2, <2>1, <2>2 DEF DInv
<1> QED
  BY <1>3, <1>4 DEF Obey

LEMMA GetTempKeeps ==
  ASSUME DInv, NEW r \in Request, GetTemp(r)
  PROVE  DInv'
<1>1. CASE Fails(r)
  BY <1>1 DEF GetTemp, DInv, Fails, End, devices, consumers, DeviceTypeOK, StatusCounts, MeasuredIsSent
<1>2. CASE Takes(r) /\ \E w \in Reading : SendData(r, Fahrenheit(w), w)
  <2>1. PICK w \in Reading : SendData(r, Fahrenheit(w), w)
    BY <1>2
  <2>2. /\ Fahrenheit(w) \in Int /\ TwosComplement(w, Celsius(w))
        /\ WholeDegrees(Fahrenheit(w), 9 * Celsius(w) + 2560)
    BY DeviceAssumption, FahrenheitIsWhole, CelsiusIsTwosComplement
  <2>3. DeviceTypeOK'
    BY <1>2, <2>1, <2>2 DEF GetTemp, DInv, Takes, SendData, process, devices, consumers, DeviceTypeOK
  <2>4. StatusCounts'
    BY DEF GetTemp, DInv, devices, StatusCounts
  <2>5. MeasuredIsSent'
    BY <1>2, <2>1, <2>2 DEF DInv, DeviceTypeOK, MeasuredIsSent, Takes, SendData, consumers
  <2> QED
    BY <2>3, <2>4, <2>5 DEF DInv
<1> QED
  BY <1>1, <1>2 DEF GetTemp

LEMMA SilentKeeps ==
  ASSUME DInv, NEW r \in Request, SetTemp(r) \/ Ignore(r) \/ Broken(r)
  PROVE  DInv'
BY DEF SetTemp, Ignore, Broken, Takes, Fails, End, process, devices, consumers,
       DInv, DeviceTypeOK, StatusCounts, MeasuredIsSent

LEMMA DStep == DInv /\ [DeviceNext]_client => DInv'
<1> SUFFICES ASSUME DInv, [DeviceNext]_client PROVE DInv'
  OBVIOUS
<1>1. CASE Start \/ Registered \/ RegisterFails \/ Stopped
  BY <1>1, ProcessKeeps
<1>2. CASE \E r \in Request : \E c \in Command : Express(r, c)
  BY <1>2, ExpressKeeps
<1>3. CASE \E r \in Request : OnInterest(r)
  BY <1>3, ObeyKeeps, GetTempKeeps, SilentKeeps DEF OnInterest
<1>4. CASE UNCHANGED client
  BY <1>4 DEF client, process, devices, consumers,
       DInv, DeviceTypeOK, StatusCounts, MeasuredIsSent
<1> QED
  BY <1>1, <1>2, <1>3, <1>4 DEF DeviceNext

LEMMA DInvAlways == DeviceSpec => []DInv
BY DInitially, DStep, PTL DEF DeviceSpec

-----------------------------------------------------------------------------
\* Every variable of the client keeps to its type.
THEOREM DeviceTypes == DeviceSpec => []DeviceTypeOK
<1>1. DInv => DeviceTypeOK
  BY DEF DInv
<1> QED
  BY <1>1, DInvAlways, PTL

\* However often the program is restarted over pins that stayed as they were,
\* the pins are what the interests since the start make them.
THEOREM PinsFollow == DeviceSpec => []PinsFollowCount
<1>1. DInv => PinsFollowCount
  BY DEF DInv, StatusCounts, PinsFollowCount, Device
<1> QED
  BY <1>1, DInvAlways, PTL

\* Every temperature that is sent is the measured one, for every word of the
\* sensor's register.
THEOREM Measured == DeviceSpec => []MeasuredIsSent
<1>1. DInv => MeasuredIsSent
  BY DEF DInv
<1> QED
  BY <1>1, DInvAlways, PTL
=============================================================================
