---------------------------- MODULE DeviceClient ----------------------------
(***************************************************************************)
(* The client on a Raspberry Pi (rpi/src/client.cpp) with its motor        *)
(* (motor.hpp), LED (led.hpp) and temperature sensor (temp.hpp,            *)
(* mcp9808.cpp).                                                           *)
(*                                                                         *)
(* The client switches a device each time it gets an interest for it,      *)
(* whatever the interest's argument says, and keeps whether the device is  *)
(* on in a variable of its own.  The pins keep their levels when the       *)
(* process ends; the variables start from 0.  An interest whose Data was   *)
(* lost comes again.  What a handler throws ends the process.              *)
(***************************************************************************)
EXTENDS Integers

CONSTANTS
  Request,    \* the interests that consumers may express
  Reading,    \* what the temperature register may hold
  NoAnswer, NoWord,
  MaxTries,   \* bound: how often an interest is expressed
  MaxStarts   \* bound: how often the program is started

ReadError == 65535   \* (uint16_t) of the -1 that stands for a failed read

ASSUME DeviceAssumption ==
  /\ ReadError \in Reading /\ Reading \subseteq 0..ReadError
  /\ MaxTries \in Nat /\ MaxStarts \in Nat

Device == {"motor", "led"}
\* "broken": a component is missing, or is no number where one is read.
Command == Device \cup {"get", "setTemp", "other", "broken"}
LOW == 0
HIGH == 1
Pin == {2, 3, 21}
Main == [motor |-> 2, led |-> 21]   \* the pin that follows the status

VARIABLES
  up,      \* the process: "off", "registering", "serving" or "ended"
  starts,
  status,  \* m_on and led_status
  level,   \* what each pin was set to; nothing makes pin 21 an output
  count,   \* per device, the interests obeyed since the start (history)
  asked,   \* per interest, what it asks for
  tries,   \* how often it was expressed
  pending, \* the interests that have come and are not handled
  answer   \* per interest, what was put for it, and the word that was read for it

devices == <<status, level, count>>
process == <<up, starts>>
consumers == <<asked, tries>>
client == <<process, devices, consumers, pending, answer>>

DeviceTypeOK ==
  /\ up \in {"off", "registering", "serving", "ended"} /\ starts \in Nat
  /\ status \in [Device -> {0, 1}]
  /\ level \in [Pin -> {LOW, HIGH}]
  /\ count \in [Device -> Nat]
  /\ asked \in [Request -> Command \cup {"nothing"}]
  /\ tries \in [Request -> Nat]
  /\ pending \subseteq Request /\ (pending # {} => up = "serving")
  /\ answer \in [Request -> [content : Int, word : Reading \cup {NoWord}] \cup {NoAnswer}]

DeviceInit ==
  /\ up = "off" /\ starts = 0
  /\ status = [d \in Device |-> 0]
  /\ level \in [Pin -> {LOW, HIGH}]   \* as another program left them
  /\ count = [d \in Device |-> 0]
  /\ asked = [r \in Request |-> "nothing"]
  /\ tries = [r \in Request |-> 0]
  /\ pending = {}
  /\ answer = [r \in Request |-> NoAnswer]

-----------------------------------------------------------------------------
(***************************************************************************)
(* The process and the consumers                                           *)
(***************************************************************************)

Start ==
  /\ up \in {"off", "ended"} /\ starts < MaxStarts
  /\ up' = "registering" /\ starts' = starts + 1
  /\ status' = [d \in Device |-> 0]
  /\ count' = [d \in Device |-> 0]
  /\ UNCHANGED <<level, consumers, pending, answer>>

\* Altered: what has come waits for the next start.
EndKeeping == up' = "ended" /\ UNCHANGED <<starts, consumers, pending, answer>>
\* What has come and is not handled is lost with the process.
End == up' = "ended" /\ pending' = {} /\ UNCHANGED <<starts, consumers, answer>>

Registered ==
  /\ up = "registering"
  /\ up' = "serving"
  /\ UNCHANGED <<starts, devices, consumers, pending, answer>>

\* The face is shut down, run returns, and so does main.
RegisterFails == up = "registering" /\ End /\ UNCHANGED devices

Stopped == up \in {"registering", "serving"} /\ End /\ UNCHANGED devices

\* An interest comes for the first time, or again as no Data has reached the
\* consumer.
Express(r, c) ==
  /\ up = "serving" /\ r \notin pending /\ tries[r] < MaxTries
  /\ asked[r] \in {"nothing", c}
  /\ asked' = [asked EXCEPT ![r] = c]
  /\ tries' = [tries EXCEPT ![r] = @ + 1]
  /\ pending' = pending \cup {r}
  /\ answer' = [answer EXCEPT ![r] = NoAnswer]
  /\ UNCHANGED <<process, devices>>

-----------------------------------------------------------------------------
(***************************************************************************)
(* The temperature                                                         *)
(***************************************************************************)

\* SMBus words have the low byte first, the register has the high byte first.
Swapped(w) == (w % 256) * 256 + w \div 256

\* Altered: the sign bit is taken for a bit of the value.
Unsigned(w) == Swapped(w) % 8192
\* In sixteenths of a degree: twelve bits, less 256 degrees if the sign bit is
\* set; the three alarm bits above it are dropped.
Celsius(w) ==
  LET raw == Swapped(w)
  IN  (raw % 4096) - (IF (raw \div 4096) % 2 = 1 THEN 4096 ELSE 0)

\* t * 1.8 + 32, in eightieths of a degree, and its conversion to int.
Eightieths(w) == 9 * Celsius(w) + 2560
Fahrenheit(w) ==
  LET f == Eightieths(w) IN IF f >= 0 THEN f \div 80 ELSE -((-f) \div 80)

-----------------------------------------------------------------------------
(***************************************************************************)
(* Handlers                                                                *)
(***************************************************************************)

Takes(r) ==
  /\ up = "serving" /\ r \in pending
  /\ pending' = pending \ {r}
  /\ UNCHANGED <<process, consumers>>

\* The handler throws, or uses a sensor that mcp9808_init could not open.
Fails(r) == up = "serving" /\ r \in pending /\ End

SendData(r, content, word) ==
  answer' = [answer EXCEPT ![r] = [content |-> content, word |-> word]]

\* The second pin of the motor is pulled down when the motor is switched on.
SetPins(d) ==
  level' = [level EXCEPT ![Main[d]] = IF status[d] = 0 THEN HIGH ELSE LOW,
                         ![3] = IF d = "motor" /\ status[d] = 0 THEN LOW ELSE @]
Count(d) == count' = [count EXCEPT ![d] = @ + 1]

\* Altered: the status stays 1 once the device was on.
SwitchOnce(d) == SetPins(d) /\ Count(d) /\ status' = [status EXCEPT ![d] = 1]
\* Motor::set and Led::set; the argument is not looked at.
Switch(d) == SetPins(d) /\ Count(d) /\ status' = [status EXCEPT ![d] = 1 - @]

\* The answer is HIGH either way.  The key chain or the face may throw, and
\* then the device is switched and the process ends.
Obey(r) ==
  /\ asked[r] \in Device
  /\ Switch(asked[r])
  /\ \/ Takes(r) /\ SendData(r, HIGH, NoWord)
     \/ Fails(r)

\* Altered: the word is measured and not sent.
MeasureOnly(r) ==
  /\ asked[r] = "get"
  /\ \/ Takes(r) /\ UNCHANGED answer
     \/ Fails(r)
  /\ UNCHANGED devices
\* The word is of whatever was read, a failed read included.
GetTemp(r) ==
  /\ asked[r] = "get"
  /\ \/ Takes(r) /\ \E w \in Reading : SendData(r, Fahrenheit(w), w)
     \/ Fails(r)
  /\ UNCHANGED devices

\* The temperature is read, and nothing is done with it or with the target.
SetTemp(r) ==
  /\ asked[r] = "setTemp"
  /\ \/ Takes(r) /\ UNCHANGED answer
     \/ Fails(r)
  /\ UNCHANGED devices

\* "status", "reg" and unknown options have no effect and no answer.
Ignore(r) == asked[r] = "other" /\ Takes(r) /\ UNCHANGED <<devices, answer>>

\* Name::get or stoi throws before a handler is called, and main catches.
Broken(r) ==
  asked[r] = "broken" /\ Fails(r) /\ UNCHANGED devices

OnInterest(r) == Obey(r) \/ GetTemp(r) \/ SetTemp(r) \/ Ignore(r) \/ Broken(r)

-----------------------------------------------------------------------------
(***************************************************************************)
(* Next and properties                                                     *)
(***************************************************************************)

DeviceNext ==
  \/ Start \/ Registered \/ RegisterFails \/ Stopped
  \/ \E r \in Request :
       \/ \E c \in Command : Express(r, c)
       \/ OnInterest(r)

DeviceSpec == DeviceInit /\ [][DeviceNext]_client

\* The event loop takes up what has come (processEvents).
FairDevice == DeviceSpec /\ \A r \in Request : WF_client(OnInterest(r))

\* From the first interest for a device on, its pin is what the number of the
\* interests since the start makes it, whatever level an earlier process or a
\* failure left it at; and the motor's second pin is never up with the first.
\* An interest that comes again undoes what it did (Motor::set, Led::set).
PinsFollowCount ==
  /\ \A d \in Device : count[d] > 0 => level[Main[d]] = count[d] % 2
  /\ count["motor"] > 0 => level[3] = LOW

\* What is sent for a temperature is the measured one: the thirteen bits of the
\* register in two's complement, in whole degrees Fahrenheit towards zero
\* (getTemp, mcp9808_temperature).  A failed read is not told from a word.
TwosComplement(w, v) ==
  -4096 <= v /\ v <= 4095 /\ (256 * (w % 256) + w \div 256 - v) % 8192 = 0
WholeDegrees(c, f) ==
  \/ f >= 0 /\ 80 * c <= f /\ f < 80 * (c + 1)
  \/ f < 0 /\ 80 * (c - 1) < f /\ f <= 80 * c
MeasuredIsSent ==
  \A r \in Request : asked[r] = "get" /\ answer[r] # NoAnswer =>
    LET w == answer[r].word IN
    /\ TwosComplement(w, Celsius(w))
    /\ WholeDegrees(answer[r].content, 9 * Celsius(w) + 2560)

\* An interest that has come is answered, or is of those that are not, or the
\* process is over, by a failure of this handler or of another (onInterest).
AnsweredOrOver ==
  \A r \in Request : r \in pending ~>
    answer[r] # NoAnswer \/ asked[r] \in {"setTemp", "other"} \/ up = "ended"
=============================================================================
