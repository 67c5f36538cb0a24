# Specifications of nacapp

TLA+ models of nacapp, a smart-home system over Named Data Networking (NDN) with
Name-based Access Control (NAC): the models are translated from the C++ code under
`src/`, checked with TLC on small instances, and the invariants that matter most are
proved with TLAPS for every value of the constants.

## The system

| Part | Code | State it keeps | Operations |
|---|---|---|---|
| Node | `node/src/node-impl.cpp`, `node.cpp`, `handlers.hpp` | prefix, maps from path to handler, validators and processors; per call a `*sent` flag | `route`, `setPrefix`, `serveForever`, `onInterest`, `showInterest`, `sendData`, `onFailed` |
| Access manager | `manager/src/manager.cpp` | identities, one `GroupManager` per data type, D-KEY cache | `addIdentity`, `removeIdentity`, `grantAccess`, `revokeAccess`, `getEKey`, `getDKey` |
| Manager service | `manager/src/service.cpp`, `manager-service-node.cpp` | none of its own | one request handler per operation of the manager, over a node |
| Bootstrap | `node/src/protocol/v2/bootstrap*.cpp` | the session, a retry counter | fetch the owner certificate, serve the unsigned device certificate, fetch the signed one |
| Thermometer | `thermometer/src/thermometer.cpp` | the content keys by name; the NAC producer's database | `onGetTemperature`, `onGetContentKey` |
| Device client | `rpi/src/client.cpp`, `led.hpp`, `motor.hpp`, `temp.hpp`, `mcp9808.cpp` | whether the LED and the motor are on; the pins; the sensor's register | `onInterest`, `doRecieveLed`, `doRecieveMotor`, `doRecieveGetTemp`, `mcp9808_temperature` |
| Shared helpers | `shared/src/*` | a retry counter in `expressInterest` | HMAC, AES, names, strings, key chain |
| Steering | `rpi/src/motion.cpp`, `pca9685/`, `gpio.cpp` | speed, PWM registers | used by no program |
| Producer, consumer, BT client | `producer/`, `consumer/`, `btsimpleclient/` | none | stubs and a command-line client |

**How they interact.** Every program is one thread that runs the event loop of an
ndn-cxx `Face`. Programs talk by interests and data. A node turns an interest into a call
of an application handler, with two functions: `put` sends data, `show` expresses an
interest whose answer comes back as a callback of the same loop. The manager service and
the thermometer are handlers on a node; the bootstrap adds a route to a node from inside
a callback. The manager drives NAC group managers, an external library; the thermometer
drives a NAC producer, which asks the manager for E-KEYs.

**What is hard.** No two pieces of code run at once, yet much interleaves: filters are
registered, handlers return with data still to come, callbacks run when other calls have
been served, and routes and the prefix change in between. Handlers may throw at any
moment, put several packets or none. The network may answer, refuse or stay silent. In the
manager, a cache of D-KEYs outlives the groups and the schedules its keys were made for. In
the thermometer, the first request of an hour decides what every later one finds. The
bootstrap's callbacks use variables that are gone when they run. On the device, pins keep
their levels when the process that drives them ends.

**What makes each part correct.**
- Node: an interest that arrived through a filter reaches a handler; a call whose handler
  returned false was answered, and the fallback does not double its Data; a call that failed is
  reported, if by a packet that answers nobody, or the process dies; what is signed is what is
  sent; calls come to an end.
- Manager: a key of a group in force is with its members only, revocation is final until
  the next grant, a consumer gets the key that producers encrypt with.
- Service: a request changes what its acknowledgement says, once.
- Thermometer: each request for a temperature is answered, under a content key that
  consumers can get.
- Bootstrap: the device certificate is installed after the owner has proved the pairing
  code, a refused handshake is over, and the ways to end without a report are known.
- Manager and thermometer together: who lost a grant cannot read what is produced with keys
  asked for afterwards, however long the network and the producer keep older ones.
- Device client: the pins are what the commands since the start make them, and what is sent
  as a temperature is the one measured.

## The modules

| Module | Models | |
|---|---|---|
| `EventLoop` | what a node promises: requests are handled one at a time and once, answered when they are over, reported when they failed | abstract specification |
| `NodeImpl` | the dispatcher of a node, its application and its face | specification |
| `MCNode` | instances of `NodeImpl` | TLC |
| `NodeProofs` | theorems about `NodeImpl`, and its refinement of `EventLoop` | TLAPS |
| `AccessEpochs` | what the manager promises: keys belong to epochs of a data type, which revocation ends | abstract specification |
| `AccessEpochsProofs` | theorem about `AccessEpochs` | TLAPS |
| `Manager` | the access manager, with what it uses of NAC's group manager | specification |
| `MCManager` | instances of `Manager` | TLC |
| `ManagerProofs` | theorems about `Manager`, and its refinement of `AccessEpochs` | TLAPS |
| `ManagerService` | the request handlers of the manager's node, over `Manager` | composition |
| `ServiceProofs` | theorems about `ManagerService`, over those of `ManagerProofs` | TLAPS |
| `HourKeys` | what the thermometer promises: the keys of an hour are published once and all together | abstract specification |
| `Thermometer` | the thermometer, with what it uses of NAC's producer | specification |
| `MCThermometer` | instances of `Thermometer` | TLC |
| `ThermometerProofs` | theorems about `Thermometer`, and its refinement of `HourKeys` | TLAPS |
| `HomeAccess` | `Manager` and `Thermometer` side by side, with the network between | composition |
| `MCHome` | instances of `HomeAccess` | TLC |
| `ServedHome` | `HomeAccess` with the manager behind `ManagerService` | composition |
| `MCServed` | instances of `ServedHome` | TLC |
| `HomeProofs` | theorems about `HomeAccess` and `ServedHome`, over those of all their parts | TLAPS |
| `Bootstrap` | the device's side of the bootstrap | specification |
| `MCBootstrap` | instances of `Bootstrap` | TLC |
| `BootstrapProofs` | theorems about `Bootstrap` | TLAPS |
| `DeviceClient` | the client on a Raspberry Pi, its motor, LED and sensor | specification |
| `MCDevice` | instances of `DeviceClient` | TLC |
| `DeviceProofs` | theorems about `DeviceClient` | TLAPS |

### NodeImpl

A *call* is a pair of an interest and a filter that it matches: the face calls
`onInterest` once for each. `phase` says where the call is: `queued` (the face is about
to call `onInterest`), `open` (its handler is on the stack), `async` (the handler returned
true), or closed: `done`, `failed`, or `misrouted` when no path or handler was found.
`running` is the application code on the stack; `LoopIsIdle` is the moment in which the
face takes the next event. `wire` keeps what each call has put, with the state of the
signature it left with.

| Action | Code |
|---|---|
| `Route`, `SetPrefix`, `ServeForever` | `route`, `setPrefix`, `serveForever` with `registerPrefixes` |
| `PrefixRegistered`, `PrefixRefused` | the forwarder's answer; `onRegisterPrefixFailed` throws, the process ends |
| `Deliver` | the face finds the filters an interest matches and queues a call for each |
| `OnInterest` = `Misroute`, `Reject` or `Invoke` | `onInterest`, `parseInterestName`, `validate`, the lookups of `handleInterest`, `onFailed` |
| `HandlerPut`, `CallbackPut` | `sendData`: Nacks become lp::Nacks and leave `*sent`; processors, signature, freshness period |
| `HandlerShow`, `OnData`, `OnNack`, `OnTimeout` | `showInterest` and its three callbacks |
| `HandlerReturnAsync`, `HandlerReturnSync`, `HandlerThrow` | the end of `handleInterest`, the catches of `onInterest` |
| `OnFailed`, in `Misroute`, `Reject` and `HandlerThrow` | `onFailed`, outside the try: it puts its packet, or its `sign` or `put` throws out of `serveForever` and the process dies |
| `CallbackReturn`, `CallbackThrow` | the application's callback; nothing catches what it throws |

The application is any program that keeps the contract of `handlers.hpp`: it returns true
only while an interest it showed is pending, and the callback of such a handler puts data
before it returns. The timeout callback uses a reference to a parameter that no longer
exists; the model lets it run as if the object were there, or end the process. A processor
is what rewrites a packet and so outdates a signature. Content, names of packets and the
order of the log are left out, but for one name: the Data of `onFailed` has none and satisfies
no interest, so that it is a packet that was put and no answer (`HasAnswer`). `by` tells who put
a packet: the application, the node in its place, or `onFailed`.

### EventLoop

Requests are idle, queued, open while their handler runs, and then over, failed, or suspended
(`async`) until what they wait for comes. One piece of code runs at a time; a request that is
over has been given an answer (`Answer`), one that failed a packet that is none (`Notice`); what
a request waits for resumes it at most once, and then it is over, or drops it. The process may
end at any moment, in a handler too, when reporting its failure fails: what was open then stays
open, and nothing more is put.

The calls of a node implement it: `stage` is the phase of the call, but that a call whose
callback has returned is over and one whose interest was nacked is dropped (`StageOf`),
`current` the call whose code is on the stack, `ended` the calls whose interest has ended,
`replies` the packets put, of which those of `onFailed` are notices and the others answers.

### Manager

`identities`, `group` and `dkeyCache` are `m_identities`, `m_groups` and `m_dkey_cache`.
The rest is what NAC keeps: each `GroupManager` object has an in-memory database
(`DB_PATH` is `:memory:`), so that the next object of a data type starts empty with new
keys; objects are numbered. `member` and `window` are the members and schedules of the
type's object. The group manager makes a key pair for a slot that a schedule of it covers,
and a D-KEY for each member whose schedule covers the slot. A slot is a day. `held` is
every D-KEY ever returned. Each public operation is one action: the manager is called
from one thread and calls nothing that waits. The default schedule is the window that
`defaultSchedule` gives NAC: it passes the days of the year where the interval takes how often it
repeats, so that its first and its last day are covered (`DefaultSchedule`). `deleteGroup` is
never called and is left out. `CreateGroup` is part of grants and, as in the code, of revocations.

### ManagerService

Extends `Manager`: each handler of class `Service` is an action that does one operation of
the manager and says how the request was answered (`answer`), with `log` as the history of
the changes that were acknowledged. The paths of `ManagerServiceNode` are not prefixes of
each other, so that each request is one call of `NodeImpl`, which runs a handler to its end. A
request that cannot be read changes nothing: it is answered with a Nack, or the handler throws
and nobody is answered, or the process dies, since `onGetEKey` dereferences the first range of
an `Exclude` that may be empty and `onGrant` takes arguments that may be missing
(`ServeUnreadable`); where such a read finds something, it is one of the other requests. That
`onFailed` may throw for any request is in `NodeImpl` only.

| Action | Code |
|---|---|
| `ServeAdd`, `CertificateComes`, `AddNacked`, `NoCertificateComes` | `onAddIdentity` and what becomes of the interest it shows: `onAddIdentityKey` with a certificate, a network Nack that is only logged, a time-out or other data, at which the constructor of `Certificate` throws |
| `ServeRemove`, `ServeIdentity` | `onRemoveIdentity`, `onGetIdentityKey` |
| `ServeGrant`, `ServeRevoke` | `onGrant` with `grant`, `onRevoke` |
| `ServeEKey`, `ServeDKey`, `ServeUnreadable` | `onRead` with `onGetEKey` and `onGetDKey`; requests of any path that cannot be read |

The only state of its own is `adding`, the entities whose certificates are awaited, and
`up`, false when an exception ended the process. Every grant uses the dates fixed in
`onGrant`, so that a data type has one schedule (`ScheduleOf`, `GrantWindow`) and no handler
reads the clock, which goes on meanwhile (`TimePasses`).

### AccessEpochs

Data types go through epochs: a grant joins consumers to the current epoch or opens the
next, a revocation ends the epoch for all its members, and the key of the current epoch
is issued to its members only. Keys of epochs that are over may still be handed out.

### Thermometer

`made` is the producer's database: the hours that have a content key. For each hour `asked`
and `open` are the E-KEY interests under way and what keeps the fetch from ending, `wrapped`
the E-KEYs that its key was encrypted with so far, `caller` the request whose callback the
fetch will run, or `Nobody` when a C-KEY request made the key. `ekey` is what the producer
has at hand, `ckeys` is `m_ckeys`. `puts` and `sent` are what was answered.

| Action | Code |
|---|---|
| `GetTemperature` | `onGetTemperature` with `parseTimeSlot`: makes the key of the hour, and produces at once if the hour has a C-KEY; with all E-KEYs at hand it produces twice |
| `GetContentKey` | `onGetContentKey` with `searchCKey` |
| `EKeyComes`, `EKeyRefused` | the ends of the producer's interests; the last runs `onKeyEncrypted` (`InterestsEnd`, `KeyEncrypted`) |
| `EKeyUnusable` | `onNACProduceError`, after which the fetch never ends |
| `HourPasses` | the clock |

An E-KEY is modelled by its prefix and the day it is for, a content key by its hour.

### HourKeys

The keys to an hour's content are published once, all together, for readers of the hour's day
and at most one for each type; they come with the answer to the request they were made for, and
no request of the hour is answered before that, nor after it if they were published for
nobody. The key that is handed out is always the same.

The thermometer implements it: an hour is published when the fetch that a request led to has
ended, its keys are `ckeys`, those handed out `sent`, and an answer is a request that was put a
packet, with its hour. That a fetch of several interests, in any order, ends in one step of
`HourKeys` is what the refinement says.

### HomeAccess

Extends both modules: an E-KEY is a key of the manager, a prefix of the thermometer's data
type is a data type of the manager, a slot is the day of an hour. `published` are the E-KEYs
the manager has given out; any of them may be delivered at any later time (`DeliverEKey`), so
caches, delays and reordering are all there. `old` are those given out before a revocation of
their type. The two clocks are one: `PassHour` moves the manager's day when the hour enters it.

### ServedHome

`HomeAccess` lets the manager be called at will; here it does only what its service is asked
for, so that what consumers can read can be compared with what was acknowledged. Each action
conjoins a handler of `ManagerService` with what `HomeAccess` says of the network: `Serve` for
requests about identities, grants and D-KEYs, `ServeRevocation`, `GiveEKey`, and `Elsewhere` for
the thermometer and the clock. `given` is a history: each E-KEY with the number of
acknowledged requests when it was given out. Two moments of the log are in the same *span* of
a data type (`SameSpan`) when no revocation of it was acknowledged between them.

### Bootstrap

`stage` is how far `start` and its callbacks are, `reply` the owner's reply that was made the
trust anchor, `fetch` what became of the fetch that each of the owner's requests led to, and
`reports` what the application was called back with. `start` looks into the session before it
tests it for null. Every lambda captures parameters or locals by reference that are gone when
it runs; that is undefined, and the model lets the process end there (`Die`), or the call go on
as if the object were there, with any value for a number or a counter. So the number that a
reply is compared with, `randomNo` of `startBootstrap`, may turn out to be that of any reply: a
reply to this session may be refused, and one to another session accepted, as long as its HMAC
is right. The pairing code is read in the caller's `Config`, which is taken to live.

| Action | Code |
|---|---|
| `Start` | `start` with `isValidSession`, `isValidConfig` |
| `OwnerReplies`, `OwnerNacked`, `OwnerSilent` | the ends of the interest of `startBootstrap`: `validateOwnerCertResp`, `extractOwnerCert`, `generateIdentity`, `setTrustAnchor`, the route |
| `ServeUnsignedCert`, `RefuseRequest` | `serveDeviceUnsignedCert` with `validateOwnerRequest` |
| `InstallCert`, `FetchFails`, `FetchNacked` | the ends of the interest of `fetchDeviceCert`: `setDeviceCert` |

### DeviceClient

`up` is the process, `status` holds `m_on` and `led_status`, `level` what was last written to
each pin. An interest is expressed again while no Data for it has reached its consumer, up to
`MaxTries` times. Each handler is one action; where it may throw or use a sensor that could not
be opened (`Fails`) the process ends, for every consumer. Starting it again resets `status` and
not `level`. A register value is a 16-bit word with its bytes as the bus gives them; `Celsius`
and `Fahrenheit` are the arithmetic of `mcp9808_temperature` and `getTemp` in whole numbers
(sixteenths of a degree Celsius, eightieths of one Fahrenheit; the doubles of the code cut to
the same integers for all 65536 words). `malloc` failures and the lengths of strings are left out.

## The runs

| Run | Checks | Instance |
|---|---|---|
| `MCNode_route` | `TypeOK`, `NoHandlerLost` | one interest `/n/a/b`, paths `/` and `/a`, prefixes `/n` and `/n/a`, a validator that rejects it; no puts beyond the fallback |
| `MCNode_calls` | `ClosedPutPacket`, `FallbackOnlyWhenSilent`, `SignatureCoversProcessing`, `CallsSettle`, `ImplementsLoop` | two interests, path `/`, data that is a Nack, unsigned with or without a freshness period, or signed; up to two packets per call |
| `MCManager_keys` | `TypeOK`, `RevokedCannotRead`, `ImplementsEpochs` | two data types, an identity and two certificates, two group objects |
| `MCManager_schedules` | `IdentityGetsCurrentKey`, `JoinsAreRegistered` | one data type, two slots, two schedule names, two windows, two group objects |
| `MCThermometer_keys` | `ThermometerTypeOK`, `OneContentKey`, `ForItsDay`, `AnsweredIsReadable`, `CallerIsAnswered`, `ImplementsHourKeys` | two temperature requests, any C-KEY requests, three hours of two days, two prefixes |
| `MCHome_revoke` | `HomeTypeOK`, `RevokedReadNoNewData`, `GrantsKeepData`, `ReadersGetTheData` | an identity and its certificate, one data type of one component, two requests, two group objects, two hours of a day |
| `MCServed_access` | `HeldIsEarned`, `RegistryIsLastWord`, `ReadIsGranted` | an identity and its certificate, one data type, five acknowledged changes, two group objects, one request for a temperature, two days of an hour each |
| `MCBootstrap_handshake` | `BootstrapTypeOK`, `MutuallyAuthenticated`, `RefusedIsOver`, `Concludes` | every session and reply, three requests of the owner |
| `MCDevice_commands` | `DeviceTypeOK`, `PinsFollowCount`, `MeasuredIsSent`, `AnsweredOrOver` | two interests, three times each, two starts, pins at any level, nine register values |

Three further runs show where the code departs from its own comments; each checks one
property, and TLC finds it violated:

| Run | What the code does |
|---|---|
| `MCNode_unsigned` | `sendData` signs and then sets the default freshness period: the signature is outdated |
| `MCManager_crosstype` | `getDKey` answers from a cache that knows neither data type nor group |
| `MCThermometer_silent` | `onGetTemperature` returns true for a request that finds its hour's content key made and no C-KEY, and never answers it |

Departures that the models contain and no run checks:

- Node: `onFailed` puts an unnamed Data of content type Nack, which satisfies no interest,
  although `node-impl.cpp:221` wants every nack converted, and may put it after Data of the
  handler; its own exceptions end the process (76-79); a path routed or a prefix set after `serveForever` gets no filter,
  against `node.hpp:44`; with `/a` and `/a/b` routed an interest below `/a/b` runs the handler of
  `/a` twice and that of `/a/b` never (`node-impl.cpp:275`); an asynchronous call whose interest
  is nacked is never answered, against `handlers.hpp:30`.
- Manager: `removeIdentity` leaves memberships, against `manager.hpp:36`; a grant overwrites a
  schedule of the same name, against `manager.hpp:91`; revoking one member drops all, against
  `manager.hpp:57`; a second grant under the identity's name does not move the member to the new
  schedule, against `manager.hpp:48`; the default schedule covers the first and the last day of
  its year, against `manager.hpp:47` (`7x24`).
- Service: `service.hpp:75-82` has `add/<identity-name>` remember the identity's key until it is
  served, and 56-63 serve it at `IDENTITY/for/<entity-name>`, but `onAddIdentityKey` registers it
  under the name of the certificate (`service.cpp:173`): a request for the name that was added,
  when it is the identity's, is refused, and a grant to it joins nobody. `RegistryIsLastWord`
  takes no side: it allows either name. A request that lacks arguments may end the process. An
  entity that does not answer
  `onAddIdentity` ends the manager's process, against `handlers.hpp:19`.
- Thermometer: with every E-KEY at hand a temperature is produced twice (102-105); a C-KEY
  request makes the key of an hour without a callback (128), so that the hour never gets a
  C-KEY; its hour is not capped to the present. After a revocation the producer goes on with the
  E-KEY at hand to the end of its day, so that members granted again cannot read the data.
- Bootstrap: the number that a reply repeats is compared with a variable that is gone
  (`bootstrap-impl.cpp:171-175`), and the hash of the owner's request covers no number (53-60), so
  that neither is tied to the session; a null session is dereferenced (`bootstrap.cpp:20`); a device whose
  `deviceIdentity` is not set by the application dies at the installation; success is reported
  once for each installed certificate; were the retry counter alive, the twelfth invalid request
  would be the first to fail (109); the path `/` that it routes takes the place of the
  application's own.
- Device client: the argument of a command is ignored and the answer is 1 either way, although
  `led.hpp:15` and 21 speak of the state that is returned; a failed read is sent as 31 degrees;
  status, registration and the setting of a temperature are never answered; no pin mode is set
  for the LED.

And one departure that the models leave out: the signatures of what
the thermometer and the manager send are outdated where a name or a freshness period is set
after the Data was signed (`thermometer.cpp:89`, `service.cpp:75`, 104, 128). Only `NodeImpl`
models signatures.

Beside some definitions stand *altered* forms, marked as such and used by no action: a bug
that could be made at that place. With the definition replaced by its altered form, the run
finds the property violated that guards the place; PROJECT.json pairs them under "mutants".

### Bounds

- `MaxPut` bounds how far a handler goes on putting. With 1 a call can put two packets: the
  handler's and the node's fallback, or one before and one after a throw, which is what the
  properties of answers compare. With 0 only the node's own packets are left, enough for
  dispatch.
- A name has up to three components, so that one routed path can lie below another, one
  prefix below another, and an interest below both.
- `MaxGroups` = 2: a group, its revocation and a second group; a third repeats the second.
- Two slots: a schedule that covers a slot and one that does not; with `Year` = 1 the default
  schedule covers both of its days from the first slot and one from the last.
- `MaxLog` = 5 acknowledged changes: an addition, a grant, a revocation, a second grant and a
  removal, in any order; key requests and refused ones are not counted.
- `MCThermometer_keys`: two hours of one day and one of the next tell an E-KEY at hand that
  covers the hour from one that does not; two prefixes let a fetch end in parts; of two requests
  one can find the fetch of the other under way. C-KEY requests are not counted.
- `MCServed_access`: two days of an hour each, so that an E-KEY of the first is outdated for the
  second, where the schedule of grants does not reach. Its view replaces the log by what the
  properties say of it, which is also what one more event can change (`MCLog`, `MCGiven`), and
  leaves out the answers, which nothing reads. Removals of a name that is no certificate's are
  not kept apart: they matter to `RegistryIsLastWord` only when something is registered under it.
- `MCHome_revoke`: a grant, a revocation and a second grant with a new group (`MaxGroups` = 2),
  two hours with one E-KEY, which the second may find at hand, and a consumer that asks by its
  identity or by its certificate's name. Its view leaves out the last answer of the manager,
  which no action reads; `ReadersGetTheData` speaks of the answer a step gives.
- `MCBootstrap_handshake`: with three requests a fetch may be installed, nacked and pending at
  a time. Refused requests are not counted.
- `MCDevice_commands`: three tries of two interests switch a device up to six times; two starts
  let the second begin with pins that the first left up. The register values are 0, -1/16 (the
  failed read as well), both ends of the range, and values with alarm bits and below zero.
- `MCManager_keys` uses the symmetry of the two data types; no liveness is checked there.

`MCNode` runs do not check deadlock: a node whose interests have all been handled waits in
its loop for the next one, and the model has finitely many. Nor do those of `MCThermometer`, `MCHome`,
`MCServed`, `MCBootstrap` and `MCDevice`, where the requests, hours, tries and starts are bounded. The runs
of `MCManager` do check it.

### Fairness

`FairSpec` of `NodeImpl` asks for two things. Code on the stack goes on, and a queued call
is dispatched: one weak fairness for the whole loop, as there is one thread. Every interest
that was expressed ends: ndn-cxx satisfies, nacks or times it out; weak fairness per call,
since nothing but these events ends the wait and the loop is idle again and again. Nothing
is asked of the application's configuration, of the forwarder's answers to registrations or
of arriving interests.

`FairThermometer` asks that each E-KEY interest of the producer ends: NAC's producer repeats an
interest a bounded number of times and then gives up. It asks nothing of consumers.
`FairBootstrap` asks that `start`, which the program calls, runs, and that the interest for the
owner's certificate and those for the device's end, by data, a Nack or a timeout. It does not ask
that the owner requests anything. `FairDevice` asks that the loop takes up an interest that has
come, again per interest, as none is passed over for ever.

## What is proved

For every choice of the constants under the assumption that each module names
(`NodeAssumption`, `ManagerAssumption`, `ServiceAssumption`, `ThermometerAssumption`,
`HomeAssumption`, `BootstrapAssumption`, `DeviceAssumption`):

| Theorem | Says |
|---|---|
| `NodeProofs!TypeCorrect` | `TypeOK` |
| `NodeProofs!ClosedCallsPut` | `ClosedPutPacket`: what is closed has put a packet, a call whose handler returned false one of the handler's or the fallback |
| `NodeProofs!Fallback` | `FallbackOnlyWhenSilent`: the fallback of `handleInterest` never follows Data |
| `NodeProofs!Signatures` | `SignatureCoversProcessing` |
| `NodeProofs!Routing` | `NoHandlerLost`, for all prefixes and nested paths |
| `NodeProofs!LoopRefined` | `ImplementsLoop`: the calls of a node implement `EventLoop` |
| `ManagerProofs!TypeCorrect` | `TypeOK` |
| `ManagerProofs!Revocation` | `RevokedCannotRead` |
| `ManagerProofs!Refinement` | `ImplementsEpochs`: the manager implements `AccessEpochs` |
| `ManagerProofs!Joins` | `JoinsAreRegistered`: the step that joins a certificate is a grant to a name it is registered under |
| `ManagerProofs!IdentityAnswers` | `IdentityGetsCurrentKey` |
| `AccessEpochsProofs!EpochsAreExclusive` | `HoldersAreGranted` |
| `ServiceProofs!ServiceTypes` | `ServiceTypeOK`, the type invariant of `ManagerService` |
| `ServiceProofs!ServiceRefines` | `ServiceSpec => Spec`: the service is a client of `Manager` as it is specified |
| `ServiceProofs!ServedRevocation`, `ServedEpochs` | `RevokedCannotRead` and `ImplementsEpochs` of the manager behind the service |
| `ServiceProofs!OwnNames`, `Registry` | certificates are registered under their own names, hence `RegistryIsLastWord` |
| `ServiceProofs!HeldKeys` | `HeldIsEarned` |
| `ThermometerProofs!ThermometerTypes` | `ThermometerTypeOK` |
| `ThermometerProofs!SameKeyServed` | `OneContentKey` |
| `ThermometerProofs!CopiesForTheDay` | `ForItsDay` |
| `ThermometerProofs!Readable` | `AnsweredIsReadable` |
| `ThermometerProofs!KeysRefine` | `ImplementsHourKeys`: the thermometer implements `HourKeys` |
| `HomeProofs!HomeRefines` | `HomeSpec => Spec /\ ThermometerSpec`: both parts behave as specified |
| `HomeProofs!HomeTypes` | `HomeTypeOK` |
| `HomeProofs!NoNewData` | `RevokedReadNoNewData` |
| `HomeProofs!GrantsKeep` | `GrantsKeepData` |
| `HomeProofs!ReadersGet` | `ReadersGetTheData` |
| `HomeProofs!HomeEpochs`, `HomeHours` | `ImplementsEpochs` and `ImplementsHourKeys` of the parts of the home |
| `HomeProofs!ServedHomeRefines` | `ServedHomeSpec => HomeSpec /\ ServiceSpec`: all that is proved of the home and of the service holds |
| `HomeProofs!ServedHomeTypes` | `ServedHomeTypeOK`, the type invariant of `ServedHome` |
| `HomeProofs!ReadsGranted` | `ReadIsGranted`: who can read was granted it in the span of the E-KEY |
| `BootstrapProofs!BootstrapTypes` | `BootstrapTypeOK` |
| `BootstrapProofs!Authentication` | `MutuallyAuthenticated` |
| `BootstrapProofs!Refusal` | `RefusedIsOver` |
| `DeviceProofs!DeviceTypes` | `DeviceTypeOK` |
| `DeviceProofs!PinsFollow` | `PinsFollowCount` |
| `DeviceProofs!Measured` | `MeasuredIsSent`, for every word the register may hold |

*Closed calls, fallback, signatures* share the invariant `AnswerInv`: besides the types it says
of each call that the call on the stack as a handler is `open`, that a call in its early phases
has no Data but with `*sent` set, that `*sent` is set only with an answer on the wire, and that
each packet has the properties claimed. `ClosedPutPacket` alone is not inductive: that
`HandlerReturnSync` may rely on an answer when `*sent` is set needs the third part. What
`onFailed` puts weakens none of this, as its packet does not count as an answer and is not the
fallback's.

*Loop*: `LoopInv` adds to it that at most one piece of code is on the stack, a handler exactly
when its call is open (`OneRuns`), and that interests are shown by handlers that were called and
end after those returned (`ShownByHandlers`). Without these a step of the node, which looks at
one call, could not be mapped to a step of the loop, which speaks of all: that nothing is queued
when a callback begins, say, or that a call that suspends has not been resumed yet. Each action
is then a step of `EventLoop` or a stutter; showing and routing are stutters, an interest that
several filters match is one `Arrive`, and the end of the process is `Die` whether a callback, a
refused registration, a dangling reference or `onFailed` caused it.

*Routing* rests on `RoutingInv`: every filter, asked for or in force, is the prefix of the
moment `serveForever` ran followed by a path that is still routed, and a queued call's
interest matches its filter. Then a lemma about sequences, `PrefixThenPath`: a name that
continues `prefix \o path` continues `prefix`, and the rest of it continues `path`.

*Revocation and refinement* use `IInv`: group numbers are not above the count of objects
made and differ between data types (`GroupsAreCounted`), keys cached or held are of objects
that were made (`KeysAreOfKnownGroups`), and a key of a group in force is cached for or held
by members of it only (`LiveKeysAreOfMembers`). The second part is what makes a new group
start with no key of it outside. For the refinement every action is shown to be a step of
`AccessEpochs` or a stutter.

*Joins and current keys* are facts about one step from a state of the right types: a grant joins
nobody but the certificate looked up, and to its own type only, and an identity's name, which is no certificate's, misses
the cache, so that `getDKey` refreshes it before it looks again.

*Registry and held keys*: `ServiceRefines` carries every theorem about `Manager` over to the
service, `ServedRevocation` being one. For the rest, lemmas say what one more event changes
in what is said of the log. `LogInv` strengthens `HeldIsEarned`, which alone does not follow
a key from the group to its holder: members were granted their type since its last
revocation (`MembersAreEarned`), cached and held keys were earned once (`KeysAreEarned`), and
certificates are registered under their own names (`OwnNameRegistry`), from which
`RegistryIsLastWord` follows as well. A key in force is of
a member by `IInv` of `ManagerProofs`, hence earned since the revocation.

*Thermometer*: `KeysInv` says that E-KEYs at hand are of their prefix, that fetches are of hours
whose key was made and asked prefixes keep the fetch open, that copies are for their day, that
C-KEYs are kept only when the fetch is over and are then all its copies (`KeptAreCopies`), that a
caller waits unanswered until its fetch ends, and that a C-KEY served is the first of the
hour's. `KeptAreCopies` is what makes `OneContentKey` inductive: nothing that comes before the
first one served can be added later.

The refinement of `HourKeys` needs nothing more: a step that ends a fetch publishes, by
`KeptAreCopies` with the copies of the hour, of which no two are of one type as each prefix
has one E-KEY; a step within a fetch is a stutter, since its hour has no C-KEY yet and its
caller no answer; and a request that is answered without a fetch finds the keys of its hour.

*Home*: `HomeRefines` carries both parts' theorems over; `HomeTypeOK` is part of the induction as
a delivered E-KEY must be a key. `HomeInv` adds that a published E-KEY is old or of the group in
force, and that what is at hand or was used is published. Then a C-KEY made with an E-KEY that
is not old is under a key in force, and by `RevokedCannotRead` its holders are members. Conversely a
reader that the schedule covers has a D-KEY made for the E-KEY in force (`CopiesAreInForce`), and
asking by its identity gets it by what `IdentityAnswers` rests on: `ReadersGetTheData`.

*Served home*: `ServedHomeRefines` brings the invariants of the manager, the service and the
home together. What they say is about the group in force, while `ReadIsGranted` is about keys
of every group there ever was. `SpanInv` bridges that: an E-KEY of the group in force was given
out after the last revocation of its type (`GivenInForce`), and every key that is cached or held
is of a span in which its certificate was granted, for each moment at which an E-KEY of its
group was given out (`KeysOfSpans`). A cached or held key whose group is over keeps the span it
had, as requests acknowledged later lie behind it (`SpansStay`); one of the group in force is a
member's, whom `MembersAreEarned` of the service says to have been granted since the
revocation; and a new group has a number that no key had before (`GivenIsKnown`), so that no
old E-KEY comes to be of it.

*Bootstrap*: `BInv` says that whatever serves has for its trust anchor the good certificate of a
reply with the right HMAC, that nothing was fetched before, and that a reported failure leaves the handshake failed.

*Device*: `StatusCounts` says that the status is the parity of the count and that a device that
was commanded has its pins follow the status; it is the parity that survives a start over pins
at any level. `CelsiusIsTwosComplement` and `FahrenheitIsWhole` are the lemmas on the arithmetic.

Model-checked only: the liveness properties `CallsSettle`, `CallerIsAnswered`, `Concludes` and
`AnsweredOrOver`, as liveness under fairness is beyond the prover.

## Plan

Done: the node, the manager and its service, the thermometer, their composition, the bootstrap
and the device client, each with its proofs. What would come next:

1. That the requests of `ManagerService` and `Thermometer` are requests of `EventLoop`, which the
   calls of `NodeImpl` implement; this would bring the answers of a node, with their signatures,
   to the handlers.
2. `Motion` over the PWM driver, once a program uses it: pulses are written in bytes, so that
   between two writes the servo is given a pulse of neither position.

## Not modelled

- Cryptography (HMAC, AES, RSA) is modelled by what verification and decryption tell apart; the
  AES helpers of `security_helpers.cpp` are called by no program.
- `expressInterest` of `ndn-util.cpp`, with its retries, is called by no program.
- The conversions of names and contents (`util.cpp`, `string_helpers.cpp`, `ndn-util.cpp`) keep no
  state and no property here is about them: names are model values, and what cannot be decoded
  is a request that is refused or a handler that throws. `extractPrefix`, `hasFreshnessPeriod` and
  `data_type_filter.hpp` are used nowhere.
- `motion.cpp` and `Adafruit_PWMServoDriver.cpp` are used by no program; `gpio.cpp` is commented out.
- The producer and the consumer are stubs. The BT simple client starts the bootstrap and returns
  without an event loop.
- Vendored code is out of scope. easylogging++ alone is 7664 of the 12291 lines of
  implementation files, 62 per cent, so that the map names a small share of the whole and
  about a third of nacapp's own lines; the rest of those are declarations, conversions, logging,
  commented code and the parts above that no program uses.
