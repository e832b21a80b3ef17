# A TLA+ model of the Qore xml module

This directory holds TLA+ models of the parts of the Qore xml module that keep
state, the TLC configurations that check them on small instances, and proofs of
the most important results for every value of the constants. Paths are relative
to the repository; `SoapHandler.qm:474` is line 474 of that file.

## 1. The system and its parts

The module has two layers. `src/` (C++) binds libxml2: readers, iterators, the
conversion of XML to data and back, and XML-RPC. `qlib/` (Qore) builds services
and clients on it: SOAP (WSDL, a handler for the HTTP server, a client),
Salesforce, XML-RPC, WebDAV, and data providers.

| component | state it keeps | operations | what is hard | correct when |
|---|---|---|---|---|
| **SOAP registry and routing** `SoapHandler.qm` | seven forward maps of routes and seven reverse maps by `unique_id`; a TreeMap of HTTP bindings for each verb; a read-write lock | `addMethod`, `removeService`, `handleRequest` | registrations, removals and lookups interleave; the maps must stay in step; HTTP bindings are written under the read lock | a request reaches its path's service or none; removal is exact; a refusal has a cause |
| **SAX iterators** `QC_SaxIterator.h`, `QC_XmlReader.h`, three `.qpp` classes | the libxml2 reader, `val`, `element_depth` | constructor, `next`, `valid`, `reset`, `copy` | starting again, errors half way, sources that cannot be read twice | the wanted elements, in order, each once; loops end |
| **WebDAV handler** `WebDavHandler/*.qc` | the file system; properties by path | one handler per HTTP method | no lock over a request: every access to the files may see another request's effects; broken uploads; removals that fail half way | an answer tells what was done; properties live as long as their resource |
| **parse_xml, make_xml** `QoreXmlReader.cpp`, `QoreXmlRpcReader.h`, `ql_xml.qpp` | a stack of open elements with counters; the hash being built | the loop of `getXmlData`, `add_xml_element` | keys made unique by suffixes, strings that become hashes, lists of siblings | nothing is lost; with `XPF_PRESERVE_ORDER` the document comes back |
| **Salesforce session** `SalesforceSoapClient.qm` | `logged_in`, `sessionid`, `serverurl`, the client's URL; a mutex | `login`, `logout`, `disconnect`, calls, destructor | threads share a lazy login; requests and answers get lost; the server ends sessions | one session at a time; none forgotten; the mutex released |
| **XML-RPC handler and client** `XmlRpcHandler.qm`, `QC_XmlRpcClient.qpp` | a list of methods | `addMethod`, `handleRequest`, `call`, `callArgs` | methods are added without a lock while calls walk the list; faults; lists as parameters and as answers | a call runs the method of its name with what was sent, and the client gets its answer or the fault |
| **XML-RPC values** `QoreXmlRpcReader.cpp`, `QoreXmlRpcReader.h`, `ql_xml.qpp` | the position of the reader | writers of calls, responses, faults and values; the recursive reader | `<x/>` has no end node and is told from `<x></x>` by depths; whitespace between tags; where an error leaves the reader | what is valid is read as what it says; nothing is dropped in silence |
| **XmlReader, XmlDoc, XmlNode objects** `QC_XmlDoc.h`, `QC_XmlNode.h`, `QC_XmlReader.h`, `QoreXmlReader.h` | private data, reference counts of documents, libxml2's trees | constructors, `copy`, `getRootElement`, `evalXPath`, moves between nodes, destructors | objects outlive the one they came from; a tree is freed once, by its last owner | no dangling pointer, no leak |
| **Constructors with a schema, XML I/O callbacks** `QoreXmlReader.h`, `QC_AbstractXmlIoInputCallback.h`, `xml-module.cpp` | a thread-local callback object, its context and its references | `init`, `processOpts`, `match`, `open`, `read`, `close` | libxml2's callbacks are global; failure at every step | a schema's imports go to the object of its own options; every way out gives back what it took |
| SOAP client `SoapClient.qm` | headers, event queue, HTTP connection | `call*`, `getMsg` | failures between the phases of a call | not modelled |
| WSDL and XSD `WSDL.qm` | parsed definitions, constant after construction | serialize, deserialize | occurrences, choices, namespaces, multipart | not modelled |
| SAX data provider `SaxDataProvider.qc` | one iterator | `searchRecords` | searches share the iterator | not modelled |
| WebDAV proxy `WebDavHandlerProxy.qc` | child handlers | dispatch | which base path applies | not modelled |
| SOAP data provider, command-line tools | none of their own | calls of the above | – | not modelled |

How they interact: the HTTP server calls `SoapHandler`, `XmlRpcHandler` and the
WebDAV handlers from one thread per connection, so their state is shared between
threads. The application registers and removes services while requests are being
handled. `SalesforceSoapClient` is called from any thread and calls a server that
may not answer. `XmlRpcClient` and `XmlRpcHandler` meet in the messages that the
functions of `ql_xml.qpp` write and `QoreXmlRpcReader` reads; either may talk to a
peer that writes XML-RPC in another way. An iterator, a reader and a call of
`parse_xml()` belong to one thread: there the order of calls and the errors half
way are what is hard; but the constructors of readers in several threads share
libxml2's input callbacks, and nodes share the document they came from. The data
providers are layers over the clients and the iterators.

## 2. Modules

| module | models |
|---|---|
| `SoapHandler` | registration and removal of services |
| `SoapRequest` | extends it: a request that is handled meanwhile |
| `SoapRequestProofs` | theorems about `SoapHandler`, and about `SoapRequest` on top of those |
| `SaxIterator` | the iterators over libxml2's reader |
| `ElementIterator` | the abstract iterator that `SaxIterator` implements |
| `SaxIteratorProofs` | theorems about `SaxIterator`, the refinement among them |
| `FsWebDavHandler` | the WebDAV server over a directory |
| `FsWebDavHandlerProofs` | theorems about `FsWebDavHandler` |
| `XmlData` | `parse_xml()`: the loop that builds the result |
| `XmlRoundTrip` | extends it: `make_xml()`, which writes the result |
| `XmlDataProofs` | theorems about `XmlData` |
| `SalesforceSession` | the client, its threads and the server |
| `SalesforceSessionProofs` | theorems about `SalesforceSession` |
| `XmlRpcReader` | XML-RPC messages: their writers and their reader |
| `XmlRpcHandler` | the handler's list of methods, extended by threads |
| `XmlRpcCall` | composes both: a call from client to handler and back, with other peers |
| `XmlRpcHandlerProofs` | theorems about `XmlRpcHandler` |
| `XmlObjects` | lives of documents, nodes and readers |
| `XmlObjectsProofs` | theorems about `XmlObjects` |
| `XmlInput` | constructors with a schema and the XML I/O callbacks |
| `XmlInputProofs` | theorems about `XmlInput` |
| `MC*` | instances for TLC |

In the modules, an operator whose name ends in `_Something` and that is called a
*slip* in its comment is a plausible bug of the definition below it. No
specification uses it. Put in the place of the definition it shows that a
property is able to fail.

### SoapHandler

The forward maps `sam`, `uri_sam`, `wsph`, `wsh`, `owsh`, `methods` and
`uri_methods` are filled by one rule: the first registration that claims a key
keeps it, and only the registration that filled a key is recorded for removal
in the reverse map. They are one function `table` over tagged keys (`Slot`);
the reverse maps are `rtable`, a set of keys for each `unique_id`. `AltPath` is
the path of 320-339: the caller's, else that of the port's address.
`AddSoap`, `RejectSoap` and `RemoveService` are one step each, as the code holds
the write lock. An HTTP binding is registered in three steps of its thread
(`HttpCheck`, `HttpCreate`, `HttpPut`), as the code holds the read lock only;
`NoReaders` keeps writers out meanwhile. `live` and `outcome` are history
variables.

### SoapRequest

`handleRequest()` looks in up to three places, each under a read lock of its
own, and calls the operation with no lock. Each lookup is an action; every action
of `SoapHandler` may come in between. `steady` and `seen` remember the
registrations that were there all the while, and at some time, since the request
arrived. A path may have a query: 802 takes it off the path, but not off the path
below the root (`Bare`, `ByService`). `Under` stands for `TreeMap::get()`, which returns the entry of the
longest prefix (external); `LeadingParts` assumes that a path has a longest among
any of its leading parts.

### SaxIterator

A document is the sequence of nodes the reader delivers; a node may be malformed
or violate the schema. `reader` is libxml2's state (external), `val` and
`element_depth` are the code's. `next` is `QoreSaxIterator::next()` with the
decision to start again (`MustReset`), the exception of a stream that cannot be
read again and the file that is gone. `isValid()` is `xmlTextReaderIsValid() == 1`,
which is 0 when no schema is set. The release build is modelled: two assertions of
a debug build (`QoreXmlReader.h:233`, `QC_XmlReader.h:77`) abort in a second pass.

`ElementIterator` says what a caller is promised (`QC_SaxIterator.qpp:70-84`): next,
next, ..., end, and from the start again after that. The document's length and
the kind of source are in its state, so that the cases which are taken out of the
promise are actions with a guard and a name: `Gone` and `Refuse` for sources that
cannot be read again, and `Exhausted`, which contradicts the documentation. The
refinement mapping (`Abstract` in `SaxIterator`) counts the wanted elements up to
the reader's position.

### FsWebDavHandler

Every access to the file system or to the properties is a step; a handler keeps
where it is in `job[t]`. Uploads write their blocks through an open file that
another request may have unlinked (`linked`): a chunked body block by block, another one
at once. Either may fail after the file was truncated (`UploadFails`), with a
part of the body written. `DELETE` may remove a tree in part.
`GET` stands for `HEAD` and `PUT` for `POST`, which run the same code. `COPY` and
`MOVE` are answered with 500, as the code reads a key that is never set (971).
`Block` is what a file can hold, the "hole" that `write()` leaves behind the end
included. `alone`, `changed` and `orphaned` are history: `orphaned` holds the paths
whose properties outlived the resource because a collection was removed above
it, or because a PROPPATCH was under way.

### XmlData, XmlRoundTrip

A step is one turn of the loop of `getXmlData()` with a node that may follow in a
well-formed document; processing instructions, for which the loop has no branch,
and whitespace, which it skips, are among them (`Dropped`). `heap` holds the values, as the code's stack holds
references to them: `heap[0]` is the result, `heap[i]` the value of the element
that is node `i` of the document. An entry of a hash has a text, or the elements
(a list, where there are several) whose values it refers to. A key `"name^i"` is
`<<name, i>>`. What is said of the nodes (`NothingLost`) is said of this heap,
without recursion; `XmlRoundTrip` has the recursive `make_xml`, the nodes the
result is serialized to.

### SalesforceSession

Each operation is: `lock`, at most two requests (a login and then the call),
`unlock`. The server is external: it issues and ends sessions, serves or not,
and its answers may be lost. `lost` remembers the sessions whose login was not
answered; nobody can end these but the server.

### XmlRpcReader

A message is the sequence of nodes that libxml2's reader delivers, each with its
type, name and depth; `cut` says that the input breaks off after the last. The
writers build the sequence from a value; `Formatted` puts whitespace between the
tags. The readers are operators on a position in `doc`: each returns `ok` and the
place it stopped at, `error` (an exception), or `silent`, the return code of
`readSkipWhitespace()` when there is no more node, for which the code raises no
exception. They follow the functions of `QoreXmlRpcReader.cpp` one by one,
including the tests on depths that tell an empty element from one with content.
A value is a kind and a content; of contents, the model tells apart the empty
string, blank text, and integers above and below 32 bits.

### XmlRpcHandler, XmlRpcCall

`addMethodInternal()` computes an index and stores at it: two steps (`AddIndex`,
`AddStore`), as there is no lock. Its search for a duplicate looks at a hash
that nothing fills, and is left out. `Found` is the first method that matches,
as `callMethod()` takes it; which names a method matches is a set.

`XmlRpcCall` is a call: `SendCall`, `Parse`, `FindMethod`, `CallMethod`,
`Receive`, and `WriteValue`, `ReadValue` for the functions on a single value.
The look-up uses the handler's `methods`, and every step of a thread that adds a
method may come between any two steps. `Edit` is a peer other than this module:
the message in transit has one element removed, doubled, emptied, renamed, or
followed by something that does not belong there, or breaks off at any node.
`Valid` and `Says` read the message as a tree, without the reader: they say what
XML-RPC means by it.

### XmlObjects

An object is its private data: class, tree, document it refers to, and whether
it frees the tree (`del`). `refs` is the count of `QoreXmlDocData`. Every method
that gives an object is an action; objects are destroyed in any order. Nodes that
`copy()` made own their tree; nodes that are reached from such a copy, and a
namespace node that `evalXPath()` finds, only point somewhere, and a call is made
only on what exists.

### XmlInput

The constructor of a reader in steps: `init` opens the source, `processOpts`
looks at the options in order (one that is not supported may come before or after
`xsd`), with what libxml2 asks of the callback object
while it compiles the schema (`match`, `read`, `close`), `setSchema`, `afterOpts`,
and `destroy`. Each step may fail. `processOptionsGetEncoding` is the call that is
refused before `init`, of a stream or a file. `xml_io_callback` is the thread-local
variable, `Helper` and `EndHelper` are the constructor and destructor of
`XmlIoInputCallbackHelper`.

Any threads may have one callback object. That no two use it at once while they
compile a schema is an assertion (`QC_AbstractXmlIoInputCallback.h:105`), which the
release build does not have: there the second constructor overwrites the context of
the first, and either clears what the other one needs. `context` and `input` say
whose ExceptionSink and stream the object has; a thread that finds none follows a
null pointer (`Crash`, the end of the behaviour). `alone` is history.

## 3. What is checked

| run | module | bounds | result |
|---|---|---|---|
| `soap_requests` | `MCSoapRequest` | 2 services, 5 registrations, 8 requests, 4 paths with a query | holds |
| `soap_http_race` | `MCSoapHandler` | 2 threads | **fails**: `HttpRegistered` |
| `sax_iterator` | `MCSaxIterator` | 7 documents, 3 kinds of source, with and without a schema, 2 rewinds | holds |
| `sax_invalid` | `MCSaxIterator` | a string | **fails**: `NoSilentInvalid` |
| `webdav` | `MCFsWebDavHandler` | 2 clients, 3 paths, 16 requests | holds |
| `webdav_patch` | `MCFsWebDavHandler` | 2 clients that set 2 properties | **fails**: `PatchAtomic` |
| `salesforce` | `SalesforceSession` | 3 threads, 3 sessions | holds |
| `xml_roundtrip` | `MCXmlData` | all documents of 6 nodes, depth 2, 2 names, one node outside the root, one node that is dropped or an element with attributes | holds |
| `xmlrpc` | `MCXmlRpcCall` | values nested two deep, 2 method names, one method added, one edit per call | holds |
| `xmlrpc_list` | `MCXmlRpcCall` | the same without edits, a method that returns a list | **fails**: `AnswerIsReturn` |
| `xml_objects` | `MCXmlObjects` | 5 objects, 4 trees | holds |
| `xml_input` | `MCXmlInput` | 2 threads, 2 callback objects, 22 calls | holds |

What the runs show, and why the bounds are enough:

* `soap_requests`: `RevConsistent`, `NoStaleRoute`, `RouteStable` and
  `RejectedForCause` say that the maps stay in step and a refusal has a cause. The
  registrations cover a path given and a path taken from the port, a shared
  SOAPAction, name and request element, an HTTP binding and none. These properties
  are about one key or two registrations, so two services are enough; they are
  also proved for any number, and for unique_ids used in any way. With one
  unique_id per service, as the documentation of `addMethod()` asks for,
  `PathExclusive`, `UriReachable`, `OwnPathFirst` and `SteadyServed` say that a
  path belongs to a service and answers for it while others come and go. One case
  is taken out by name, `HiddenByQuery`: the WSDL of a path with several components
  below the root path is never found, as this path keeps its query.
  `NotRemovedBefore` bounds how stale an operation may be, `ExactMatchRespected`
  that an HTTP operation with an exact URL serves no other. Requests only read, so
  one of them at a time sees all it could see among several.
* `sax_iterator`: the documents have wanted elements at two depths in both
  orders, none, a malformed node and invalid nodes. `DeliversElements` is the
  refinement, with `Exhausted` as the one behaviour that the documentation denies;
  `ValidIsWanted` says where the reader is while `valid()` is true, and names the
  states in which it is true of no element (`UnreadButValid`: after `reset()`, and in
  a new stream iterator); `LoopTerminates` is the liveness.
* `webdav`: the tree is `/`, `d`, `d/f`: parent, child and grandparent, which is as
  far as any handler looks. Two clients are enough for every race of a check and
  an act; the proofs drop the bounds. `RefusalChangesNothing` has one exception, an
  upload that fails when its file is open (`CutShort`): the old content is gone,
  and what the file holds is the start of the body.
* `salesforce`: three threads let one wait while another takes over; three
  sessions let the client log in again twice.
* `xml_roundtrip`: six nodes and two names give three siblings of alternating
  names below a root with text between them, which is what suffixes and counters
  depend on. One element has attributes, in every place and beside those that have
  none; the attributes of an element are set once, when its value is made. A
  document that has no such element has one processing instruction or whitespace,
  at every place: it goes, and nothing else does.
  `NothingLost` says of the values that each node that is kept (`Kept`) is in one of
  them, once,
  in the value of the element around it, under its name and with its attributes;
  `RoundTrip` that with `XPF_PRESERVE_ORDER` `make_xml()` writes the document again,
  and with any flags each node as often as the document has it. Both have two
  exceptions: the nodes that are `Dropped`, and a comment after the root element
  (`Misplaced`), which the code puts into the element that was open last
  (`QoreXmlRpcReader.h:103`).
* `xmlrpc`: `ReadAsWritten` and `NothingDropped` compare the reader with the tree
  for every message and every edit; a value two deep has each construct inside
  each of the others, and as the reader keeps no state but its position and the
  depth, one edit shows where it loses its place. Two places are left out, by
  name: `HollowValue` (`<value></value>` in an array, or as the value of a
  response, is taken for `<value/>`, and the reader goes on behind it) and
  `AfterEmpty` (what follows an element without content may be taken for its
  end). `AnswerArrives` is the whole call without edits. `SteadyDispatch` holds
  with one thread that adds; with two, both may take the same index, and one
  method is lost (listed under the hazards).
* `xml_objects`: a document, two nodes of it, a copy and a reader exist at once,
  which is all a method relates. `Alive` leaves out nodes that the code makes
  without a reference: those reached from a copied node, and namespace nodes.
* `xml_input`: two constructors at once are enough for one to disturb the other,
  with objects of their own and with a shared one. The calls are one on each kind
  of source with a schema and an object, with a good and with a bad encoding, and
  on a stream each that differs from it in one option. `OwnCallback` says that the
  context and the stream in the object are the thread's own while it is alone with
  it, and that nobody else crashes; `Released` names what is not given back: the
  stream of a constructor that refuses its encoding. The code asserts that
  `open()` of a callback builds no reader with a schema; that is left out.

Each of the four failing properties is stated by the documentation or a comment of
the code (`findings` in `PROJECT.json` quotes it).

1. `SoapHandler.qm:474`: two threads that register the first HTTP bindings of a
   verb can lose one.
2. `QC_XmlReader.h:73`: a restarted reader does not validate.
3. `FsWebDavHandler.qc:916`: PROPPATCH requests mix; without a race they do not
   (`PatchesDoNotMix`).
4. `XmlRpcHandler.qm:293`: a list that a method returns goes out as several
   parameters, which the client refuses.

The models show further behaviour that is worth knowing and has no failing run
of its own; where a property would fail on it, it is a named exception there:

* HTTP bindings survive `removeService()` (`SoapHandler.qm:268`).
* The WSDL of a service on a path of several components below the root path is
  answered with 501: `?wsdl` is taken off the path (802), not off the one below the
  root (737, 811). `HiddenByQuery`.
* With a schema, `next()` does not start again after a document that kept to it
  (`QC_SaxIterator.h:89`), as `isValid()` is still true of a reader at its end;
  `QC_SaxIterator.qpp:73-74` says that it does. `Exhausted`.
* `valid()` is true after `reset()` of an iterator that was valid, and in a new
  stream iterator, before any element was read; `QC_SaxIterator.qpp:113-114` says
  that it then points to an element. `UnreadButValid`.
* An upload that fails after its file was opened answers 400 and has replaced the
  old content (`FsWebDavHandler.qc:388`, 398-407). `CutShort`.
* `parse_xml()` drops processing instructions, and text that is whitespace, without
  an error (`QoreXmlReader.cpp:123`, 232-336). `Dropped`.
* Two constructors that compile schemas with one callback object at the same time
  exchange their exceptions and streams, or crash
  (`QC_AbstractXmlIoInputCallback.h:103-112`). `alone`, `crashed`.
* A stream constructor that is given an `encoding` option of the wrong type does
  not give back its reference to the stream (`QC_XmlReader.qpp:96-99`,
  `QC_InputStreamSaxIterator.qpp:75-78`). `Released` says so.

Deadlock is checked except where the system does stop: `salesforce` (the object
has been destroyed), `xml_roundtrip` (the document has ended), the `xmlrpc` runs
(the call is over), `xml_objects` (no tree is left to allocate) and `xml_input` (the
process has crashed).

### Fairness

* `SaxSpec`: `WF(next)`, a caller that loops on `next()`; nothing else is fair.
* `SessionSpec`: `WF(Progress(t))`, a thread that is in a request gets its answer or
  an exception (the HTTP client has timeouts), and a thread that has the mutex
  goes on. Taking the mutex is not assumed to be fair.
* The other specifications state no fairness; their properties are safety.

## 4. What is proved

The eight proof modules hold for any numbers of services, operations, paths,
unique_ids, threads, requests, documents, objects, trees, callbacks and methods. The assumptions are the
`ASSUME`s of the modules: the types of the constants, and that `None` is none of
the values.

**SoapHandler.** `TypeOK`, `RevConsistent` and `NoStaleRoute` are not inductive
alone. Removal keeps `NoStaleRoute` only since the reverse map is exact; a
registration keeps the reverse map exact only since it fills none but empty keys.
The inductive invariant is

    IInv == TypeOK /\ RevConsistent /\ NoStaleRoute /\ SoapOnly /\ HttpOnlyInThreads

`SoapOnly` says that the table holds SOAP registrations only; `HttpOnlyInThreads`
that a thread is busy with a registration of an HTTP binding only, so that what
it adds to `live` concerns no path of a SOAP service. `Invariance` proves it;
`TypeCorrect`, `RemovalIsExact`, `RoutesAreLive`, `RoutesAreStable` and
`RejectionsHaveACause` follow. `UriReachable` is inductive on top of `IInv`:
`PathsAreReachable`; the argument is that a removal drops what the unique_id of
the service filled, which with one unique_id per service is everything below its
path, and a registration is refused unless the path is its own. `PathsAreExclusive`
follows from it: a path's entry has one service.

`HttpStaysRegistered` is about HTTP bindings, which are written under the read
lock. `Spec` alone does not imply `HttpRegistered` (`soap_http_race`); the theorem
is `Spec /\ []NoCreateRace => []HttpRegistered`, for any number of threads.
`NoCreateRace` says that no two threads are about to create the TreeMap of the same
verb. So that race is the only one that loses a registration: the other
interleavings of these writes are harmless.

**SoapRequest.** `RequestsOnlyRead`: a behaviour with requests is one of the registry,
so all theorems above hold with requests too (`RegistryUnderRequests`). The inductive
invariant is

    ReqInv == RequestTypeOK /\ Stages /\ History /\ ActionMissed
              /\ NoneRefused /\ OwnServiceFound /\ NotRemovedBefore
              /\ ExactMatchRespected

`History` ties the history variables to the registry (what is in `steady` is
registered now, and what is registered now is in `seen`); `ActionMissed` says what
a SOAPAction that was looked up in vain rules out at the later stages. With `UriReachable` at each
lookup, no registration that was there all the while is missed: `SteadyServices`
and `OwnPathWins`. A lookup without the query finds what the registry has under the
path; the one with it is what `HiddenByQuery` excepts, for any paths and queries. `CalledWasThere` and `ExactIsExact` are parts of the invariant; the
latter needs that an entry of a TreeMap is stored under its own path
(`TreeEntries`).

**SaxIterator.** The inductive invariant is

    SaxInv == SaxTypeOK /\ ValidIsWanted /\ DepthKnown /\ NothingBadPassed
              /\ PassOver /\ ClosedAtStart

`DepthKnown`: `element_depth` is the depth of the first element of the name, and
known once the pass has begun; `NothingBadPassed`: no malformed node is behind the
reader; `PassOver`: a pass ends at the end or at a malformed node. Hence the next
place where the loop of `next()` stops is the next wanted element, which is what
`ElementsDelivered` needs: `SaxSpec` implies `DeliversElements`, initial state and
every step, for documents of any length. The abstract position is the number of
wanted elements up to the reader, a cardinality; the lemmas about it say that it
grows by one exactly when the loop stops at the next wanted element.

**FsWebDavHandler.** The inductive invariant is

    WebDavInv == Typed /\ (\A t \in Thread : JobInv(t)) /\ NoOrphanProps
    JobInv(t) == Staged(t) /\ Uploading(t) /\ Deleting(t) /\ Answered(t)

`Staged`: a stage belongs to a method, and nothing was changed before the last
stages; `Uploading`: a file that is being written and that nobody else touched
holds the first `k` blocks; `Deleting`: a resource whose properties are about to be
deleted is gone, if nobody else touched it; `Answered`: what the answers promise.
All of it speaks of a resource only while the request was alone with it, and a
step of another request takes `alone` away when it changes the resource
(`OthersGoOn`): so what is left is each step of the request itself. `RefusalsAreClean`
covers uploads of both kinds that fail: what `UploadFails` leaves is a leading part
of the body, shorter than it (`UploadFailsKeeps`). That a file
holds the first blocks needs two lemmas about `write()`: `WrittenAppends` and
`WrittenTyped`. The invariant was also checked as one on the instance of the run
`webdav`. `WebDavTyped`, `RefusalsAreClean`, `UploadsAreStored`, `DeletedAreGone`,
`OrphansAreKnown` and `PatchesAreWhole` follow. The assumptions are the types of the
constants, that a directory holds no data, and that "hole" is a block.

PROPPATCH is not atomic (the run `webdav_patch`, section 3). `PatchesDoNotMix` says
that the race is the only cause: `PatchAtomic` holds, for any number of connections
and among requests of every other kind, when no two requests are at the properties of
one resource at once (`[]NoPatchRace`: neither two PROPPATCH, nor one and a DELETE
that is about to call `deleteProperties()`), and a request names a property once
(`NamedOnce`; one that names it twice does not set it "to one value"). The invariant
`PatchInv`: properties that every request sets together are equal (`Settled`) where no
request is updating them; where one is, its first `k` updates are made and what they
do not name is as it was (`Patching`). The hypotheses leave every kind of request
in: TLC found `PatchInv` to hold on an instance with PROPPATCH, DELETE, MKCOL and PUT
of one file, without the race, before it was proved.

**XmlData.** The inductive invariant is

    XmlInv == Typed /\ Shape /\ KeysDiffer /\ Path /\ Linked /\ Counters
              /\ AllOpen /\ NothingLost

`Path`: the frames of the stack are the last elements of each depth; `Linked`: each
is in the value of the frame before it; `AllOpen`: whatever may follow in a
well-formed document has the element around it on the stack; `Counters`: a frame's
counters are above every number its hash uses; `KeysDiffer`: a hash has a key once.
Every turn of the loop, other than one that skips a node, does one thing
(`Adds`): it puts one node at one place of the value that `checkDepth()` leaves at
the tail, in a new entry or at the end of a list (`ElementStep`, `StringStep`,
`SpecialStep`); a node that is skipped changes nothing, although its depth may be
less than that of the last one. From that alone each part of `NothingLost` follows. That a free
suffix is found among the first numbers is a pigeonhole argument
(`FreshKeyIsFree`). `StackIsPath` and `NothingIsLost` hold for documents of any
length and depth and for any flags; the assumption is that no element's name is
one of the keys the code writes between carets. `XmlInv` was also checked as an
invariant on documents of five nodes.

**SalesforceSession.** The inductive invariant is

    IInv == SessionTypeOK /\ Owner /\ Stages /\ NoForgottenSession

`Owner`: a thread in an operation holds the mutex, or is the destructor after
everybody has finished; `Stages`: a thread that logs in found no session, and a
thread that logs out found one. `SessionConsistent`, `NoneForgotten` and
`RequestsExclude` follow.

**XmlObjects.** A count of references is exact only while every document that
is counted is live, and a document stays live only while its count is exact:

    ObjectsInv == ObjectsTypeOK /\ Held /\ Owned /\ RefsCounted /\ NothingLeaks

`Held`: a document that an object refers to is live; `Owned`: the tree of a copy is
live, no document's, and has one owner. The count is the cardinality of a set of
objects, so each action needs a lemma on how creating or destroying an object
changes it; `Object` is assumed to be finite. `Lifetimes` is the invariant;
`NeverDangles`, `CountIsExact` and `AllIsFreed` follow.

**XmlInput.** The inductive invariant is

    InputInv == InputTypeOK /\ InUse /\ NotAlone /\ Owners /\ NothingHeld
                /\ RefusedAtOnce /\ CrashShared

`InUse`: a thread that compiles a schema has the object of its options in use, and
if it is alone with it, finds its own context and stream there; `NotAlone`: of two
threads that use one object neither is alone; `Owners`: the context, the stream and
the references of an object are those of threads that use it, shared or not, so
that nothing is left when the last one is done; `NothingHeld` and `RefusedAtOnce`:
an idle thread holds nothing but the stream of a call whose encoding was refused;
`CrashShared`: a thread that crashed was not alone. Nothing is assumed about which
threads share an object. `EachItsOwn` and `AllReleased` follow.

**XmlRpcHandler.** Two threads that add a method at once may take the same index
(section 3). The theorems say that nothing else goes wrong: they hold for any number
of threads in a behaviour where no two are between taking an index and storing the
method (`[]NoIndexRace`). `HandlerInv == HandlerTypeOK /\ IndexIsEnd /\ AddedAreThere`:
the index a thread has taken is still the end of the list. Hence the list only grows
(`Registered`), and `SteadyDispatch` holds (`DispatchIsSteady`). That one thread
races with nobody is a corollary, with no hypothesis on the behaviour
(`OneAdderIsSteady`).

**Model-checked only.** Liveness (`LoopTerminates`, `LockReleased`), which needs
ENABLED; `RoundTrip`; and the properties of `XmlRpcCall` (`ReadAsWritten`,
`NothingDropped`, `RejectionReported`, `AnswerArrives`): `make_xml` and the readers and
writers of XML-RPC are recursive operators over nested data, and what they compute
for every value would need induction over that data.

## 5. What is not modelled, and why

* libxml2, the file system, Qore's TreeMap, hashes and locks, and the servers a
  client talks to are external: modelled from how the code uses them.
* The data of messages: names, values and types, encodings, formatting of
  numbers, dates and answers, logging, authentication, help pages.
* In XML-RPC: GET requests, the content type, and references to values inside the
  reader (a struct that names a member twice leaks one, see the hazards).
* In XmlReader, XmlDoc and XmlNode: the methods that ask libxml2 for one thing
  and change nothing of the module's.
* In WebDAV: authorization, properties named twice in one request, what COPY and
  MOVE would do if they were reached, an unknown HTTP method (405).
* `parse_xml()` with namespace prefixes stripped, and validation in it.
* The components of the table above marked as not modelled.

## 6. Plan

Done: registry, requests, SAX iterators, WebDAV, XML data, Salesforce session,
XML-RPC values, handler and call, lives of objects, constructors with a schema.

Left, the most important behaviour first:

1. `Xsd`: how `XsdElement` and `XsdComplexType` write and read values
   (occurrences, nillable, choices, `<any>`, attributes) against what the type
   says, as recursive operators checked over small types.
2. `SoapClient`: the phases of a call, what an exception in each of them leaves in
   the headers and the reply information shared with other threads; composed
   with `SalesforceSession` below `callIntern()`.
3. `SaxDataProvider` over `SaxIterator`, and `WebDavHandlerProxy` over an abstract
   handler.
4. Registry: `NoLostRoute`, a property of the global keys after removals.

Proofs to come: a property of each new module that has one worth stating for
every instance.

## 7. Running

    tlc -config soap_requests.cfg MCSoapRequest
    tlapm SoapRequestProofs.tla

`PROJECT.json` lists the runs with their modules and configurations, the slips
with the properties they break, the lines each definition stands for, the hazards
the properties are aimed at, and the theorems.
