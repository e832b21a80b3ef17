------------------------------ MODULE XmlInput ------------------------------
(***************************************************************************)
(* The constructors of XmlReader and the SAX iterators: QoreXmlReader::    *)
(* init() opens the source, processOpts() compiles the schema of the "xsd" *)
(* option, and libxml2 asks the object of the "xml_input_io" option, which *)
(* a thread-local variable holds meanwhile, for what the schema imports.   *)
(*                                                                         *)
(* Threads run constructors side by side, also with one callback object:   *)
(* that this may not happen while a schema is compiled is only asserted,   *)
(* and the release build, which is modelled, has no assertions.  That      *)
(* open() of a callback builds no reader with a schema is asserted too; it *)
(* is left out.                                                            *)
(***************************************************************************)
CONSTANTS
  Thread,
  Callback,  \* AbstractXmlIoInputCallback objects
  None,
  Call       \* the options that constructors are called with

\* What a constructor can be called with; other: an option that is not supported,
\* in the hash before or after xsd.
Options == [source : {"string", "stream", "fd"}, encoding : {"string", "not_string"},
            xsd : {"none", "text", "not_string"}, io : Callback \cup {None, "not_callback"},
            other : {"none", "before", "after"}]

ASSUME NoneAssumption == None \notin Thread \cup Callback
ASSUME CallAssumption == Call \subseteq Options

VARIABLES
  step,    \* per thread: where the constructor is
  opts,    \* per thread: the options it was called with
  failed,  \* per thread: an exception was raised
  held,    \* per thread: what the reader holds
  xml_io_callback,  \* thread-local: the callback object in use
  context,          \* per callback: the thread whose ExceptionSink it has
  input,            \* per callback: the thread it has an open stream for
  refs,             \* per callback: the threads whose constructor took a reference
  reading,          \* per thread: libxml2 has a document of the callback open
  alone,            \* history: no other thread used the callback at the same time
  crashed           \* the thread that followed a null pointer, or None

ivars == <<step, opts, failed, held, xml_io_callback, context, input, refs, reading, alone, crashed>>

InputInit ==
  /\ step = [t \in Thread |-> "idle"]
  /\ opts = [t \in Thread |-> [source |-> "string", encoding |-> "string", xsd |-> "none",
                             io |-> None, other |-> "none"]]
  /\ failed = [t \in Thread |-> FALSE]
  /\ held = [t \in Thread |-> {}]
  /\ xml_io_callback = [t \in Thread |-> None]
  /\ context = [c \in Callback |-> None]
  /\ input = [c \in Callback |-> None]
  /\ refs = [c \in Callback |-> {}]
  /\ reading = [t \in Thread |-> FALSE]
  /\ alone = [t \in Thread |-> TRUE]
  /\ crashed = None

callback_vars == <<xml_io_callback, context, input, refs, reading, alone, crashed>>
Goto(t, to) == step' = [step EXCEPT ![t] = to]
Fail(t) == failed' = [failed EXCEPT ![t] = TRUE]

\* The constructors of streams and files refuse an encoding that is no string
\* before anything else; that of a string does not look at it.
Refused(o) == o.encoding = "not_string" /\ o.source \in {"stream", "fd"}

\* They return at once then.  The argument holds a reference to the stream, and
\* there is no reader yet that would own it.
processOptionsGetEncoding(t) ==
  \E o \in Call :
    /\ step[t] = "idle" /\ Refused(o)
    /\ opts' = [opts EXCEPT ![t] = o]
    /\ held' = [held EXCEPT ![t] = {o.source} \ {"fd"}]
    /\ Goto(t, "return") /\ Fail(t)
    /\ UNCHANGED callback_vars

\* init(): what the source takes, and the xmlTextReader.  A file may be missing,
\* and libxml2 may give no reader; then the file is closed again.
init(t) ==
  \E o \in Call, opened, made \in BOOLEAN :
    /\ step[t] = "idle" /\ ~Refused(o)
    /\ o.source # "fd" => opened
    /\ opts' = [opts EXCEPT ![t] = o]
    /\ held' = [held EXCEPT ![t] = IF opened /\ made THEN {o.source, "reader"} ELSE {o.source} \ {"fd"}]
    /\ IF opened /\ made THEN Goto(t, "options") /\ UNCHANGED failed
       ELSE Goto(t, "return") /\ Fail(t)
    /\ UNCHANGED callback_vars

Users(c) == {u \in Thread : xml_io_callback[u] = c}

\* Slip: the variable that names the object is not thread-local.
Helper_Global(t) ==
  LET c == opts[t].io
  IN  IF c = None THEN UNCHANGED callback_vars
      ELSE /\ xml_io_callback' = [u \in Thread |-> c]
           /\ context' = [context EXCEPT ![c] = t]
           /\ refs' = [refs EXCEPT ![c] = @ \cup {t}]
           /\ alone' = [u \in Thread |-> IF u = t THEN Users(c) = {} ELSE alone[u] /\ u \notin Users(c)]
           /\ UNCHANGED <<input, reading, crashed>>

\* XmlIoInputCallbackHelper takes a reference to the object; the context of another
\* thread that uses the object is overwritten.
Helper(t) ==
  LET c == opts[t].io
  IN  IF c = None THEN UNCHANGED callback_vars
      ELSE /\ xml_io_callback' = [xml_io_callback EXCEPT ![t] = c]
           /\ context' = [context EXCEPT ![c] = t]
           /\ refs' = [refs EXCEPT ![c] = @ \cup {t}]
           /\ alone' = [u \in Thread |-> IF u = t THEN Users(c) = {} ELSE alone[u] /\ u \notin Users(c)]
           /\ UNCHANGED <<input, reading, crashed>>

\* processOpts(), up to the schema
processOpts(t) ==
  /\ step[t] = "options"
  /\ IF opts[t].other = "before" \/ opts[t].xsd = "not_string"
        \/ (opts[t].xsd = "text" /\ opts[t].io = "not_callback")
     THEN Goto(t, "return") /\ Fail(t) /\ UNCHANGED callback_vars
     ELSE IF opts[t].xsd = "text" THEN Goto(t, "schema") /\ Helper(t) /\ UNCHANGED failed
     ELSE Goto(t, "after") /\ UNCHANGED <<failed, callback_vars>>
  /\ UNCHANGED <<opts, held>>

\* The callbacks of libxml2 do nothing in a thread that has no object in use.
Asked(t) == step[t] = "schema" /\ xml_io_callback[t] # None

\* What the object lost to another thread is a null pointer.
Crash(t) ==
  /\ crashed' = t
  /\ UNCHANGED <<step, opts, failed, held, xml_io_callback, context, input, refs, reading, alone>>

\* xmlSchemaParse() wants a document: the match and open callbacks.  open() of the
\* object gives a stream, or nothing, or throws.
match(t) ==
  LET c == xml_io_callback[t]
  IN  /\ Asked(t) /\ ~reading[t]
      /\ \/ context[c] = None /\ Crash(t)
         \/ /\ context[c] # None
            /\ \/ /\ input' = [input EXCEPT ![c] = t]
                  /\ reading' = [reading EXCEPT ![t] = TRUE]
                  /\ UNCHANGED failed
               \/ Fail(context[c]) /\ UNCHANGED <<input, reading>>
               \/ UNCHANGED <<failed, input, reading>>
            /\ UNCHANGED <<step, opts, held, xml_io_callback, context, refs, alone, crashed>>

\* read() of the stream throws: the exception is in the context of the object.
read(t) ==
  LET c == xml_io_callback[t]
  IN  /\ Asked(t) /\ reading[t]
      /\ \/ (context[c] = None \/ input[c] = None) /\ Crash(t)
         \/ /\ context[c] # None /\ input[c] # None
            /\ Fail(context[c])
            /\ UNCHANGED <<step, opts, held, callback_vars>>

\* libxml2 closes what it opened, read to the end or not; the callback closes the
\* stream that the object has.
close(t) ==
  LET c == xml_io_callback[t]
  IN  /\ Asked(t) /\ reading[t]
      /\ \/ (context[c] = None \/ input[c] = None) /\ Crash(t)
         \/ /\ input[c] # None
            /\ input' = [input EXCEPT ![c] = None]
            /\ reading' = [reading EXCEPT ![t] = FALSE]
            /\ UNCHANGED <<step, opts, failed, held, xml_io_callback, context, refs, alone, crashed>>

\* Slip: the helper is left behind when the schema fails.
EndHelper_OnSuccess(t) ==
  LET c == xml_io_callback[t]
  IN  IF c = None \/ failed[t] THEN UNCHANGED callback_vars
      ELSE /\ xml_io_callback' = [xml_io_callback EXCEPT ![t] = None]
           /\ context' = [context EXCEPT ![c] = None]
           /\ refs' = [refs EXCEPT ![c] = @ \ {t}]
           /\ UNCHANGED <<input, reading, alone, crashed>>

\* The destructor of the helper, on every way out
EndHelper(t) ==
  LET c == xml_io_callback[t]
  IN  IF c = None THEN UNCHANGED callback_vars
      ELSE /\ xml_io_callback' = [xml_io_callback EXCEPT ![t] = None]
           /\ context' = [context EXCEPT ![c] = None]
           /\ refs' = [refs EXCEPT ![c] = @ \ {t}]
           /\ UNCHANGED <<input, reading, alone, crashed>>

\* The schema is compiled and set, or that failed and it is deleted.
setSchema(t) ==
  /\ step[t] = "schema"
  /\ ~reading[t]
  /\ EndHelper(t)
  /\ \/ ~failed[t] /\ held' = [held EXCEPT ![t] = @ \cup {"val"}] /\ Goto(t, "after") /\ UNCHANGED failed
     \/ Fail(t) /\ Goto(t, "return") /\ UNCHANGED held
  /\ UNCHANGED opts

\* The options after xsd
afterOpts(t) ==
  /\ step[t] = "after"
  /\ IF opts[t].other = "after" THEN Goto(t, "return") /\ Fail(t)
     ELSE Goto(t, "built") /\ UNCHANGED failed
  /\ UNCHANGED <<opts, held, callback_vars>>

\* The destructor, of an object that is in use or of one whose constructor failed:
\* reset(), then the source.  A stream that no reader took over keeps its reference.
destroy(t) ==
  /\ step[t] \in {"return", "built"}
  /\ Goto(t, "idle")
  /\ held' = [held EXCEPT ![t] = IF Refused(opts[t]) THEN @ ELSE {}]
  /\ failed' = [failed EXCEPT ![t] = FALSE]
  /\ UNCHANGED <<opts, callback_vars>>

InputNext ==
  /\ crashed = None
  /\ \E t \in Thread : \/ processOptionsGetEncoding(t) \/ init(t) \/ processOpts(t)
                       \/ match(t) \/ read(t) \/ close(t)
                       \/ setSchema(t) \/ afterOpts(t) \/ destroy(t)
InputSpec == InputInit /\ [][InputNext]_ivars

-----------------------------------------------------------------------------
(* Properties *)

\* While a schema is compiled, its imports go to the object that its own options
\* name, or to none.  What goes wrong there is raised in its own thread, and the
\* open stream is its own, unless another thread uses the object at the same time;
\* only then can the object lose its context or its stream, and the process with it.
OwnCallback ==
  /\ \A t \in Thread : step[t] = "schema" =>
       LET c == opts[t].io
       IN  /\ xml_io_callback[t] = c
           /\ c # None /\ alone[t] =>
                /\ context[c] = t
                /\ input[c] = IF reading[t] THEN t ELSE None
  /\ crashed # None => ~alone[crashed]

\* Whatever failed on the way, nothing stays: no file or reader without an object,
\* and a callback that no constructor uses has no context, stream or reference.
\* The one exception is the stream of a constructor that refused its encoding: its
\* reference is never given back.
Released ==
  /\ \A t \in Thread : step[t] = "idle" =>
       /\ held[t] = IF Refused(opts[t]) /\ opts[t].source = "stream" THEN {"stream"} ELSE {}
       /\ xml_io_callback[t] = None
  /\ \A c \in Callback : (\A t \in Thread : step[t] = "schema" => opts[t].io # c) =>
       context[c] = None /\ input[c] = None /\ refs[c] = {}
=============================================================================
