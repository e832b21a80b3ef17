--------------------------- MODULE XmlInputProofs ---------------------------
(***************************************************************************)
(* OwnCallback and Released hold for any number of threads and callbacks,  *)
(* and whatever options the constructors are called with.                  *)
(*                                                                         *)
(* The inductive invariant says who uses an object: a constructor that     *)
(* compiles a schema has the object of its options in use (InUse), what an *)
(* object keeps belongs to a thread that uses it (Owners), and two threads *)
(* that use one object at a time are not alone with it (NotAlone).         *)
(***************************************************************************)
EXTENDS XmlInput, TLAPS

Resource == {"string", "stream", "fd", "reader", "val"}

InputTypeOK ==
  /\ step \in [Thread -> {"idle", "options", "schema", "after", "return", "built"}]
  /\ opts \in [Thread -> Options]
  /\ failed \in [Thread -> BOOLEAN]
  /\ held \in [Thread -> SUBSET Resource]
  /\ xml_io_callback \in [Thread -> Callback \cup {None}]
  /\ context \in [Callback -> Thread \cup {None}]
  /\ input \in [Callback -> Thread \cup {None}]
  /\ refs \in [Callback -> SUBSET Thread]
  /\ reading \in [Thread -> BOOLEAN]
  /\ alone \in [Thread -> BOOLEAN]
  /\ crashed \in Thread \cup {None}

\* What an object that it has to itself keeps for thread t
Undisturbed(t) ==
  alone[t] => /\ context[xml_io_callback[t]] = t
              /\ input[xml_io_callback[t]] = IF reading[t] THEN t ELSE None

InUse ==
  \A t \in Thread :
    /\ step[t] = "schema" => xml_io_callback[t] = opts[t].io
    /\ step[t] # "schema" => xml_io_callback[t] = None
    /\ xml_io_callback[t] = None => ~reading[t]
    /\ xml_io_callback[t] # None => Undisturbed(t)

NotAlone ==
  \A t, u \in Thread :
    t # u /\ xml_io_callback[t] # None /\ xml_io_callback[u] = xml_io_callback[t] => ~alone[t]

Owners ==
  \A c \in Callback, u \in Thread :
    /\ context[c] = u => xml_io_callback[u] = c
    /\ input[c] = u => xml_io_callback[u] = c /\ reading[u]
    /\ u \in refs[c] <=> xml_io_callback[u] = c

NothingHeld ==
  \A t \in Thread : step[t] = "idle" =>
    held[t] = IF Refused(opts[t]) /\ opts[t].source = "stream" THEN {"stream"} ELSE {}

\* The place "return" of a refused call is the only one at which it can be.
RefusedAtOnce ==
  \A t \in Thread : Refused(opts[t]) =>
    /\ step[t] \in {"idle", "return"}
    /\ held[t] = IF opts[t].source = "stream" THEN {"stream"} ELSE {}

CrashShared == crashed # None => ~alone[crashed]

InputInv ==
  InputTypeOK /\ InUse /\ NotAlone /\ Owners /\ NothingHeld /\ RefusedAtOnce /\ CrashShared

-----------------------------------------------------------------------------
(* Constructors that do not touch the callbacks: one thread goes on, and it *)
(* neither begins nor ends a schema.                                        *)

LEMMA QuietPreserves ==
  ASSUME InputInv, NEW t \in Thread, InputTypeOK', UNCHANGED callback_vars,
         step[t] # "schema", step'[t] # "schema",
         \A u \in Thread \ {t} : step'[u] = step[u] /\ opts'[u] = opts[u] /\ held'[u] = held[u],
         NothingHeld', RefusedAtOnce'
  PROVE  InputInv'
<1> USE DEF InputInv, callback_vars
<1>1. InUse' BY DEF InUse, Undisturbed
<1>2. NotAlone' BY DEF NotAlone
<1>3. Owners' BY DEF Owners
<1>4. CrashShared' BY DEF CrashShared
<1> QED BY <1>1, <1>2, <1>3, <1>4

\* The call of another thread, or the same one further on
LEMMA HeldAfter ==
  ASSUME InputInv, NEW t \in Thread,
         \A u \in Thread \ {t} : step'[u] = step[u] /\ opts'[u] = opts[u] /\ held'[u] = held[u],
         Refused(opts'[t]) => /\ step'[t] \in {"idle", "return"}
                              /\ held'[t] = IF opts'[t].source = "stream" THEN {"stream"} ELSE {},
         step'[t] = "idle" /\ ~Refused(opts'[t]) => held'[t] = {}
  PROVE  NothingHeld' /\ RefusedAtOnce'
<1>1. RefusedAtOnce' BY DEF InputInv, RefusedAtOnce, Refused
<1>2. NothingHeld' BY DEF InputInv, NothingHeld, Refused
<1> QED BY <1>1, <1>2

-----------------------------------------------------------------------------

LEMMA CallPreserves ==
  ASSUME InputInv, NEW t \in Thread, processOptionsGetEncoding(t) \/ init(t)
  PROVE  InputInv'
<1>1. PICK o \in Call : /\ step[t] = "idle" /\ opts' = [opts EXCEPT ![t] = o]
                        /\ \/ processOptionsGetEncoding(t) /\ Refused(o) /\ Goto(t, "return") /\ Fail(t)
                              /\ held' = [held EXCEPT ![t] = {o.source} \ {"fd"}]
                           \/ /\ init(t) /\ ~Refused(o)
                              /\ Goto(t, "return") \/ Goto(t, "options")
                              /\ Fail(t) \/ UNCHANGED failed
                              /\ \E h \in {{o.source, "reader"}, {o.source} \ {"fd"}} :
                                    held' = [held EXCEPT ![t] = h]
                        /\ UNCHANGED callback_vars
  <2>1. CASE processOptionsGetEncoding(t) BY <2>1 DEF processOptionsGetEncoding
  <2>2. CASE init(t) BY <2>2 DEF init
  <2> QED BY <2>1, <2>2
<1>2. o \in Options /\ o.source \in {"string", "stream", "fd"} BY CallAssumption DEF Options
<1>3. InputTypeOK'
  <2>1. {o.source, "reader"} \in SUBSET Resource /\ {o.source} \ {"fd"} \in SUBSET Resource
    BY <1>2 DEF Resource
  <2>2. held' \in [Thread -> SUBSET Resource] BY <1>1, <2>1 DEF InputInv, InputTypeOK
  <2>3. step' \in [Thread -> {"idle", "options", "schema", "after", "return", "built"}]
        /\ failed' \in [Thread -> BOOLEAN]
    BY <1>1 DEF InputInv, InputTypeOK, Goto, Fail
  <2>4. opts' \in [Thread -> Options] BY <1>1, <1>2 DEF InputInv, InputTypeOK
  <2> QED BY <1>1, <2>2, <2>3, <2>4 DEF InputInv, InputTypeOK, callback_vars
<1>4. /\ step'[t] \in {"options", "return"} /\ opts'[t] = o
      /\ \A u \in Thread \ {t} : step'[u] = step[u] /\ opts'[u] = opts[u] /\ held'[u] = held[u]
  BY <1>1 DEF InputInv, InputTypeOK, Goto
<1>5. Refused(o) => /\ step'[t] = "return"
                    /\ held'[t] = IF o.source = "stream" THEN {"stream"} ELSE {}
  BY <1>1, <1>2 DEF InputInv, InputTypeOK, Goto, Refused
<1>6. NothingHeld' /\ RefusedAtOnce' BY <1>4, <1>5, HeldAfter
<1> QED BY <1>1, <1>3, <1>4, <1>6, QuietPreserves

LEMMA HelperPreserves ==
  ASSUME InputInv, crashed = None, NEW t \in Thread, processOpts(t)
  PROVE  InputInv'
<1> DEFINE c == opts[t].io
<1>1. /\ step[t] = "options" /\ UNCHANGED <<opts, held>> /\ ~Refused(opts[t])
      /\ c \in Callback \cup {None, "not_callback"}
      /\ xml_io_callback[t] = None /\ ~reading[t]
  BY DEF processOpts, InputInv, InputTypeOK, Options, InUse, RefusedAtOnce
<1>2. CASE UNCHANGED callback_vars /\ (Goto(t, "return") \/ Goto(t, "after"))
  <2>1. InputTypeOK'
    BY <1>1, <1>2 DEF processOpts, InputInv, InputTypeOK, Goto, Fail, callback_vars, Helper
  <2>2. step'[t] \in {"return", "after"} /\ \A u \in Thread \ {t} : step'[u] = step[u]
    BY <1>2 DEF InputInv, InputTypeOK, Goto
  <2>3. NothingHeld' /\ RefusedAtOnce' BY <1>1, <2>2, HeldAfter
  <2> QED BY <1>1, <1>2, <2>1, <2>2, <2>3, QuietPreserves
<1>3. CASE opts[t].xsd = "text" /\ c # "not_callback" /\ Goto(t, "schema") /\ Helper(t) /\ UNCHANGED failed
  <2>1. c \in Callback \cup {None} BY <1>1, <1>3
  <2>2. step'[t] = "schema" /\ \A u \in Thread \ {t} : step'[u] = step[u]
    BY <1>3 DEF InputInv, InputTypeOK, Goto
  <2>3. NothingHeld' /\ RefusedAtOnce' BY <1>1, <2>2, HeldAfter
  <2>4. CASE c = None
    <3>1. UNCHANGED callback_vars BY <1>3, <2>4 DEF Helper
    <3>2. InputTypeOK' BY <1>1, <1>3, <3>1 DEF InputInv, InputTypeOK, Goto, callback_vars
    <3>3. InUse' BY <1>1, <2>2, <2>4, <3>1 DEF InputInv, InUse, Undisturbed, callback_vars
    <3>4. NotAlone' /\ Owners' /\ CrashShared'
      BY <3>1 DEF InputInv, NotAlone, Owners, CrashShared, callback_vars
    <3> QED BY <2>3, <3>2, <3>3, <3>4 DEF InputInv
  <2>5. CASE c \in Callback
    <3>1. c # None BY <2>5, NoneAssumption
    <3>2. /\ xml_io_callback' = [xml_io_callback EXCEPT ![t] = c]
          /\ context' = [context EXCEPT ![c] = t]
          /\ refs' = [refs EXCEPT ![c] = @ \cup {t}]
          /\ alone' = [u \in Thread |-> IF u = t THEN Users(c) = {} ELSE alone[u] /\ u \notin Users(c)]
          /\ UNCHANGED <<input, reading, crashed>>
      BY <1>3, <3>1 DEF Helper
    <3>3. /\ alone'[t] => \A u \in Thread : xml_io_callback[u] # c
          /\ \A u \in Thread \ {t} : alone'[u] <=> alone[u] /\ xml_io_callback[u] # c
      BY <3>2 DEF Users, InputInv, InputTypeOK
    <3>4. /\ xml_io_callback'[t] = c /\ context'[c] = t /\ refs'[c] = refs[c] \cup {t}
          /\ \A u \in Thread \ {t} : xml_io_callback'[u] = xml_io_callback[u]
          /\ \A d \in Callback \ {c} : context'[d] = context[d] /\ refs'[d] = refs[d]
      BY <2>5, <3>2 DEF InputInv, InputTypeOK
    <3>5. InputTypeOK'
      <4>1. alone' \in [Thread -> BOOLEAN] BY <3>2 DEF InputInv, InputTypeOK
      <4> QED BY <1>1, <1>3, <2>5, <3>2, <4>1 DEF InputInv, InputTypeOK, Goto
    <3>6. InUse'
      <4>1. alone'[t] => input[c] = None
        BY <2>5, <3>3 DEF InputInv, InputTypeOK, Owners
      <4>2. ASSUME NEW u \in Thread \ {t}, xml_io_callback[u] # None PROVE Undisturbed(u)'
        <5>1. xml_io_callback[u] \in Callback BY <4>2 DEF InputInv, InputTypeOK
        <5> QED BY <3>2, <3>3, <3>4, <4>2, <5>1 DEF InputInv, InUse, Undisturbed
      <4>3. Undisturbed(t)' BY <1>1, <3>2, <3>4, <4>1 DEF Undisturbed
      <4> QED BY <1>1, <2>2, <3>1, <3>2, <3>4, <4>2, <4>3 DEF InputInv, InUse
    <3>7. NotAlone' BY <3>1, <3>3, <3>4 DEF InputInv, NotAlone
    <3>8. Owners' BY <1>1, <2>5, <3>1, <3>2, <3>4, NoneAssumption DEF InputInv, InputTypeOK, Owners
    <3>9. CrashShared' BY <1>1, <3>2, <3>3 DEF InputInv, CrashShared, InputTypeOK
    <3> QED BY <2>3, <3>5, <3>6, <3>7, <3>8, <3>9 DEF InputInv
  <2> QED BY <2>1, <2>4, <2>5
<1> QED BY <1>2, <1>3 DEF processOpts

\* The callbacks of libxml2: only the object's own stream and the failure change, or
\* the object lost its context or its stream and was not the thread's alone.
LEMMA CallbackPreserves ==
  ASSUME InputInv, crashed = None, NEW t \in Thread, match(t) \/ read(t) \/ close(t)
  PROVE  InputInv'
<1> DEFINE c == xml_io_callback[t]
<1>1. /\ step[t] = "schema" /\ c # None /\ c \in Callback
      /\ alone[t] => context[c] = t /\ input[c] = IF reading[t] THEN t ELSE None
      /\ \A u \in Thread \ {t} : xml_io_callback[u] = c => ~alone[u]
  BY DEF match, read, close, Asked, InputInv, InputTypeOK, InUse, Undisturbed, NotAlone
<1>2. CASE Crash(t) /\ (context[c] = None \/ (reading[t] /\ input[c] = None))
  <2>1. ~alone[t] BY <1>1, <1>2, NoneAssumption
  <2>2. CrashShared' BY <1>2, <2>1 DEF Crash, CrashShared
  <2>3. InputTypeOK' BY <1>2 DEF Crash, InputInv, InputTypeOK
  <2> QED
    BY <1>2, <2>2, <2>3
    DEF Crash, InputInv, InUse, Undisturbed, NotAlone, Owners, NothingHeld, RefusedAtOnce
<1>3. CASE /\ UNCHANGED <<step, opts, held, xml_io_callback, context, refs, alone, crashed>>
           /\ UNCHANGED failed \/ (context[c] # None /\ Fail(context[c]))
           /\ \/ UNCHANGED <<input, reading>>
              \/ input' = [input EXCEPT ![c] = t] /\ reading' = [reading EXCEPT ![t] = TRUE]
              \/ input' = [input EXCEPT ![c] = None] /\ reading' = [reading EXCEPT ![t] = FALSE]
  <2>1. InputTypeOK'
    <3>1. failed' \in [Thread -> BOOLEAN] BY <1>3 DEF InputInv, InputTypeOK, Fail
    <3>2. input' \in [Callback -> Thread \cup {None}]
      BY <1>1, <1>3 DEF InputInv, InputTypeOK
    <3>3. UNCHANGED <<step, opts, held, xml_io_callback, context, refs, alone, crashed>> BY <1>3
    <3>4. reading' \in [Thread -> BOOLEAN]
      BY <1>3 DEF InputInv, InputTypeOK
    <3> QED BY <3>1, <3>2, <3>3, <3>4 DEF InputInv, InputTypeOK
  <2>2. /\ \A d \in Callback \ {c} : input'[d] = input[d]
        /\ \A u \in Thread \ {t} : reading'[u] = reading[u]
        /\ \/ input'[c] = input[c] /\ reading'[t] = reading[t]
           \/ input'[c] = t /\ reading'[t]
           \/ input'[c] = None /\ ~reading'[t]
    BY <1>1, <1>3 DEF InputInv, InputTypeOK
  <2>3. InUse'
    <3>1. ASSUME NEW u \in Thread \ {t}, xml_io_callback[u] # None PROVE Undisturbed(u)'
      <4>1. xml_io_callback[u] \in Callback BY <3>1 DEF InputInv, InputTypeOK
      <4>2. CASE xml_io_callback[u] = c BY <1>1, <1>3, <4>2 DEF Undisturbed
      <4>3. CASE xml_io_callback[u] # c
        BY <1>3, <2>2, <3>1, <4>1, <4>3 DEF InputInv, InUse, Undisturbed
      <4> QED BY <4>2, <4>3
    <3>2. Undisturbed(t)' BY <1>1, <1>3, <2>2 DEF Undisturbed
    <3> QED BY <1>1, <1>3, <2>2, <3>1, <3>2 DEF InputInv, InUse
  <2>4. NotAlone' BY <1>3 DEF InputInv, NotAlone
  <2>5. Owners' BY <1>1, <1>3, <2>2, NoneAssumption DEF InputInv, InputTypeOK, Owners
  <2>6. NothingHeld' /\ RefusedAtOnce' /\ CrashShared'
    BY <1>3 DEF InputInv, NothingHeld, RefusedAtOnce, CrashShared
  <2> QED BY <2>1, <2>3, <2>4, <2>5, <2>6 DEF InputInv
<1>4. CASE match(t) BY <1>1, <1>2, <1>3, <1>4 DEF match
<1>5. CASE read(t) BY <1>1, <1>2, <1>3, <1>5 DEF read, callback_vars
<1>6. CASE close(t) BY <1>1, <1>2, <1>3, <1>6 DEF close
<1> QED BY <1>4, <1>5, <1>6

\* Whether the schema was compiled or not, the helper gives back what it took.
LEMMA SchemaPreserves ==
  ASSUME InputInv, crashed = None, NEW t \in Thread, setSchema(t)
  PROVE  InputInv'
<1> DEFINE c == xml_io_callback[t]
<1>1. /\ step[t] = "schema" /\ EndHelper(t) /\ UNCHANGED opts /\ ~reading[t] /\ ~Refused(opts[t])
      /\ c \in Callback \cup {None}
      /\ \A u \in Thread \ {t} : held'[u] = held[u]
  BY DEF setSchema, InputInv, InputTypeOK, RefusedAtOnce
<1>2. /\ step'[t] \in {"after", "return"}
      /\ \A u \in Thread \ {t} : step'[u] = step[u]
  BY DEF setSchema, Goto, InputInv, InputTypeOK
<1>3. NothingHeld' /\ RefusedAtOnce' BY <1>1, <1>2, HeldAfter
<1>4. /\ step' \in [Thread -> {"idle", "options", "schema", "after", "return", "built"}]
      /\ opts' \in [Thread -> Options]
      /\ failed' \in [Thread -> BOOLEAN]
      /\ held' \in [Thread -> SUBSET Resource]
  <2>1. held[t] \cup {"val"} \in SUBSET Resource BY DEF InputInv, InputTypeOK, Resource
  <2>2. held' \in [Thread -> SUBSET Resource] BY <2>1 DEF setSchema, InputInv, InputTypeOK
  <2> QED BY <2>2 DEF setSchema, Goto, Fail, InputInv, InputTypeOK
<1>5. CASE c = None
  <2>1. UNCHANGED callback_vars BY <1>1, <1>5 DEF EndHelper
  <2>2. InputTypeOK' BY <1>4, <2>1 DEF InputInv, InputTypeOK, callback_vars
  <2>3. InUse' BY <1>1, <1>2, <1>5, <2>1 DEF InputInv, InUse, Undisturbed, callback_vars
  <2>4. NotAlone' /\ Owners' /\ CrashShared'
    BY <2>1 DEF InputInv, NotAlone, Owners, CrashShared, callback_vars
  <2> QED BY <1>3, <2>2, <2>3, <2>4 DEF InputInv
<1>6. CASE c \in Callback
  <2>1. c # None BY <1>6, NoneAssumption
  <2>2. /\ xml_io_callback' = [xml_io_callback EXCEPT ![t] = None]
        /\ context' = [context EXCEPT ![c] = None]
        /\ refs' = [refs EXCEPT ![c] = @ \ {t}]
        /\ UNCHANGED <<input, reading, alone, crashed>>
    BY <1>1, <2>1 DEF EndHelper
  <2>3. InputTypeOK' BY <1>4, <1>6, <2>2 DEF InputInv, InputTypeOK
  <2>4. /\ xml_io_callback'[t] = None
        /\ context'[c] = None /\ refs'[c] = refs[c] \ {t}
        /\ \A u \in Thread \ {t} : xml_io_callback'[u] = xml_io_callback[u]
        /\ \A d \in Callback \ {c} : context'[d] = context[d] /\ refs'[d] = refs[d]
    BY <1>6, <2>2 DEF InputInv, InputTypeOK
  <2>5. InUse'
    <3>1. ASSUME NEW u \in Thread \ {t}, xml_io_callback[u] # None PROVE Undisturbed(u)'
      <4>1. xml_io_callback[u] \in Callback BY <3>1 DEF InputInv, InputTypeOK
      <4>2. CASE xml_io_callback[u] = c
        BY <2>1, <2>2, <2>4, <4>2 DEF InputInv, NotAlone, Undisturbed
      <4>3. CASE xml_io_callback[u] # c
        BY <2>2, <2>4, <3>1, <4>1, <4>3 DEF InputInv, InUse, Undisturbed
      <4> QED BY <4>2, <4>3
    <3> QED BY <1>1, <1>2, <2>2, <2>4, <3>1 DEF InputInv, InUse
  <2>6. NotAlone' BY <2>2, <2>4 DEF InputInv, NotAlone
  <2>7. Owners' BY <1>1, <1>6, <2>1, <2>2, <2>4, NoneAssumption DEF InputInv, InputTypeOK, Owners
  <2>8. CrashShared' BY <2>2 DEF InputInv, CrashShared
  <2> QED BY <1>3, <2>3, <2>5, <2>6, <2>7, <2>8 DEF InputInv
<1> QED BY <1>1, <1>5, <1>6

LEMMA EndPreserves ==
  ASSUME InputInv, NEW t \in Thread, afterOpts(t) \/ destroy(t)
  PROVE  InputInv'
<1>1. /\ step[t] \in {"after", "return", "built"} /\ UNCHANGED opts /\ UNCHANGED callback_vars
      /\ step'[t] \in {"return", "built", "idle"}
      /\ \A u \in Thread \ {t} : step'[u] = step[u] /\ held'[u] = held[u]
  BY DEF afterOpts, destroy, Goto, InputInv, InputTypeOK
<1>2. /\ Refused(opts[t]) => step'[t] = "idle" /\ held'[t] = held[t]
      /\ step'[t] = "idle" /\ ~Refused(opts[t]) => held'[t] = {}
  BY DEF afterOpts, destroy, Goto, InputInv, InputTypeOK, RefusedAtOnce
<1>3. InputTypeOK'
  <2>1. held' \in [Thread -> SUBSET Resource]
    BY DEF afterOpts, destroy, InputInv, InputTypeOK
  <2> QED BY <2>1 DEF afterOpts, destroy, Goto, Fail, InputInv, InputTypeOK, callback_vars
<1>4. NothingHeld' /\ RefusedAtOnce' BY <1>1, <1>2, HeldAfter DEF InputInv, RefusedAtOnce
<1> QED BY <1>1, <1>3, <1>4, QuietPreserves

-----------------------------------------------------------------------------

LEMMA InputInitHolds == InputInit => InputInv
<1> SUFFICES ASSUME InputInit PROVE InputInv OBVIOUS
<1>1. InputTypeOK BY DEF InputInit, InputTypeOK, Options
<1>2. InUse /\ NotAlone BY DEF InputInit, InUse, NotAlone
<1>3. Owners BY NoneAssumption DEF InputInit, Owners
<1>4. NothingHeld /\ RefusedAtOnce /\ CrashShared
  BY DEF InputInit, NothingHeld, RefusedAtOnce, CrashShared, Refused
<1> QED BY <1>1, <1>2, <1>3, <1>4 DEF InputInv

LEMMA InputNextHolds == InputInv /\ [InputNext]_ivars => InputInv'
<1>1. CASE UNCHANGED ivars
  BY <1>1
  DEF ivars, InputInv, InputTypeOK, InUse, Undisturbed, NotAlone, Owners, NothingHeld,
      RefusedAtOnce, CrashShared
<1> QED
  BY <1>1, CallPreserves, HelperPreserves, CallbackPreserves, SchemaPreserves, EndPreserves DEF InputNext

\* What a constructor holds at each place, and whose the context, the stream and the
\* references of a callback object are, shared or not: the inductive invariant.
THEOREM ConstructorInvariant == InputSpec => []InputInv
BY InputInitHolds, InputNextHolds, PTL DEF InputSpec

\* With any number of threads that share callback objects as they like, the imports of
\* a schema go to the object of the constructor's own options; a thread that has the
\* object to itself finds its own context and stream there, and never a null pointer.
THEOREM EachItsOwn == InputSpec => []OwnCallback
<1>1. InputInv => OwnCallback
  BY DEF InputInv, InUse, Undisturbed, CrashShared, OwnCallback
<1> QED BY <1>1, ConstructorInvariant, PTL

\* On every way out of a constructor but one, what it took has been released: the
\* stream of a call that is refused for its encoding, and nothing else, stays.
THEOREM AllReleased == InputSpec => []Released
<1>1. InputInv => Released
  <2> SUFFICES ASSUME InputInv PROVE Released OBVIOUS
  <2>1. ASSUME NEW t \in Thread, step[t] = "idle"
        PROVE  /\ held[t] = IF Refused(opts[t]) /\ opts[t].source = "stream" THEN {"stream"} ELSE {}
               /\ xml_io_callback[t] = None
    BY <2>1 DEF InputInv, InUse, NothingHeld
  <2>2. ASSUME NEW c \in Callback, \A t \in Thread : step[t] = "schema" => opts[t].io # c
        PROVE  context[c] = None /\ input[c] = None /\ refs[c] = {}
    <3>1. \A t \in Thread : xml_io_callback[t] # c BY <2>2, NoneAssumption DEF InputInv, InUse
    <3> QED BY <3>1 DEF InputInv, InputTypeOK, Owners
  <2> QED BY <2>1, <2>2 DEF Released
<1> QED BY <1>1, ConstructorInvariant, PTL
=============================================================================
